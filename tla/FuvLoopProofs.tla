---------------------------- MODULE FuvLoopProofs ----------------------------
(***************************************************************************)
(* Proofs about FuvLoop for every set of handles and of requests and every *)
(* order in which a sweep finalizes them.  The inductive invariant rests   *)
(* on one fact about collections: an object that is still linked to its    *)
(* loop is swept only together with the loop, because the loop marks what  *)
(* it has in refs.                                                         *)
(***************************************************************************)
EXTENDS FuvLoop, TLAPS

-----------------------------------------------------------------------------
(* The inductive invariant. *)

\* The collection under way takes the loop.
LoopDying == Loop \in white \/ gc \in {"drain", "gclist"}

InGclist(o) == \E i \in DOMAIN gclist : gclist[i] = o

\* What libuv may call back for is linked to the loop, or left to it; only
\* requests are canceled.
LibuvLinked ==
    /\ \A o \in Clients : uv[o] \in {"open", "closing", "flight"} =>
          (mem[o] = "heap" /\ link[o]) \/ mem[o] = "delayed"
    /\ \A h \in Handles : uv[h] # "canceled"

\* libuv is done with everything when the loop is closed or about to go.
NoneRegistered ==
    closed \/ gc = "gclist" => \A o \in Clients : uv[o] \notin Registered

\* The list gclist has the delayed objects, which wait for a loop that exists
\* and that this very collection frees.
DelayedWait ==
    \A o \in Clients :
        /\ InGclist(o) <=> mem[o] = "delayed"
        /\ mem[o] = "delayed" =>
              /\ mem[Loop] = "heap"
              /\ LoopDying \/ pc \in {"undefined", "reentered"}

\* The loop is in use while uv_run runs.
LoopInUse ==
    /\ mem[Loop] \in {"heap", "freed"}
    /\ pc \in {"run", "call"} => mem[Loop] = "heap" /\ ~LoopDying

\* What is swept is neither freed yet nor in the program's hands.
SweptIsUnheld ==
    /\ gc = "off" => white = {}
    /\ \A o \in white : mem[o] = "heap" /\ o \notin held
    /\ gc \in {"drain", "gclist"} =>
          mem[Loop] = "heap" /\ Loop \notin white /\ Loop \notin held

\* A loop is swept when no linked object is held, and a linked object only
\* together with its loop.
SweptTogether ==
    /\ LoopDying \/ mem[Loop] = "freed" => \A o \in held \cap Clients : ~link[o]
    /\ \A o \in white \cap Clients : link[o] /\ mem[Loop] # "freed" => LoopDying

\* The loop is freed with nothing pointing to it, if it was not closed.
LinksCut ==
    (gc = "gclist" \/ mem[Loop] = "freed") /\ ~closed => \A o \in Clients : ~link[o]

\* After the last sweep has begun, it has everything.
LastSweepHasAll ==
    pc = "over" => \A o \in Objs : mem[o] = "heap" =>
        o \in white \/ (o = Loop /\ gc \in {"drain", "gclist"})

IndInv ==
    /\ TypeOK
    /\ RefsExact
    /\ LibuvLinked
    /\ NoneRegistered
    /\ HeldIsAlive
    /\ DelayedWait
    /\ LoopInUse
    /\ SweptIsUnheld
    /\ SweptTogether
    /\ LinksCut
    /\ LastSweepHasAll

-----------------------------------------------------------------------------
(* Sequences. *)

\* What a list is when an element is put in front of it.
LEMMA ConsFacts ==
  ASSUME NEW S, NEW q \in Seq(S), NEW x \in S
  PROVE  /\ <<x>> \o q \in Seq(S)
         /\ DOMAIN (<<x>> \o q) = 1 .. Len(q) + 1
         /\ DOMAIN q = 1 .. Len(q) /\ Len(q) \in Nat
         /\ (<<x>> \o q)[1] = x
         /\ \A i \in 1 .. Len(q) : (<<x>> \o q)[i + 1] = q[i]
OBVIOUS

-----------------------------------------------------------------------------
(* Every step keeps the invariant. *)

\* The types.
LEMMA TypeStep == TypeOK /\ [Next]_vars => TypeOK'
<1> SUFFICES ASSUME TypeOK, [Next]_vars PROVE TypeOK'
  OBVIOUS
<1> USE ObjsAssumption
<1> USE DEF TypeOK, Clients, Objs, Registered, Closers, PCs, InProgram, InRun, AddRef,
            RemoveRef, Unlinked, ReqCleanUp, ownerVars, loopVars, closeVars, gcVars
<1>1. ASSUME NEW h \in Handles, MakeHandle(h) PROVE TypeOK'
  BY <1>1 DEF MakeHandle
<1>2. ASSUME NEW h \in Handles, MakeHandleFails(h) PROVE TypeOK'
  BY <1>2 DEF MakeHandleFails
<1>3. ASSUME NEW r \in Reqs, StartReq(r) PROVE TypeOK'
  BY <1>3 DEF StartReq
<1>4. ASSUME NEW r \in Reqs, StartReqFails(r) PROVE TypeOK'
  BY <1>4 DEF StartReqFails
<1>5. ASSUME NEW r \in Reqs, fuv_req_cancel(r) PROVE TypeOK'
  BY <1>5 DEF fuv_req_cancel
<1>6. ASSUME NEW h \in Handles, NEW proc \in BOOLEAN, fuv_handle_close(h, proc) PROVE TypeOK'
  BY <1>6 DEF fuv_handle_close, uv_close
<1>7. ASSUME NEW h \in Handles, NEW proc \in BOOLEAN, fuv_tcp_close_reset(h, proc) PROVE TypeOK'
  BY <1>7 DEF fuv_tcp_close_reset, uv_close
<1>8. CASE UseClosedLoop
  BY <1>8 DEF UseClosedLoop
<1>9. CASE fuv_loop_close
  BY <1>9 DEF fuv_loop_close
<1>10. CASE fuv_loop_run
  BY <1>10 DEF fuv_loop_run
<1>11. CASE LoopRunRefused
  BY <1>11 DEF LoopRunRefused
<1>12. ASSUME NEW o \in Objs, Fetch(o) PROVE TypeOK'
  BY <1>12 DEF Fetch
<1>13. ASSUME NEW o \in Objs, Drop(o) PROVE TypeOK'
  BY <1>13 DEF Drop
<1>14. ASSUME NEW h \in Handles, HandleEvent(h) PROVE TypeOK'
  BY <1>14 DEF HandleEvent
<1>15. ASSUME NEW h \in Handles, FinishClose(h) PROVE TypeOK'
  BY <1>15 DEF FinishClose, close_callback_wrapper, CallsProgram
<1>16. ASSUME NEW r \in Reqs, NEW proc \in BOOLEAN, FinishReq(r, proc) PROVE TypeOK'
  BY <1>16 DEF FinishReq
<1>17. CASE LoopRunReturns
  BY <1>17 DEF LoopRunReturns
<1>18. CASE CallbackReturns
  BY <1>18 DEF CallbackReturns, InCloseCallback
<1>19. CASE CallbackRaises
  BY <1>19 DEF CallbackRaises
<1>20. CASE Collect
  BY <1>20 DEF Collect, Reachable, Roots
<1>21. CASE Shutdown
  BY <1>21 DEF Shutdown
<1>22. ASSUME NEW o \in Clients, FinalizeClient(o) PROVE TypeOK'
  <2>1. gclist' = gclist \/ gclist' = <<o>> \o gclist
    BY <1>22 DEF FinalizeClient, Halt
  <2>2. gclist' \in Seq(Clients)
    BY <2>1, ConsFacts
  <2>3. CASE ~link[o]
    BY <1>22, <2>2, <2>3 DEF FinalizeClient
  <2>4. CASE link[o] /\ mem[Loop] # "freed"
    BY <1>22, <2>2, <2>4 DEF FinalizeClient
  <2>5. CASE link[o] /\ mem[Loop] = "freed"
    BY <1>22, <2>2, <2>5 DEF FinalizeClient, Halt
  <2> QED
    BY <2>3, <2>4, <2>5
<1>23. CASE FinalizeLoop
  BY <1>23 DEF FinalizeLoop
<1>24. ASSUME NEW h \in Handles, DrainClose(h) PROVE TypeOK'
  BY <1>24 DEF DrainClose, close_callback_wrapper
<1>25. ASSUME NEW r \in Reqs, NEW proc \in BOOLEAN, DrainReq(r, proc) PROVE TypeOK'
  BY <1>25 DEF DrainReq, Halt
<1>26. CASE DrainEnds
  BY <1>26 DEF DrainEnds
<1>27. CASE SweepGclist
  BY <1>27 DEF SweepGclist
<1>28. CASE SweepEnds
  BY <1>28 DEF SweepEnds
<1>29. CASE UNCHANGED vars
  BY <1>29 DEF vars
<1> HIDE DEF TypeOK
<1> QED
  BY <1>1, <1>2, <1>3, <1>4, <1>5, <1>6, <1>7, <1>8, <1>9, <1>10, <1>11, <1>12, <1>13, <1>14, <1>15, <1>16, <1>17, <1>18, <1>19, <1>20, <1>21, <1>22, <1>23, <1>24, <1>25, <1>26, <1>27, <1>28, <1>29
  DEF Next, Program, Run, Sweep

\* The list refs.
LEMMA RefsStep == IndInv /\ [Next]_vars => RefsExact'
<1> SUFFICES ASSUME IndInv, [Next]_vars PROVE RefsExact'
  OBVIOUS
<1> USE ObjsAssumption
<1>a. TypeOK /\ RefsExact /\ HeldIsAlive /\ LoopInUse /\ SweptIsUnheld
  BY DEF IndInv
<1> USE <1>a DEF RefsExact, HeldIsAlive, LoopInUse, SweptIsUnheld, LoopDying, TypeOK, Clients, Objs, InProgram, InRun, AddRef,
            RemoveRef, Unlinked, ReqCleanUp, ownerVars, loopVars, closeVars, gcVars
<1>1. ASSUME NEW h \in Handles, MakeHandle(h) PROVE RefsExact'
  BY <1>1 DEF MakeHandle
<1>2. ASSUME NEW h \in Handles, MakeHandleFails(h) PROVE RefsExact'
  BY <1>2 DEF MakeHandleFails
<1>3. ASSUME NEW r \in Reqs, StartReq(r) PROVE RefsExact'
  BY <1>3 DEF StartReq
<1>4. ASSUME NEW r \in Reqs, StartReqFails(r) PROVE RefsExact'
  BY <1>4 DEF StartReqFails
<1>5. ASSUME NEW r \in Reqs, fuv_req_cancel(r) PROVE RefsExact'
  BY <1>5 DEF fuv_req_cancel
<1>6. ASSUME NEW h \in Handles, NEW proc \in BOOLEAN, fuv_handle_close(h, proc) PROVE RefsExact'
  BY <1>6 DEF fuv_handle_close, uv_close
<1>7. ASSUME NEW h \in Handles, NEW proc \in BOOLEAN, fuv_tcp_close_reset(h, proc) PROVE RefsExact'
  BY <1>7 DEF fuv_tcp_close_reset, uv_close
<1>8. CASE UseClosedLoop
  BY <1>8 DEF UseClosedLoop
<1>9. CASE fuv_loop_close
  BY <1>9 DEF fuv_loop_close
<1>10. CASE fuv_loop_run
  BY <1>10 DEF fuv_loop_run
<1>11. CASE LoopRunRefused
  BY <1>11 DEF LoopRunRefused
<1>12. ASSUME NEW o \in Objs, Fetch(o) PROVE RefsExact'
  BY <1>12 DEF Fetch
<1>13. ASSUME NEW o \in Objs, Drop(o) PROVE RefsExact'
  BY <1>13 DEF Drop
<1>14. ASSUME NEW h \in Handles, HandleEvent(h) PROVE RefsExact'
  BY <1>14 DEF HandleEvent
<1>15. ASSUME NEW h \in Handles, FinishClose(h) PROVE RefsExact'
  BY <1>15 DEF FinishClose, close_callback_wrapper, CallsProgram
<1>16. ASSUME NEW r \in Reqs, NEW proc \in BOOLEAN, FinishReq(r, proc) PROVE RefsExact'
  BY <1>16 DEF FinishReq
<1>17. CASE LoopRunReturns
  BY <1>17 DEF LoopRunReturns
<1>18. CASE CallbackReturns
  BY <1>18 DEF CallbackReturns, InCloseCallback
<1>19. CASE CallbackRaises
  BY <1>19 DEF CallbackRaises
<1>20. CASE Collect
  BY <1>20 DEF Collect, Reachable, Roots
<1>21. CASE Shutdown
  BY <1>21 DEF Shutdown
<1>22. ASSUME NEW o \in Clients, FinalizeClient(o) PROVE RefsExact'
  BY <1>22 DEF FinalizeClient, Halt
<1>23. CASE FinalizeLoop
  BY <1>23 DEF FinalizeLoop
<1>24. ASSUME NEW h \in Handles, DrainClose(h) PROVE RefsExact'
  BY <1>24 DEF DrainClose, close_callback_wrapper
<1>25. ASSUME NEW r \in Reqs, NEW proc \in BOOLEAN, DrainReq(r, proc) PROVE RefsExact'
  BY <1>25 DEF DrainReq, Halt
<1>26. CASE DrainEnds
  BY <1>26 DEF DrainEnds
<1>27. CASE SweepGclist
  BY <1>27 DEF SweepGclist
<1>28. CASE SweepEnds
  BY <1>28 DEF SweepEnds
<1>29. CASE UNCHANGED vars
  BY <1>29 DEF vars
<1> HIDE DEF RefsExact
<1> QED
  BY <1>1, <1>2, <1>3, <1>4, <1>5, <1>6, <1>7, <1>8, <1>9, <1>10, <1>11, <1>12, <1>13, <1>14, <1>15, <1>16, <1>17, <1>18, <1>19, <1>20, <1>21, <1>22, <1>23, <1>24, <1>25, <1>26, <1>27, <1>28, <1>29
  DEF Next, Program, Run, Sweep

\* What libuv knows.
LEMMA LibuvStep == IndInv /\ [Next]_vars => LibuvLinked'
<1> SUFFICES ASSUME IndInv, [Next]_vars PROVE LibuvLinked'
  OBVIOUS
<1> USE ObjsAssumption
<1>a. TypeOK /\ LibuvLinked /\ NoneRegistered /\ SweptIsUnheld /\ DelayedWait
  BY DEF IndInv
<1> USE <1>a DEF LibuvLinked, NoneRegistered, SweptIsUnheld, DelayedWait, InGclist, Registered, TypeOK, Clients, Objs, InProgram, InRun, AddRef,
            RemoveRef, Unlinked, ReqCleanUp, ownerVars, loopVars, closeVars, gcVars
<1>1. ASSUME NEW h \in Handles, MakeHandle(h) PROVE LibuvLinked'
  BY <1>1 DEF MakeHandle
<1>2. ASSUME NEW h \in Handles, MakeHandleFails(h) PROVE LibuvLinked'
  BY <1>2 DEF MakeHandleFails
<1>3. ASSUME NEW r \in Reqs, StartReq(r) PROVE LibuvLinked'
  BY <1>3 DEF StartReq
<1>4. ASSUME NEW r \in Reqs, StartReqFails(r) PROVE LibuvLinked'
  BY <1>4 DEF StartReqFails
<1>5. ASSUME NEW r \in Reqs, fuv_req_cancel(r) PROVE LibuvLinked'
  BY <1>5 DEF fuv_req_cancel
<1>6. ASSUME NEW h \in Handles, NEW proc \in BOOLEAN, fuv_handle_close(h, proc) PROVE LibuvLinked'
  BY <1>6 DEF fuv_handle_close, uv_close
<1>7. ASSUME NEW h \in Handles, NEW proc \in BOOLEAN, fuv_tcp_close_reset(h, proc) PROVE LibuvLinked'
  BY <1>7 DEF fuv_tcp_close_reset, uv_close
<1>8. CASE UseClosedLoop
  BY <1>8 DEF UseClosedLoop
<1>9. CASE fuv_loop_close
  BY <1>9 DEF fuv_loop_close
<1>10. CASE fuv_loop_run
  BY <1>10 DEF fuv_loop_run
<1>11. CASE LoopRunRefused
  BY <1>11 DEF LoopRunRefused
<1>12. ASSUME NEW o \in Objs, Fetch(o) PROVE LibuvLinked'
  BY <1>12 DEF Fetch
<1>13. ASSUME NEW o \in Objs, Drop(o) PROVE LibuvLinked'
  BY <1>13 DEF Drop
<1>14. ASSUME NEW h \in Handles, HandleEvent(h) PROVE LibuvLinked'
  BY <1>14 DEF HandleEvent
<1>15. ASSUME NEW h \in Handles, FinishClose(h) PROVE LibuvLinked'
  BY <1>15 DEF FinishClose, close_callback_wrapper, CallsProgram
<1>16. ASSUME NEW r \in Reqs, NEW proc \in BOOLEAN, FinishReq(r, proc) PROVE LibuvLinked'
  BY <1>16 DEF FinishReq
<1>17. CASE LoopRunReturns
  BY <1>17 DEF LoopRunReturns
<1>18. CASE CallbackReturns
  BY <1>18 DEF CallbackReturns, InCloseCallback
<1>19. CASE CallbackRaises
  BY <1>19 DEF CallbackRaises
<1>20. CASE Collect
  BY <1>20 DEF Collect, Reachable, Roots
<1>21. CASE Shutdown
  BY <1>21 DEF Shutdown
<1>22. ASSUME NEW o \in Clients, FinalizeClient(o) PROVE LibuvLinked'
  BY <1>22 DEF FinalizeClient, Halt
<1>23. CASE FinalizeLoop
  BY <1>23 DEF FinalizeLoop
<1>24. ASSUME NEW h \in Handles, DrainClose(h) PROVE LibuvLinked'
  BY <1>24 DEF DrainClose, close_callback_wrapper
<1>25. ASSUME NEW r \in Reqs, NEW proc \in BOOLEAN, DrainReq(r, proc) PROVE LibuvLinked'
  BY <1>25 DEF DrainReq, Halt
<1>26. CASE DrainEnds
  BY <1>26 DEF DrainEnds
<1>27. CASE SweepGclist
  BY <1>27 DEF SweepGclist
<1>28. CASE SweepEnds
  BY <1>28 DEF SweepEnds
<1>29. CASE UNCHANGED vars
  BY <1>29 DEF vars
<1> HIDE DEF LibuvLinked
<1> QED
  BY <1>1, <1>2, <1>3, <1>4, <1>5, <1>6, <1>7, <1>8, <1>9, <1>10, <1>11, <1>12, <1>13, <1>14, <1>15, <1>16, <1>17, <1>18, <1>19, <1>20, <1>21, <1>22, <1>23, <1>24, <1>25, <1>26, <1>27, <1>28, <1>29
  DEF Next, Program, Run, Sweep

\* Closed loops.
LEMMA RegisteredStep == IndInv /\ [Next]_vars => NoneRegistered'
<1> SUFFICES ASSUME IndInv, [Next]_vars PROVE NoneRegistered'
  OBVIOUS
<1> USE ObjsAssumption
<1>a. TypeOK /\ NoneRegistered
  BY DEF IndInv
<1> USE <1>a DEF NoneRegistered, Registered, TypeOK, Clients, Objs, InProgram, InRun, AddRef,
            RemoveRef, Unlinked, ReqCleanUp, ownerVars, loopVars, closeVars, gcVars
<1>1. ASSUME NEW h \in Handles, MakeHandle(h) PROVE NoneRegistered'
  BY <1>1 DEF MakeHandle
<1>2. ASSUME NEW h \in Handles, MakeHandleFails(h) PROVE NoneRegistered'
  BY <1>2 DEF MakeHandleFails
<1>3. ASSUME NEW r \in Reqs, StartReq(r) PROVE NoneRegistered'
  BY <1>3 DEF StartReq
<1>4. ASSUME NEW r \in Reqs, StartReqFails(r) PROVE NoneRegistered'
  BY <1>4 DEF StartReqFails
<1>5. ASSUME NEW r \in Reqs, fuv_req_cancel(r) PROVE NoneRegistered'
  BY <1>5 DEF fuv_req_cancel
<1>6. ASSUME NEW h \in Handles, NEW proc \in BOOLEAN, fuv_handle_close(h, proc) PROVE NoneRegistered'
  BY <1>6 DEF fuv_handle_close, uv_close
<1>7. ASSUME NEW h \in Handles, NEW proc \in BOOLEAN, fuv_tcp_close_reset(h, proc) PROVE NoneRegistered'
  BY <1>7 DEF fuv_tcp_close_reset, uv_close
<1>8. CASE UseClosedLoop
  BY <1>8 DEF UseClosedLoop
<1>9. CASE fuv_loop_close
  BY <1>9 DEF fuv_loop_close
<1>10. CASE fuv_loop_run
  BY <1>10 DEF fuv_loop_run
<1>11. CASE LoopRunRefused
  BY <1>11 DEF LoopRunRefused
<1>12. ASSUME NEW o \in Objs, Fetch(o) PROVE NoneRegistered'
  BY <1>12 DEF Fetch
<1>13. ASSUME NEW o \in Objs, Drop(o) PROVE NoneRegistered'
  BY <1>13 DEF Drop
<1>14. ASSUME NEW h \in Handles, HandleEvent(h) PROVE NoneRegistered'
  BY <1>14 DEF HandleEvent
<1>15. ASSUME NEW h \in Handles, FinishClose(h) PROVE NoneRegistered'
  BY <1>15 DEF FinishClose, close_callback_wrapper, CallsProgram
<1>16. ASSUME NEW r \in Reqs, NEW proc \in BOOLEAN, FinishReq(r, proc) PROVE NoneRegistered'
  BY <1>16 DEF FinishReq
<1>17. CASE LoopRunReturns
  BY <1>17 DEF LoopRunReturns
<1>18. CASE CallbackReturns
  BY <1>18 DEF CallbackReturns, InCloseCallback
<1>19. CASE CallbackRaises
  BY <1>19 DEF CallbackRaises
<1>20. CASE Collect
  BY <1>20 DEF Collect, Reachable, Roots
<1>21. CASE Shutdown
  BY <1>21 DEF Shutdown
<1>22. ASSUME NEW o \in Clients, FinalizeClient(o) PROVE NoneRegistered'
  BY <1>22 DEF FinalizeClient, Halt
<1>23. CASE FinalizeLoop
  BY <1>23 DEF FinalizeLoop
<1>24. ASSUME NEW h \in Handles, DrainClose(h) PROVE NoneRegistered'
  BY <1>24 DEF DrainClose, close_callback_wrapper
<1>25. ASSUME NEW r \in Reqs, NEW proc \in BOOLEAN, DrainReq(r, proc) PROVE NoneRegistered'
  BY <1>25 DEF DrainReq, Halt
<1>26. CASE DrainEnds
  BY <1>26 DEF DrainEnds
<1>27. CASE SweepGclist
  BY <1>27 DEF SweepGclist
<1>28. CASE SweepEnds
  BY <1>28 DEF SweepEnds
<1>29. CASE UNCHANGED vars
  BY <1>29 DEF vars
<1> HIDE DEF NoneRegistered
<1> QED
  BY <1>1, <1>2, <1>3, <1>4, <1>5, <1>6, <1>7, <1>8, <1>9, <1>10, <1>11, <1>12, <1>13, <1>14, <1>15, <1>16, <1>17, <1>18, <1>19, <1>20, <1>21, <1>22, <1>23, <1>24, <1>25, <1>26, <1>27, <1>28, <1>29
  DEF Next, Program, Run, Sweep

\* What is held.
LEMMA HeldStep == IndInv /\ [Next]_vars => HeldIsAlive'
<1> SUFFICES ASSUME IndInv, [Next]_vars PROVE HeldIsAlive'
  OBVIOUS
<1> USE ObjsAssumption
<1>a. TypeOK /\ HeldIsAlive /\ LibuvLinked /\ DelayedWait /\ LoopInUse /\ SweptIsUnheld /\ SweptTogether
  BY DEF IndInv
<1> USE <1>a DEF HeldIsAlive, LibuvLinked, DelayedWait, LoopInUse, SweptIsUnheld, SweptTogether, LoopDying, Registered, InGclist, TypeOK, Clients, Objs, InProgram, InRun, AddRef,
            RemoveRef, Unlinked, ReqCleanUp, ownerVars, loopVars, closeVars, gcVars
<1>1. ASSUME NEW h \in Handles, MakeHandle(h) PROVE HeldIsAlive'
  BY <1>1 DEF MakeHandle
<1>2. ASSUME NEW h \in Handles, MakeHandleFails(h) PROVE HeldIsAlive'
  BY <1>2 DEF MakeHandleFails
<1>3. ASSUME NEW r \in Reqs, StartReq(r) PROVE HeldIsAlive'
  BY <1>3 DEF StartReq
<1>4. ASSUME NEW r \in Reqs, StartReqFails(r) PROVE HeldIsAlive'
  BY <1>4 DEF StartReqFails
<1>5. ASSUME NEW r \in Reqs, fuv_req_cancel(r) PROVE HeldIsAlive'
  BY <1>5 DEF fuv_req_cancel
<1>6. ASSUME NEW h \in Handles, NEW proc \in BOOLEAN, fuv_handle_close(h, proc) PROVE HeldIsAlive'
  BY <1>6 DEF fuv_handle_close, uv_close
<1>7. ASSUME NEW h \in Handles, NEW proc \in BOOLEAN, fuv_tcp_close_reset(h, proc) PROVE HeldIsAlive'
  BY <1>7 DEF fuv_tcp_close_reset, uv_close
<1>8. CASE UseClosedLoop
  BY <1>8 DEF UseClosedLoop
<1>9. CASE fuv_loop_close
  BY <1>9 DEF fuv_loop_close
<1>10. CASE fuv_loop_run
  BY <1>10 DEF fuv_loop_run
<1>11. CASE LoopRunRefused
  BY <1>11 DEF LoopRunRefused
<1>12. ASSUME NEW o \in Objs, Fetch(o) PROVE HeldIsAlive'
  <2>1. gc = "off" /\ white = {} /\ ~LoopDying /\ pc \in {"code", "call"}
    BY <1>12 DEF Fetch
  <2>2. CASE o \in Clients /\ uv[o] \in Registered /\ o \in Handles
    <3>1. uv[o] \in {"open", "closing", "flight"}
      BY <2>2
    <3> QED
      BY <1>12, <2>1, <2>2, <3>1 DEF Fetch
  <2>3. CASE o = Loop /\ \E h \in Handles \cap held : link[h]
    BY <1>12, <2>1, <2>3 DEF Fetch
  <2> QED
    BY <1>12, <2>2, <2>3 DEF Fetch
<1>13. ASSUME NEW o \in Objs, Drop(o) PROVE HeldIsAlive'
  BY <1>13 DEF Drop
<1>14. ASSUME NEW h \in Handles, HandleEvent(h) PROVE HeldIsAlive'
  BY <1>14 DEF HandleEvent
<1>15. ASSUME NEW h \in Handles, FinishClose(h) PROVE HeldIsAlive'
  BY <1>15 DEF FinishClose, close_callback_wrapper, CallsProgram
<1>16. ASSUME NEW r \in Reqs, NEW proc \in BOOLEAN, FinishReq(r, proc) PROVE HeldIsAlive'
  BY <1>16 DEF FinishReq
<1>17. CASE LoopRunReturns
  BY <1>17 DEF LoopRunReturns
<1>18. CASE CallbackReturns
  BY <1>18 DEF CallbackReturns, InCloseCallback
<1>19. CASE CallbackRaises
  BY <1>19 DEF CallbackRaises
<1>20. CASE Collect
  BY <1>20 DEF Collect, Reachable, Roots
<1>21. CASE Shutdown
  BY <1>21 DEF Shutdown
<1>22. ASSUME NEW o \in Clients, FinalizeClient(o) PROVE HeldIsAlive'
  BY <1>22 DEF FinalizeClient, Halt
<1>23. CASE FinalizeLoop
  BY <1>23 DEF FinalizeLoop
<1>24. ASSUME NEW h \in Handles, DrainClose(h) PROVE HeldIsAlive'
  BY <1>24 DEF DrainClose, close_callback_wrapper
<1>25. ASSUME NEW r \in Reqs, NEW proc \in BOOLEAN, DrainReq(r, proc) PROVE HeldIsAlive'
  BY <1>25 DEF DrainReq, Halt
<1>26. CASE DrainEnds
  BY <1>26 DEF DrainEnds
<1>27. CASE SweepGclist
  BY <1>27 DEF SweepGclist
<1>28. CASE SweepEnds
  BY <1>28 DEF SweepEnds
<1>29. CASE UNCHANGED vars
  BY <1>29 DEF vars
<1> HIDE DEF HeldIsAlive
<1> QED
  BY <1>1, <1>2, <1>3, <1>4, <1>5, <1>6, <1>7, <1>8, <1>9, <1>10, <1>11, <1>12, <1>13, <1>14, <1>15, <1>16, <1>17, <1>18, <1>19, <1>20, <1>21, <1>22, <1>23, <1>24, <1>25, <1>26, <1>27, <1>28, <1>29
  DEF Next, Program, Run, Sweep

\* The loop in use.
LEMMA InUseStep == IndInv /\ [Next]_vars => LoopInUse'
<1> SUFFICES ASSUME IndInv, [Next]_vars PROVE LoopInUse'
  OBVIOUS
<1> USE ObjsAssumption
<1>a. TypeOK /\ HeldIsAlive /\ LoopInUse /\ SweptIsUnheld
  BY DEF IndInv
<1> USE <1>a DEF HeldIsAlive, LoopInUse, SweptIsUnheld, LoopDying, TypeOK, Clients, Objs, InProgram, InRun, AddRef,
            RemoveRef, Unlinked, ReqCleanUp, ownerVars, loopVars, closeVars, gcVars
<1>1. ASSUME NEW h \in Handles, MakeHandle(h) PROVE LoopInUse'
  BY <1>1 DEF MakeHandle
<1>2. ASSUME NEW h \in Handles, MakeHandleFails(h) PROVE LoopInUse'
  BY <1>2 DEF MakeHandleFails
<1>3. ASSUME NEW r \in Reqs, StartReq(r) PROVE LoopInUse'
  BY <1>3 DEF StartReq
<1>4. ASSUME NEW r \in Reqs, StartReqFails(r) PROVE LoopInUse'
  BY <1>4 DEF StartReqFails
<1>5. ASSUME NEW r \in Reqs, fuv_req_cancel(r) PROVE LoopInUse'
  BY <1>5 DEF fuv_req_cancel
<1>6. ASSUME NEW h \in Handles, NEW proc \in BOOLEAN, fuv_handle_close(h, proc) PROVE LoopInUse'
  BY <1>6 DEF fuv_handle_close, uv_close
<1>7. ASSUME NEW h \in Handles, NEW proc \in BOOLEAN, fuv_tcp_close_reset(h, proc) PROVE LoopInUse'
  BY <1>7 DEF fuv_tcp_close_reset, uv_close
<1>8. CASE UseClosedLoop
  BY <1>8 DEF UseClosedLoop
<1>9. CASE fuv_loop_close
  BY <1>9 DEF fuv_loop_close
<1>10. CASE fuv_loop_run
  BY <1>10 DEF fuv_loop_run
<1>11. CASE LoopRunRefused
  BY <1>11 DEF LoopRunRefused
<1>12. ASSUME NEW o \in Objs, Fetch(o) PROVE LoopInUse'
  BY <1>12 DEF Fetch
<1>13. ASSUME NEW o \in Objs, Drop(o) PROVE LoopInUse'
  BY <1>13 DEF Drop
<1>14. ASSUME NEW h \in Handles, HandleEvent(h) PROVE LoopInUse'
  BY <1>14 DEF HandleEvent
<1>15. ASSUME NEW h \in Handles, FinishClose(h) PROVE LoopInUse'
  BY <1>15 DEF FinishClose, close_callback_wrapper, CallsProgram
<1>16. ASSUME NEW r \in Reqs, NEW proc \in BOOLEAN, FinishReq(r, proc) PROVE LoopInUse'
  BY <1>16 DEF FinishReq
<1>17. CASE LoopRunReturns
  BY <1>17 DEF LoopRunReturns
<1>18. CASE CallbackReturns
  BY <1>18 DEF CallbackReturns, InCloseCallback
<1>19. CASE CallbackRaises
  BY <1>19 DEF CallbackRaises
<1>20. CASE Collect
  BY <1>20 DEF Collect, Reachable, Roots
<1>21. CASE Shutdown
  BY <1>21 DEF Shutdown
<1>22. ASSUME NEW o \in Clients, FinalizeClient(o) PROVE LoopInUse'
  BY <1>22 DEF FinalizeClient, Halt
<1>23. CASE FinalizeLoop
  BY <1>23 DEF FinalizeLoop
<1>24. ASSUME NEW h \in Handles, DrainClose(h) PROVE LoopInUse'
  BY <1>24 DEF DrainClose, close_callback_wrapper
<1>25. ASSUME NEW r \in Reqs, NEW proc \in BOOLEAN, DrainReq(r, proc) PROVE LoopInUse'
  BY <1>25 DEF DrainReq, Halt
<1>26. CASE DrainEnds
  BY <1>26 DEF DrainEnds
<1>27. CASE SweepGclist
  BY <1>27 DEF SweepGclist
<1>28. CASE SweepEnds
  BY <1>28 DEF SweepEnds
<1>29. CASE UNCHANGED vars
  BY <1>29 DEF vars
<1> HIDE DEF LoopInUse
<1> QED
  BY <1>1, <1>2, <1>3, <1>4, <1>5, <1>6, <1>7, <1>8, <1>9, <1>10, <1>11, <1>12, <1>13, <1>14, <1>15, <1>16, <1>17, <1>18, <1>19, <1>20, <1>21, <1>22, <1>23, <1>24, <1>25, <1>26, <1>27, <1>28, <1>29
  DEF Next, Program, Run, Sweep

\* What is swept.
LEMMA UnheldStep == IndInv /\ [Next]_vars => SweptIsUnheld'
<1> SUFFICES ASSUME IndInv, [Next]_vars PROVE SweptIsUnheld'
  OBVIOUS
<1> USE ObjsAssumption
<1>a. TypeOK /\ HeldIsAlive /\ LoopInUse /\ SweptIsUnheld /\ DelayedWait
  BY DEF IndInv
<1> USE <1>a DEF HeldIsAlive, LoopInUse, SweptIsUnheld, DelayedWait, LoopDying, InGclist, TypeOK, Clients, Objs, InProgram, InRun, AddRef,
            RemoveRef, Unlinked, ReqCleanUp, ownerVars, loopVars, closeVars, gcVars
<1>1. ASSUME NEW h \in Handles, MakeHandle(h) PROVE SweptIsUnheld'
  BY <1>1 DEF MakeHandle
<1>2. ASSUME NEW h \in Handles, MakeHandleFails(h) PROVE SweptIsUnheld'
  BY <1>2 DEF MakeHandleFails
<1>3. ASSUME NEW r \in Reqs, StartReq(r) PROVE SweptIsUnheld'
  BY <1>3 DEF StartReq
<1>4. ASSUME NEW r \in Reqs, StartReqFails(r) PROVE SweptIsUnheld'
  BY <1>4 DEF StartReqFails
<1>5. ASSUME NEW r \in Reqs, fuv_req_cancel(r) PROVE SweptIsUnheld'
  BY <1>5 DEF fuv_req_cancel
<1>6. ASSUME NEW h \in Handles, NEW proc \in BOOLEAN, fuv_handle_close(h, proc) PROVE SweptIsUnheld'
  BY <1>6 DEF fuv_handle_close, uv_close
<1>7. ASSUME NEW h \in Handles, NEW proc \in BOOLEAN, fuv_tcp_close_reset(h, proc) PROVE SweptIsUnheld'
  BY <1>7 DEF fuv_tcp_close_reset, uv_close
<1>8. CASE UseClosedLoop
  BY <1>8 DEF UseClosedLoop
<1>9. CASE fuv_loop_close
  BY <1>9 DEF fuv_loop_close
<1>10. CASE fuv_loop_run
  BY <1>10 DEF fuv_loop_run
<1>11. CASE LoopRunRefused
  BY <1>11 DEF LoopRunRefused
<1>12. ASSUME NEW o \in Objs, Fetch(o) PROVE SweptIsUnheld'
  BY <1>12 DEF Fetch
<1>13. ASSUME NEW o \in Objs, Drop(o) PROVE SweptIsUnheld'
  BY <1>13 DEF Drop
<1>14. ASSUME NEW h \in Handles, HandleEvent(h) PROVE SweptIsUnheld'
  BY <1>14 DEF HandleEvent
<1>15. ASSUME NEW h \in Handles, FinishClose(h) PROVE SweptIsUnheld'
  BY <1>15 DEF FinishClose, close_callback_wrapper, CallsProgram
<1>16. ASSUME NEW r \in Reqs, NEW proc \in BOOLEAN, FinishReq(r, proc) PROVE SweptIsUnheld'
  BY <1>16 DEF FinishReq
<1>17. CASE LoopRunReturns
  BY <1>17 DEF LoopRunReturns
<1>18. CASE CallbackReturns
  BY <1>18 DEF CallbackReturns, InCloseCallback
<1>19. CASE CallbackRaises
  BY <1>19 DEF CallbackRaises
<1>20. CASE Collect
  BY <1>20 DEF Collect, Reachable, Roots
<1>21. CASE Shutdown
  BY <1>21 DEF Shutdown
<1>22. ASSUME NEW o \in Clients, FinalizeClient(o) PROVE SweptIsUnheld'
  BY <1>22 DEF FinalizeClient, Halt
<1>23. CASE FinalizeLoop
  BY <1>23 DEF FinalizeLoop
<1>24. ASSUME NEW h \in Handles, DrainClose(h) PROVE SweptIsUnheld'
  BY <1>24 DEF DrainClose, close_callback_wrapper
<1>25. ASSUME NEW r \in Reqs, NEW proc \in BOOLEAN, DrainReq(r, proc) PROVE SweptIsUnheld'
  BY <1>25 DEF DrainReq, Halt
<1>26. CASE DrainEnds
  BY <1>26 DEF DrainEnds
<1>27. CASE SweepGclist
  BY <1>27 DEF SweepGclist
<1>28. CASE SweepEnds
  BY <1>28 DEF SweepEnds
<1>29. CASE UNCHANGED vars
  BY <1>29 DEF vars
<1> HIDE DEF SweptIsUnheld
<1> QED
  BY <1>1, <1>2, <1>3, <1>4, <1>5, <1>6, <1>7, <1>8, <1>9, <1>10, <1>11, <1>12, <1>13, <1>14, <1>15, <1>16, <1>17, <1>18, <1>19, <1>20, <1>21, <1>22, <1>23, <1>24, <1>25, <1>26, <1>27, <1>28, <1>29
  DEF Next, Program, Run, Sweep

\* Who is swept together.
LEMMA TogetherStep == IndInv /\ [Next]_vars => SweptTogether'
<1> SUFFICES ASSUME IndInv, [Next]_vars PROVE SweptTogether'
  OBVIOUS
<1> USE ObjsAssumption
<1>a. TypeOK /\ RefsExact /\ HeldIsAlive /\ LoopInUse /\ SweptIsUnheld /\ SweptTogether
  BY DEF IndInv
<1> USE <1>a DEF RefsExact, HeldIsAlive, LoopInUse, SweptIsUnheld, SweptTogether, LoopDying, Registered, TypeOK, Clients, Objs, InProgram, InRun, AddRef,
            RemoveRef, Unlinked, ReqCleanUp, ownerVars, loopVars, closeVars, gcVars
<1>1. ASSUME NEW h \in Handles, MakeHandle(h) PROVE SweptTogether'
  BY <1>1 DEF MakeHandle
<1>2. ASSUME NEW h \in Handles, MakeHandleFails(h) PROVE SweptTogether'
  BY <1>2 DEF MakeHandleFails
<1>3. ASSUME NEW r \in Reqs, StartReq(r) PROVE SweptTogether'
  BY <1>3 DEF StartReq
<1>4. ASSUME NEW r \in Reqs, StartReqFails(r) PROVE SweptTogether'
  BY <1>4 DEF StartReqFails
<1>5. ASSUME NEW r \in Reqs, fuv_req_cancel(r) PROVE SweptTogether'
  BY <1>5 DEF fuv_req_cancel
<1>6. ASSUME NEW h \in Handles, NEW proc \in BOOLEAN, fuv_handle_close(h, proc) PROVE SweptTogether'
  BY <1>6 DEF fuv_handle_close, uv_close
<1>7. ASSUME NEW h \in Handles, NEW proc \in BOOLEAN, fuv_tcp_close_reset(h, proc) PROVE SweptTogether'
  BY <1>7 DEF fuv_tcp_close_reset, uv_close
<1>8. CASE UseClosedLoop
  BY <1>8 DEF UseClosedLoop
<1>9. CASE fuv_loop_close
  BY <1>9 DEF fuv_loop_close
<1>10. CASE fuv_loop_run
  BY <1>10 DEF fuv_loop_run
<1>11. CASE LoopRunRefused
  BY <1>11 DEF LoopRunRefused
<1>12. ASSUME NEW o \in Objs, Fetch(o) PROVE SweptTogether'
  BY <1>12 DEF Fetch
<1>13. ASSUME NEW o \in Objs, Drop(o) PROVE SweptTogether'
  BY <1>13 DEF Drop
<1>14. ASSUME NEW h \in Handles, HandleEvent(h) PROVE SweptTogether'
  BY <1>14 DEF HandleEvent
<1>15. ASSUME NEW h \in Handles, FinishClose(h) PROVE SweptTogether'
  BY <1>15 DEF FinishClose, close_callback_wrapper, CallsProgram
<1>16. ASSUME NEW r \in Reqs, NEW proc \in BOOLEAN, FinishReq(r, proc) PROVE SweptTogether'
  BY <1>16 DEF FinishReq
<1>17. CASE LoopRunReturns
  BY <1>17 DEF LoopRunReturns
<1>18. CASE CallbackReturns
  BY <1>18 DEF CallbackReturns, InCloseCallback
<1>19. CASE CallbackRaises
  BY <1>19 DEF CallbackRaises
<1>20. CASE Collect
  BY <1>20 DEF Collect, Reachable, Roots
<1>21. CASE Shutdown
  BY <1>21 DEF Shutdown
<1>22. ASSUME NEW o \in Clients, FinalizeClient(o) PROVE SweptTogether'
  BY <1>22 DEF FinalizeClient, Halt
<1>23. CASE FinalizeLoop
  BY <1>23 DEF FinalizeLoop
<1>24. ASSUME NEW h \in Handles, DrainClose(h) PROVE SweptTogether'
  BY <1>24 DEF DrainClose, close_callback_wrapper
<1>25. ASSUME NEW r \in Reqs, NEW proc \in BOOLEAN, DrainReq(r, proc) PROVE SweptTogether'
  BY <1>25 DEF DrainReq, Halt
<1>26. CASE DrainEnds
  BY <1>26 DEF DrainEnds
<1>27. CASE SweepGclist
  BY <1>27 DEF SweepGclist
<1>28. CASE SweepEnds
  BY <1>28 DEF SweepEnds
<1>29. CASE UNCHANGED vars
  BY <1>29 DEF vars
<1> HIDE DEF SweptTogether
<1> QED
  BY <1>1, <1>2, <1>3, <1>4, <1>5, <1>6, <1>7, <1>8, <1>9, <1>10, <1>11, <1>12, <1>13, <1>14, <1>15, <1>16, <1>17, <1>18, <1>19, <1>20, <1>21, <1>22, <1>23, <1>24, <1>25, <1>26, <1>27, <1>28, <1>29
  DEF Next, Program, Run, Sweep

\* Links to a loop that is gone.
LEMMA CutStep == IndInv /\ [Next]_vars => LinksCut'
<1> SUFFICES ASSUME IndInv, [Next]_vars PROVE LinksCut'
  OBVIOUS
<1> USE ObjsAssumption
<1>a. TypeOK /\ RefsExact /\ HeldIsAlive /\ LoopInUse /\ SweptIsUnheld /\ LinksCut
  BY DEF IndInv
<1> USE <1>a DEF RefsExact, HeldIsAlive, LoopInUse, SweptIsUnheld, LoopDying, LinksCut, TypeOK, Clients, Objs, InProgram, InRun, AddRef,
            RemoveRef, Unlinked, ReqCleanUp, ownerVars, loopVars, closeVars, gcVars
<1>1. ASSUME NEW h \in Handles, MakeHandle(h) PROVE LinksCut'
  BY <1>1 DEF MakeHandle
<1>2. ASSUME NEW h \in Handles, MakeHandleFails(h) PROVE LinksCut'
  BY <1>2 DEF MakeHandleFails
<1>3. ASSUME NEW r \in Reqs, StartReq(r) PROVE LinksCut'
  BY <1>3 DEF StartReq
<1>4. ASSUME NEW r \in Reqs, StartReqFails(r) PROVE LinksCut'
  BY <1>4 DEF StartReqFails
<1>5. ASSUME NEW r \in Reqs, fuv_req_cancel(r) PROVE LinksCut'
  BY <1>5 DEF fuv_req_cancel
<1>6. ASSUME NEW h \in Handles, NEW proc \in BOOLEAN, fuv_handle_close(h, proc) PROVE LinksCut'
  BY <1>6 DEF fuv_handle_close, uv_close
<1>7. ASSUME NEW h \in Handles, NEW proc \in BOOLEAN, fuv_tcp_close_reset(h, proc) PROVE LinksCut'
  BY <1>7 DEF fuv_tcp_close_reset, uv_close
<1>8. CASE UseClosedLoop
  BY <1>8 DEF UseClosedLoop
<1>9. CASE fuv_loop_close
  BY <1>9 DEF fuv_loop_close
<1>10. CASE fuv_loop_run
  BY <1>10 DEF fuv_loop_run
<1>11. CASE LoopRunRefused
  BY <1>11 DEF LoopRunRefused
<1>12. ASSUME NEW o \in Objs, Fetch(o) PROVE LinksCut'
  BY <1>12 DEF Fetch
<1>13. ASSUME NEW o \in Objs, Drop(o) PROVE LinksCut'
  BY <1>13 DEF Drop
<1>14. ASSUME NEW h \in Handles, HandleEvent(h) PROVE LinksCut'
  BY <1>14 DEF HandleEvent
<1>15. ASSUME NEW h \in Handles, FinishClose(h) PROVE LinksCut'
  BY <1>15 DEF FinishClose, close_callback_wrapper, CallsProgram
<1>16. ASSUME NEW r \in Reqs, NEW proc \in BOOLEAN, FinishReq(r, proc) PROVE LinksCut'
  BY <1>16 DEF FinishReq
<1>17. CASE LoopRunReturns
  BY <1>17 DEF LoopRunReturns
<1>18. CASE CallbackReturns
  BY <1>18 DEF CallbackReturns, InCloseCallback
<1>19. CASE CallbackRaises
  BY <1>19 DEF CallbackRaises
<1>20. CASE Collect
  BY <1>20 DEF Collect, Reachable, Roots
<1>21. CASE Shutdown
  BY <1>21 DEF Shutdown
<1>22. ASSUME NEW o \in Clients, FinalizeClient(o) PROVE LinksCut'
  BY <1>22 DEF FinalizeClient, Halt
<1>23. CASE FinalizeLoop
  BY <1>23 DEF FinalizeLoop
<1>24. ASSUME NEW h \in Handles, DrainClose(h) PROVE LinksCut'
  BY <1>24 DEF DrainClose, close_callback_wrapper
<1>25. ASSUME NEW r \in Reqs, NEW proc \in BOOLEAN, DrainReq(r, proc) PROVE LinksCut'
  BY <1>25 DEF DrainReq, Halt
<1>26. CASE DrainEnds
  BY <1>26 DEF DrainEnds
<1>27. CASE SweepGclist
  BY <1>27 DEF SweepGclist
<1>28. CASE SweepEnds
  BY <1>28 DEF SweepEnds
<1>29. CASE UNCHANGED vars
  BY <1>29 DEF vars
<1> HIDE DEF LinksCut
<1> QED
  BY <1>1, <1>2, <1>3, <1>4, <1>5, <1>6, <1>7, <1>8, <1>9, <1>10, <1>11, <1>12, <1>13, <1>14, <1>15, <1>16, <1>17, <1>18, <1>19, <1>20, <1>21, <1>22, <1>23, <1>24, <1>25, <1>26, <1>27, <1>28, <1>29
  DEF Next, Program, Run, Sweep

\* The last sweep.
LEMMA LastStep == IndInv /\ [Next]_vars => LastSweepHasAll'
<1> SUFFICES ASSUME IndInv, [Next]_vars PROVE LastSweepHasAll'
  OBVIOUS
<1> USE ObjsAssumption
<1>a. TypeOK /\ SweptIsUnheld /\ LoopInUse /\ LastSweepHasAll
  BY DEF IndInv
<1> USE <1>a DEF SweptIsUnheld, LastSweepHasAll, LoopInUse, TypeOK, Clients, Objs, InProgram, InRun, AddRef,
            RemoveRef, Unlinked, ReqCleanUp, ownerVars, loopVars, closeVars, gcVars
<1>1. ASSUME NEW h \in Handles, MakeHandle(h) PROVE LastSweepHasAll'
  BY <1>1 DEF MakeHandle
<1>2. ASSUME NEW h \in Handles, MakeHandleFails(h) PROVE LastSweepHasAll'
  BY <1>2 DEF MakeHandleFails
<1>3. ASSUME NEW r \in Reqs, StartReq(r) PROVE LastSweepHasAll'
  BY <1>3 DEF StartReq
<1>4. ASSUME NEW r \in Reqs, StartReqFails(r) PROVE LastSweepHasAll'
  BY <1>4 DEF StartReqFails
<1>5. ASSUME NEW r \in Reqs, fuv_req_cancel(r) PROVE LastSweepHasAll'
  BY <1>5 DEF fuv_req_cancel
<1>6. ASSUME NEW h \in Handles, NEW proc \in BOOLEAN, fuv_handle_close(h, proc) PROVE LastSweepHasAll'
  BY <1>6 DEF fuv_handle_close, uv_close
<1>7. ASSUME NEW h \in Handles, NEW proc \in BOOLEAN, fuv_tcp_close_reset(h, proc) PROVE LastSweepHasAll'
  BY <1>7 DEF fuv_tcp_close_reset, uv_close
<1>8. CASE UseClosedLoop
  BY <1>8 DEF UseClosedLoop
<1>9. CASE fuv_loop_close
  BY <1>9 DEF fuv_loop_close
<1>10. CASE fuv_loop_run
  BY <1>10 DEF fuv_loop_run
<1>11. CASE LoopRunRefused
  BY <1>11 DEF LoopRunRefused
<1>12. ASSUME NEW o \in Objs, Fetch(o) PROVE LastSweepHasAll'
  BY <1>12 DEF Fetch
<1>13. ASSUME NEW o \in Objs, Drop(o) PROVE LastSweepHasAll'
  BY <1>13 DEF Drop
<1>14. ASSUME NEW h \in Handles, HandleEvent(h) PROVE LastSweepHasAll'
  BY <1>14 DEF HandleEvent
<1>15. ASSUME NEW h \in Handles, FinishClose(h) PROVE LastSweepHasAll'
  BY <1>15 DEF FinishClose, close_callback_wrapper, CallsProgram
<1>16. ASSUME NEW r \in Reqs, NEW proc \in BOOLEAN, FinishReq(r, proc) PROVE LastSweepHasAll'
  BY <1>16 DEF FinishReq
<1>17. CASE LoopRunReturns
  BY <1>17 DEF LoopRunReturns
<1>18. CASE CallbackReturns
  BY <1>18 DEF CallbackReturns, InCloseCallback
<1>19. CASE CallbackRaises
  BY <1>19 DEF CallbackRaises
<1>20. CASE Collect
  BY <1>20 DEF Collect, Reachable, Roots
<1>21. CASE Shutdown
  BY <1>21 DEF Shutdown
<1>22. ASSUME NEW o \in Clients, FinalizeClient(o) PROVE LastSweepHasAll'
  BY <1>22 DEF FinalizeClient, Halt
<1>23. CASE FinalizeLoop
  BY <1>23 DEF FinalizeLoop
<1>24. ASSUME NEW h \in Handles, DrainClose(h) PROVE LastSweepHasAll'
  BY <1>24 DEF DrainClose, close_callback_wrapper
<1>25. ASSUME NEW r \in Reqs, NEW proc \in BOOLEAN, DrainReq(r, proc) PROVE LastSweepHasAll'
  BY <1>25 DEF DrainReq, Halt
<1>26. CASE DrainEnds
  BY <1>26 DEF DrainEnds
<1>27. CASE SweepGclist
  BY <1>27 DEF SweepGclist
<1>28. CASE SweepEnds
  BY <1>28 DEF SweepEnds
<1>29. CASE UNCHANGED vars
  BY <1>29 DEF vars
<1> HIDE DEF LastSweepHasAll
<1> QED
  BY <1>1, <1>2, <1>3, <1>4, <1>5, <1>6, <1>7, <1>8, <1>9, <1>10, <1>11, <1>12, <1>13, <1>14, <1>15, <1>16, <1>17, <1>18, <1>19, <1>20, <1>21, <1>22, <1>23, <1>24, <1>25, <1>26, <1>27, <1>28, <1>29
  DEF Next, Program, Run, Sweep

\* The objects left to the loop.
LEMMA DelayedStep == IndInv /\ [Next]_vars => DelayedWait'
<1> SUFFICES ASSUME IndInv, [Next]_vars PROVE DelayedWait'
  OBVIOUS
<1> USE ObjsAssumption
<1>a. TypeOK /\ HeldIsAlive /\ DelayedWait /\ LoopInUse /\ SweptIsUnheld /\ SweptTogether
  BY DEF IndInv
<1> USE <1>a DEF HeldIsAlive, DelayedWait, LoopInUse, SweptIsUnheld, SweptTogether, LoopDying, InGclist, TypeOK, Clients, Objs, InProgram, InRun, AddRef,
            RemoveRef, Unlinked, ReqCleanUp, ownerVars, loopVars, closeVars, gcVars
<1>1. ASSUME NEW h \in Handles, MakeHandle(h) PROVE DelayedWait'
  BY <1>1 DEF MakeHandle
<1>2. ASSUME NEW h \in Handles, MakeHandleFails(h) PROVE DelayedWait'
  BY <1>2 DEF MakeHandleFails
<1>3. ASSUME NEW r \in Reqs, StartReq(r) PROVE DelayedWait'
  BY <1>3 DEF StartReq
<1>4. ASSUME NEW r \in Reqs, StartReqFails(r) PROVE DelayedWait'
  BY <1>4 DEF StartReqFails
<1>5. ASSUME NEW r \in Reqs, fuv_req_cancel(r) PROVE DelayedWait'
  BY <1>5 DEF fuv_req_cancel
<1>6. ASSUME NEW h \in Handles, NEW proc \in BOOLEAN, fuv_handle_close(h, proc) PROVE DelayedWait'
  BY <1>6 DEF fuv_handle_close, uv_close
<1>7. ASSUME NEW h \in Handles, NEW proc \in BOOLEAN, fuv_tcp_close_reset(h, proc) PROVE DelayedWait'
  BY <1>7 DEF fuv_tcp_close_reset, uv_close
<1>8. CASE UseClosedLoop
  BY <1>8 DEF UseClosedLoop
<1>9. CASE fuv_loop_close
  BY <1>9 DEF fuv_loop_close
<1>10. CASE fuv_loop_run
  BY <1>10 DEF fuv_loop_run
<1>11. CASE LoopRunRefused
  BY <1>11 DEF LoopRunRefused
<1>12. ASSUME NEW o \in Objs, Fetch(o) PROVE DelayedWait'
  BY <1>12 DEF Fetch
<1>13. ASSUME NEW o \in Objs, Drop(o) PROVE DelayedWait'
  BY <1>13 DEF Drop
<1>14. ASSUME NEW h \in Handles, HandleEvent(h) PROVE DelayedWait'
  BY <1>14 DEF HandleEvent
<1>15. ASSUME NEW h \in Handles, FinishClose(h) PROVE DelayedWait'
  BY <1>15 DEF FinishClose, close_callback_wrapper, CallsProgram
<1>16. ASSUME NEW r \in Reqs, NEW proc \in BOOLEAN, FinishReq(r, proc) PROVE DelayedWait'
  BY <1>16 DEF FinishReq
<1>17. CASE LoopRunReturns
  BY <1>17 DEF LoopRunReturns
<1>18. CASE CallbackReturns
  BY <1>18 DEF CallbackReturns, InCloseCallback
<1>19. CASE CallbackRaises
  BY <1>19 DEF CallbackRaises
<1>20. CASE Collect
  BY <1>20 DEF Collect, Reachable, Roots
<1>21. CASE Shutdown
  BY <1>21 DEF Shutdown
<1>22. ASSUME NEW o \in Clients, FinalizeClient(o) PROVE DelayedWait'
  <2>1. CASE ~link[o]
    <3>1. gclist' = gclist /\ mem' = [mem EXCEPT ![o] = "freed"] /\ pc' = pc /\ gc' = gc
      BY <1>22, <2>1 DEF FinalizeClient
    <3> QED
      BY <1>22, <2>1, <3>1 DEF FinalizeClient
  <2>2. CASE link[o] /\ mem[Loop] # "freed"
    <3>1. /\ gclist' = <<o>> \o gclist /\ mem' = [mem EXCEPT ![o] = "delayed"]
          /\ white' = white \ {o} /\ pc' = pc /\ gc' = gc
      BY <1>22, <2>2 DEF FinalizeClient
    <3>2. \A x \in Clients : InGclist(x)' <=> x = o \/ InGclist(x)
      <4> TAKE x \in Clients
      <4>1. ASSUME InGclist(x)' PROVE x = o \/ InGclist(x)
        <5>1. PICK i \in DOMAIN (<<o>> \o gclist) : (<<o>> \o gclist)[i] = x
          BY <3>1, <4>1, Zenon DEF InGclist
        <5>2. i = 1 \/ (i - 1 \in 1 .. Len(gclist) /\ (i - 1) + 1 = i)
          BY <5>1, ConsFacts
        <5> QED
          BY <5>1, <5>2, ConsFacts
      <4>2. ASSUME InGclist(x) PROVE InGclist(x)'
        <5>1. PICK i \in DOMAIN gclist : gclist[i] = x
          BY <4>2
        <5>2. i + 1 \in DOMAIN (<<o>> \o gclist) /\ (<<o>> \o gclist)[i + 1] = x
          BY <5>1, ConsFacts
        <5> QED
          BY <3>1, <5>2, Zenon DEF InGclist
      <4>3. InGclist(o)'
        <5>1. 1 \in DOMAIN (<<o>> \o gclist) /\ (<<o>> \o gclist)[1] = o
          BY ConsFacts
        <5> QED
          BY <3>1, <5>1, Zenon DEF InGclist
      <4> QED
        BY <4>1, <4>2, <4>3, Zenon
    <3>3. LoopDying /\ LoopDying' /\ mem[Loop] = "heap" /\ o # Loop
      BY <1>22, <2>2, <3>1 DEF FinalizeClient
    <3> HIDE DEF InGclist, LoopDying
    <3> QED
      BY <3>1, <3>2, <3>3
  <2>3. CASE link[o] /\ mem[Loop] = "freed"
    BY <1>22, <2>3 DEF FinalizeClient, Halt
  <2> QED
    BY <2>1, <2>2, <2>3
<1>23. CASE FinalizeLoop
  BY <1>23 DEF FinalizeLoop
<1>24. ASSUME NEW h \in Handles, DrainClose(h) PROVE DelayedWait'
  BY <1>24 DEF DrainClose, close_callback_wrapper
<1>25. ASSUME NEW r \in Reqs, NEW proc \in BOOLEAN, DrainReq(r, proc) PROVE DelayedWait'
  BY <1>25 DEF DrainReq, Halt
<1>26. CASE DrainEnds
  BY <1>26 DEF DrainEnds
<1>27. CASE SweepGclist
  BY <1>27 DEF SweepGclist
<1>28. CASE SweepEnds
  BY <1>28 DEF SweepEnds
<1>29. CASE UNCHANGED vars
  BY <1>29 DEF vars
<1> HIDE DEF DelayedWait
<1> QED
  BY <1>1, <1>2, <1>3, <1>4, <1>5, <1>6, <1>7, <1>8, <1>9, <1>10, <1>11, <1>12, <1>13, <1>14, <1>15, <1>16, <1>17, <1>18, <1>19, <1>20, <1>21, <1>22, <1>23, <1>24, <1>25, <1>26, <1>27, <1>28, <1>29
  DEF Next, Program, Run, Sweep

\* The initial state satisfies the invariant.
LEMMA IndInit == Init => IndInv
<1> SUFFICES ASSUME Init PROVE IndInv
  OBVIOUS
<1> USE ObjsAssumption DEF Init, Clients, Objs
<1>1. TypeOK
  <2>1. /\ mem \in [Objs -> {"none", "heap", "delayed", "freed"}]
        /\ gclist \in Seq(Clients)
    OBVIOUS
  <2>2. /\ link \in [Clients -> BOOLEAN]
        /\ uv \in [Clients -> Registered \cup {"none", "closed", "done"}]
        /\ closer \in [Handles -> Closers] /\ onclose \in [Handles -> BOOLEAN]
    BY DEF Registered, Closers
  <2> QED
    BY <2>1, <2>2 DEF TypeOK, PCs
<1>2. \A o \in Clients : ~InGclist(o)
  BY DEF InGclist
<1>3. RefsExact /\ HeldIsAlive /\ LibuvLinked /\ NoneRegistered /\ LinksCut
  BY DEF RefsExact, HeldIsAlive, LibuvLinked, NoneRegistered, Registered, LinksCut
<1>4. DelayedWait /\ LoopInUse /\ SweptIsUnheld /\ SweptTogether /\ LastSweepHasAll
  BY <1>2 DEF DelayedWait, LoopInUse, SweptIsUnheld, SweptTogether, LastSweepHasAll,
              LoopDying
<1> QED
  BY <1>1, <1>3, <1>4 DEF IndInv

-----------------------------------------------------------------------------
(* The theorems. *)

\* The invariant the other theorems rest on: IndInv is inductive.
THEOREM Invariance == Spec => []IndInv
<1>1. IndInv /\ [Next]_vars => IndInv'
  BY TypeStep, RefsStep, LibuvStep, RegisteredStep, HeldStep, InUseStep, UnheldStep,
     TogetherStep, CutStep, LastStep, DelayedStep DEF IndInv
<1> QED
  BY IndInit, <1>1, PTL DEF Spec

\* Types.
THEOREM TypeCorrect == Spec => []TypeOK
<1>1. IndInv => TypeOK
  BY DEF IndInv
<1> QED
  BY Invariance, <1>1, PTL

\* No operation of the program, of libuv or of a finalizer unlinks an object
\* that is not in the list refs (fuvLoopRemoveHandleRef, fuvLoopRemoveReqRef).
THEOREM RefsAreExact == Spec => []RefsExact
<1>1. IndInv => RefsExact
  BY DEF IndInv
<1> QED
  BY Invariance, <1>1, PTL

\* libuv keeps no pointer to freed memory, and what the program holds, or fetches
\* from the loop, is never freed or left to the loop to be freed, in whatever order
\* a sweep takes them (fuv_loop_finalize, fuvLoopAddGcObj, fuv_loop_atomic).
THEOREM InUseIsSafe == Spec => []InUseIsAlive
<1>1. IndInv => LibuvObjectsLive
  BY DEF IndInv, LibuvLinked, LibuvObjectsLive
<1>2. IndInv => HeldIsAlive
  BY DEF IndInv
<1>3. IndInv => InUseIsAlive
  BY <1>1, <1>2 DEF InUseIsAlive
<1> QED
  BY Invariance, <1>3, PTL

\* A loop the program did not close leaves nothing behind that points to it
\* (fuv_loop_finalize).
THEOREM LoopLeavesNoLinks == Spec => []LoopTakesRefsAlong
<1>1. IndInv => LoopTakesRefsAlong
  BY DEF IndInv, LinksCut, LoopTakesRefsAlong
<1> QED
  BY Invariance, <1>1, PTL

\* Delayed objects wait in the list of a loop that exists, and the last sweep
\* frees everything (fuvLoopAddGcObj, fuv_loop_finalize).
THEOREM NothingIsStranded == Spec => []NothingStranded
<1>1. ASSUME IndInv PROVE NothingStranded
  <2>1. \A o \in Clients : mem[o] = "delayed" => InGclist(o) /\ mem[Loop] # "freed"
    BY <1>1 DEF IndInv, DelayedWait
  <2>2. ASSUME pc = "over", gc = "off", NEW o \in Objs
        PROVE  mem[o] \in {"none", "freed"}
    <3>1. white = {} /\ ~LoopDying
      BY <1>1, <2>2 DEF IndInv, SweptIsUnheld, LoopDying
    <3>2. mem[o] # "heap"
      BY <1>1, <2>2, <3>1 DEF IndInv, LastSweepHasAll
    <3>3. o \in Clients => mem[o] # "delayed"
      BY <1>1, <2>2, <3>1 DEF IndInv, DelayedWait
    <3>4. o \notin Clients => mem[o] \in {"heap", "freed"}
      BY <1>1 DEF IndInv, LoopInUse, Objs
    <3>5. mem[o] \in {"none", "heap", "delayed", "freed"}
      BY <1>1 DEF IndInv, TypeOK
    <3> QED
      BY <3>2, <3>3, <3>4, <3>5
  <2> QED
    BY <2>1, <2>2 DEF NothingStranded, InGclist
<1>2. IndInv => NothingStranded
  BY <1>1
<1> QED
  BY Invariance, <1>2, PTL

\* A delayed object waits only within the collection that found it: between
\* collections there is none, so that gclist never outlives a sweep.
THEOREM DelayIsShort ==
  Spec => [](gc = "off" /\ pc \in {"code", "run", "call", "over"} =>
                \A o \in Clients : mem[o] # "delayed" /\ ~InGclist(o))
<1>1. IndInv => (gc = "off" /\ pc \in {"code", "run", "call", "over"} =>
                   \A o \in Clients : mem[o] # "delayed" /\ ~InGclist(o))
  BY DEF IndInv, DelayedWait, SweptIsUnheld, LoopDying
<1> QED
  BY Invariance, <1>1, PTL

=============================================================================
