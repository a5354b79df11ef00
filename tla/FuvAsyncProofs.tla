--------------------------- MODULE FuvAsyncProofs ---------------------------
(***************************************************************************)
(* Proofs about FuvAsync for every set of threads and every number of      *)
(* calls.  Handshake says which combinations of the three flags, of the    *)
(* sender and of the callback occur; History, what of the accepted calls   *)
(* has been delivered in each of them.                                     *)
(***************************************************************************)
EXTENDS FuvAsync, TLAPS

-----------------------------------------------------------------------------
(* The inductive invariant. *)

\* A thread is between setting and clearing send_ready.
Sending(t) == spc[t] \in {"store", "notify", "wait", "copied", "release"}

\* The thread whose frame extra points to waits for its copy.
ExtraWaits == extra \in Threads /\ spc[extra] = "wait"

\* send_ready excludes all senders but one.
OneSender ==
    /\ \A t \in Threads : Sending(t) => send_ready
    /\ \A t, u \in Threads : Sending(t) /\ Sending(u) => t = u

\* A call that has not returned has its arguments on its stack.
FrameOfCall == \A t \in Threads : spc[t] # "idle" => frame[t] \in 1 .. MaxCalls

\* Where the sender is, by where its notice is: pending in libuv, in the
\* callback, or answered.
NoticeOfSender ==
    \A t \in Threads :
        /\ spc[t] = "notify" => extra = t
        /\ spc[t] = "wait" =>
              /\ extra = t
              /\ \/ pending
                 \/ lpc \in {"callback", "copy", "tell"}
                 \/ lpc = "wait" /\ ~copy_done
        /\ spc[t] = "copied" => lpc = "wait" /\ copy_done /\ send_done

\* What the callback relies on.
CallbackHasSender ==
    /\ pending => ExtraWaits /\ lpc \in {"code", "run", "wait", "proc"} /\ copy_done
    /\ lpc \in {"callback", "copy", "tell"} =>
          ExtraWaits /\ ~pending /\ copy_done /\ send_done
    /\ lpc \in {"copy", "tell"} => loaded = extra
    /\ ~copy_done => ExtraWaits /\ lpc = "wait" /\ send_done
    /\ ~send_done => lpc = "wait"

Handshake == OneSender /\ FrameOfCall /\ NoticeOfSender /\ CallbackHasSender

\* The arguments of the call of t are accepted and not yet copied.
Undelivered(t) ==
    \/ spc[t] \in {"store", "notify"}
    \/ spc[t] = "wait" /\ (pending \/ lpc \in {"callback", "copy"})

History ==
    /\ \A t \in Threads : Undelivered(t) => accepted = Append(delivered, frame[t])
    /\ (\A t \in Threads : ~Undelivered(t)) => delivered = accepted

IndInv == TypeOK /\ Handshake /\ History

-----------------------------------------------------------------------------
(* Sequences. *)

\* A sequence with one element more.
LEMMA AppendFacts ==
  ASSUME NEW S, NEW q \in Seq(S), NEW x \in S
  PROVE  /\ Append(q, x) \in Seq(S)
         /\ Len(Append(q, x)) = Len(q) + 1
         /\ Len(q) \in Nat
         /\ Append(q, x)[Len(q) + 1] = x
         /\ \A i \in 1 .. Len(q) : Append(q, x)[i] = q[i]
OBVIOUS

\* A sequence is a prefix of itself and of what is appended to it.
LEMMA PrefixFacts ==
  ASSUME NEW S, NEW q \in Seq(S), NEW x \in S
  PROVE  IsPrefix(q, q) /\ IsPrefix(q, Append(q, x))
<1>1. IsPrefix(q, q)
  BY DEF IsPrefix
<1>2. SubSeq(q, 1, Len(q)) = SubSeq(Append(q, x), 1, Len(q))
  OBVIOUS
<1>3. Len(q) <= Len(Append(q, x))
  BY AppendFacts
<1> QED
  BY <1>1, <1>2, <1>3 DEF IsPrefix

-----------------------------------------------------------------------------
(* Every step keeps the invariant. *)

\* The types.
LEMMA TypeStep == TypeOK /\ FrameOfCall /\ [Next]_vars => TypeOK'
<1> SUFFICES ASSUME TypeOK, FrameOfCall, [Next]_vars PROVE TypeOK'
  OBVIOUS
<1> USE AsyncAssumption DEF TypeOK, FrameOfCall, flags, sendVars, loopVars
<1>1. ASSUME NEW t \in Threads, fuv_async_send(t) PROVE TypeOK'
  BY <1>1 DEF fuv_async_send, InProgram
<1>2. ASSUME NEW t \in Threads, SendRefused(t) PROVE TypeOK'
  BY <1>2 DEF SendRefused
<1>3. ASSUME NEW t \in Threads, SendAccepted(t) PROVE TypeOK'
  BY <1>3 DEF SendAccepted
<1>4. ASSUME NEW t \in Threads, StoreExtra(t) PROVE TypeOK'
  BY <1>4 DEF StoreExtra
<1>5. ASSUME NEW t \in Threads, uv_async_send(t) PROVE TypeOK'
  BY <1>5 DEF uv_async_send
<1>6. ASSUME NEW t \in Threads, WaitCopy(t) PROVE TypeOK'
  BY <1>6 DEF WaitCopy
<1>7. ASSUME NEW t \in Threads, SendDone(t) PROVE TypeOK'
  BY <1>7 DEF SendDone
<1>8. ASSUME NEW t \in Threads, SendReturns(t) PROVE TypeOK'
  <2>1. frame' \in [Threads -> 0 .. MaxCalls]
    BY <1>8 DEF SendReturns
  <2> QED
    BY <1>8, <2>1 DEF SendReturns
<1>9. CASE fuv_async_cb
  BY <1>9 DEF fuv_async_cb
<1>10. CASE fuv_async_cb_creator
  BY <1>10 DEF fuv_async_cb_creator
<1>11. CASE CopyDone
  BY <1>11 DEF CopyDone
<1>12. CASE WaitSend
  BY <1>12 DEF WaitSend
<1>13. CASE ProcReturns
  BY <1>13 DEF ProcReturns
<1>14. CASE fuv_loop_run
  BY <1>14 DEF fuv_loop_run
<1>15. CASE LoopRunReturns
  BY <1>15 DEF LoopRunReturns
<1>16. CASE uv_async_io
  BY <1>16 DEF uv_async_io
<1>17. CASE fuv_handle_close
  BY <1>17 DEF fuv_handle_close, InProgram
<1>18. CASE close_callback_wrapper
  BY <1>18 DEF close_callback_wrapper
<1>19. CASE UNCHANGED vars
  BY <1>19 DEF vars
<1> HIDE DEF TypeOK
<1> QED
  BY <1>1, <1>2, <1>3, <1>4, <1>5, <1>6, <1>7, <1>8, <1>9, <1>10, <1>11, <1>12, <1>13, <1>14, <1>15, <1>16, <1>17, <1>18, <1>19
  DEF Next, SendStep, CallbackStep

\* The handshake.
LEMMA HandshakeStep == TypeOK /\ Handshake /\ [Next]_vars => Handshake'
<1> SUFFICES ASSUME TypeOK, Handshake, [Next]_vars PROVE Handshake'
  OBVIOUS
<1> USE AsyncAssumption
<1> USE DEF TypeOK, Handshake, OneSender, FrameOfCall, NoticeOfSender, CallbackHasSender,
        Sending, ExtraWaits, flags, sendVars, loopVars
<1>1. ASSUME NEW t \in Threads, fuv_async_send(t) PROVE Handshake'
  BY <1>1 DEF fuv_async_send, InProgram
<1>2. ASSUME NEW t \in Threads, SendRefused(t) PROVE Handshake'
  BY <1>2 DEF SendRefused
<1>3. ASSUME NEW t \in Threads, SendAccepted(t) PROVE Handshake'
  BY <1>3 DEF SendAccepted
<1>4. ASSUME NEW t \in Threads, StoreExtra(t) PROVE Handshake'
  BY <1>4 DEF StoreExtra
<1>5. ASSUME NEW t \in Threads, uv_async_send(t) PROVE Handshake'
  BY <1>5 DEF uv_async_send
<1>6. ASSUME NEW t \in Threads, WaitCopy(t) PROVE Handshake'
  BY <1>6 DEF WaitCopy
<1>7. ASSUME NEW t \in Threads, SendDone(t) PROVE Handshake'
  BY <1>7 DEF SendDone
<1>8. ASSUME NEW t \in Threads, SendReturns(t) PROVE Handshake'
  BY <1>8 DEF SendReturns
<1>9. CASE fuv_async_cb
  BY <1>9 DEF fuv_async_cb
<1>10. CASE fuv_async_cb_creator
  BY <1>10 DEF fuv_async_cb_creator
<1>11. CASE CopyDone
  BY <1>11 DEF CopyDone
<1>12. CASE WaitSend
  BY <1>12 DEF WaitSend
<1>13. CASE ProcReturns
  BY <1>13 DEF ProcReturns
<1>14. CASE fuv_loop_run
  BY <1>14 DEF fuv_loop_run
<1>15. CASE LoopRunReturns
  BY <1>15 DEF LoopRunReturns
<1>16. CASE uv_async_io
  BY <1>16 DEF uv_async_io
<1>17. CASE fuv_handle_close
  BY <1>17 DEF fuv_handle_close, InProgram
<1>18. CASE close_callback_wrapper
  BY <1>18 DEF close_callback_wrapper
<1>19. CASE UNCHANGED vars
  BY <1>19 DEF vars
<1> HIDE DEF Handshake
<1> QED
  BY <1>1, <1>2, <1>3, <1>4, <1>5, <1>6, <1>7, <1>8, <1>9, <1>10, <1>11, <1>12, <1>13, <1>14, <1>15, <1>16, <1>17, <1>18, <1>19
  DEF Next, SendStep, CallbackStep

\* What was delivered.
LEMMA HistoryStep == IndInv /\ [Next]_vars => History'
<1> SUFFICES ASSUME IndInv, [Next]_vars PROVE History'
  OBVIOUS
<1> USE AsyncAssumption
<1>a. TypeOK /\ Handshake /\ History
  BY DEF IndInv
<1> USE <1>a DEF TypeOK, Handshake, OneSender, FrameOfCall, NoticeOfSender,
        CallbackHasSender, Sending, ExtraWaits, Undelivered, History, flags, sendVars,
        loopVars
<1>1. ASSUME NEW t \in Threads, fuv_async_send(t) PROVE History'
  BY <1>1 DEF fuv_async_send, InProgram
<1>2. ASSUME NEW t \in Threads, SendRefused(t) PROVE History'
  BY <1>2 DEF SendRefused
<1>3. ASSUME NEW t \in Threads, SendAccepted(t) PROVE History'
  BY <1>3 DEF SendAccepted
<1>4. ASSUME NEW t \in Threads, StoreExtra(t) PROVE History'
  BY <1>4 DEF StoreExtra
<1>5. ASSUME NEW t \in Threads, uv_async_send(t) PROVE History'
  BY <1>5 DEF uv_async_send
<1>6. ASSUME NEW t \in Threads, WaitCopy(t) PROVE History'
  BY <1>6 DEF WaitCopy
<1>7. ASSUME NEW t \in Threads, SendDone(t) PROVE History'
  BY <1>7 DEF SendDone
<1>8. ASSUME NEW t \in Threads, SendReturns(t) PROVE History'
  BY <1>8 DEF SendReturns
<1>9. CASE fuv_async_cb
  BY <1>9 DEF fuv_async_cb
<1>10. CASE fuv_async_cb_creator
  BY <1>10 DEF fuv_async_cb_creator
<1>11. CASE CopyDone
  BY <1>11 DEF CopyDone
<1>12. CASE WaitSend
  BY <1>12 DEF WaitSend
<1>13. CASE ProcReturns
  BY <1>13 DEF ProcReturns
<1>14. CASE fuv_loop_run
  BY <1>14 DEF fuv_loop_run
<1>15. CASE LoopRunReturns
  BY <1>15 DEF LoopRunReturns
<1>16. CASE uv_async_io
  BY <1>16 DEF uv_async_io
<1>17. CASE fuv_handle_close
  BY <1>17 DEF fuv_handle_close, InProgram
<1>18. CASE close_callback_wrapper
  BY <1>18 DEF close_callback_wrapper
<1>19. CASE UNCHANGED vars
  BY <1>19 DEF vars
<1> HIDE DEF History
<1> QED
  BY <1>1, <1>2, <1>3, <1>4, <1>5, <1>6, <1>7, <1>8, <1>9, <1>10, <1>11, <1>12, <1>13, <1>14, <1>15, <1>16, <1>17, <1>18, <1>19
  DEF Next, SendStep, CallbackStep

\* The initial state satisfies the invariant.
LEMMA IndInit == Init => IndInv
<1> SUFFICES ASSUME Init PROVE IndInv
  OBVIOUS
<1> USE AsyncAssumption DEF Init
<1>1. TypeOK
  <2>1. frame \in [Threads -> 0 .. MaxCalls] /\ calls \in 0 .. MaxCalls
    OBVIOUS
  <2>2. accepted \in Seq(1 .. MaxCalls) /\ delivered \in Seq(0 .. MaxCalls)
    OBVIOUS
  <2> QED
    BY <2>1, <2>2 DEF TypeOK
<1>2. Handshake /\ History
  BY DEF Handshake, OneSender, FrameOfCall, NoticeOfSender, CallbackHasSender, Sending,
         ExtraWaits, History, Undelivered
<1> QED
  BY <1>1, <1>2 DEF IndInv

-----------------------------------------------------------------------------
(* The theorems. *)

\* The invariant the other theorems rest on: IndInv is inductive.
THEOREM Invariance == Spec => []IndInv
<1>1. IndInv /\ [Next]_vars => IndInv'
  BY TypeStep, HandshakeStep, HistoryStep DEF IndInv, Handshake
<1> QED
  BY IndInit, <1>1, PTL DEF Spec

\* Types.
THEOREM TypeCorrect == Spec => []TypeOK
<1>1. IndInv => TypeOK
  BY DEF IndInv
<1> QED
  BY Invariance, <1>1, PTL

\* Every accepted send reaches the procedure once, in order and with its own
\* arguments, for any number of threads and of calls.
THEOREM Delivery == Spec => []DeliveredOnceInOrder
<1>1. ASSUME IndInv PROVE DeliveredOnceInOrder
  <2>1. TypeOK /\ Handshake /\ History
    BY <1>1 DEF IndInv
  <2>2. CASE \A t \in Threads : ~Undelivered(t)
    <3>1. delivered = accepted
      BY <2>1, <2>2 DEF History
    <3>2. accepted \in Seq(1 .. MaxCalls) /\ Len(accepted) \in Nat
      BY <2>1 DEF TypeOK
    <3>3. IsPrefix(accepted, accepted)
      BY <3>2 DEF IsPrefix
    <3> QED
      BY <3>1, <3>2, <3>3 DEF DeliveredOnceInOrder
  <2>3. ASSUME NEW t \in Threads, Undelivered(t) PROVE DeliveredOnceInOrder
    <3>1. accepted = Append(delivered, frame[t])
      BY <2>1, <2>3 DEF History
    <3>2. delivered \in Seq(0 .. MaxCalls) /\ frame[t] \in 0 .. MaxCalls
      BY <2>1 DEF TypeOK
    <3>3. IsPrefix(delivered, accepted)
      BY <3>1, <3>2, PrefixFacts
    <3>4. Len(accepted) = Len(delivered) + 1 /\ Len(delivered) \in Nat
      BY <3>1, <3>2, AppendFacts
    <3>5. frame[t] = Last(accepted)
      BY <3>1, <3>2, <3>4, AppendFacts DEF Last
    <3>6. spc[t] \in {"store", "notify", "wait"}
      BY <2>3 DEF Undelivered
    <3> QED
      BY <3>3, <3>4, <3>5, <3>6 DEF DeliveredOnceInOrder
  <2> QED
    BY <2>2, <2>3
<1>2. IndInv => DeliveredOnceInOrder
  BY <1>1
<1> QED
  BY Invariance, <1>2, PTL

\* What fuv_async_cb_creator copies from is the frame of a call that has not
\* returned, and nobody else's: the pointer the callback loaded from extra is
\* never stale, although extra itself is never reset.
THEOREM CopiesFromLiveFrame ==
  Spec => [](lpc = "copy" => /\ loaded \in Threads /\ spc[loaded] = "wait"
                             /\ frame[loaded] \in 1 .. MaxCalls
                             /\ \A t \in Threads : Sending(t) => t = loaded)
<1>1. IndInv => (lpc = "copy" => /\ loaded \in Threads /\ spc[loaded] = "wait"
                                 /\ frame[loaded] \in 1 .. MaxCalls
                                 /\ \A t \in Threads : Sending(t) => t = loaded)
  BY DEF IndInv, Handshake, OneSender, FrameOfCall, CallbackHasSender, ExtraWaits, Sending
<1> QED
  BY Invariance, <1>1, PTL

=============================================================================
