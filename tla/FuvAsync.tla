------------------------------ MODULE FuvAsync ------------------------------
(***************************************************************************)
(* One async handle of the fuv module.  async-send hands the arguments of  *)
(* its call to the thread that runs the loop: the arguments stay on the    *)
(* stack of the sender, which waits until the callback has copied them.    *)
(* Sender and callback agree through three flags that are waited for by    *)
(* spinning: send_ready (a send is under way), copy_done and send_done.    *)
(* Both of the last are set while there is nothing to report: clearing one *)
(* is the report, and the test-and-set that waits for it sets it again.    *)
(***************************************************************************)
EXTENDS Naturals, Sequences, SequencesExt

CONSTANTS
    Threads,      \* the threads that use the handle
    LoopThread,   \* the one that runs its loop
    Nobody,
    MaxCalls      \* bound on the calls of async-send

ASSUME AsyncAssumption ==
    /\ LoopThread \in Threads /\ Nobody \notin Threads
    /\ MaxCalls \in Nat

VARIABLES
    send_ready, copy_done, send_done,   \* the flags
    extra,      \* the thread whose call has set extra, Nobody for NULL
    pending,    \* libuv has been told
    handle,     \* "open", "closing", "closed"
    spc,        \* where a thread is in async-send
    frame,      \* the arguments of that call, 0 when its frame is gone
    lpc,        \* where the thread of the loop is
    loaded,     \* the callback's copy of extra
    calls,      \* the calls made so far; a call's number stands for its arguments
    accepted,   \* the calls that were not turned away, in order
    delivered   \* what the callback procedure was called with

flags == <<send_ready, copy_done, send_done>>
sendVars == <<spc, frame, calls, accepted>>
loopVars == <<lpc, loaded, delivered>>
vars == <<flags, extra, pending, handle, sendVars, loopVars>>

\* createFuvAsync
Init ==
    /\ send_ready = FALSE /\ copy_done = TRUE /\ send_done = TRUE
    /\ extra = Nobody
    /\ pending = FALSE
    /\ handle = "open"
    /\ spc = [t \in Threads |-> "idle"]
    /\ frame = [t \in Threads |-> 0]
    /\ lpc = "code"
    /\ loaded = Nobody
    /\ calls = 0
    /\ accepted = <<>> /\ delivered = <<>>

-----------------------------------------------------------------------------
(* async-send.  The thread of the loop may call it too, outside of loop-run *)
(* or from the callback.                                                    *)

InProgram(t) ==
    /\ spc[t] = "idle"
    /\ t = LoopThread => lpc \in {"code", "proc"}

\* A handle whose close callback has run is refused with an error.  One that
\* is closing is not.
fuv_async_send(t) ==
    /\ InProgram(t) /\ calls < MaxCalls /\ handle # "closed"
    /\ calls' = calls + 1
    /\ frame' = [frame EXCEPT ![t] = calls']
    /\ spc' = [spc EXCEPT ![t] = "test"]
    /\ UNCHANGED <<flags, extra, pending, handle, accepted, loopVars>>

\* Another send is under way: this one returns, and its arguments are lost.
SendRefused(t) ==
    /\ spc[t] = "test" /\ send_ready
    /\ spc' = [spc EXCEPT ![t] = "idle"]
    /\ frame' = [frame EXCEPT ![t] = 0]
    /\ UNCHANGED <<flags, extra, pending, handle, calls, accepted, loopVars>>

\* Mutant: send_ready is not looked at.
Bug_ReadyIgnored(t) ==
    /\ spc[t] = "test"
    /\ send_ready' = TRUE
    /\ accepted' = Append(accepted, frame[t])
    /\ spc' = [spc EXCEPT ![t] = "store"]
    /\ UNCHANGED <<copy_done, send_done, extra, pending, handle, frame, calls,
                   loopVars>>

SendAccepted(t) ==
    /\ spc[t] = "test" /\ ~send_ready
    /\ send_ready' = TRUE
    /\ accepted' = Append(accepted, frame[t])
    /\ spc' = [spc EXCEPT ![t] = "store"]
    /\ UNCHANGED <<copy_done, send_done, extra, pending, handle, frame, calls,
                   loopVars>>

StoreExtra(t) ==
    /\ spc[t] = "store"
    /\ extra' = t
    /\ spc' = [spc EXCEPT ![t] = "notify"]
    /\ UNCHANGED <<flags, pending, handle, frame, calls, accepted, loopVars>>

\* libuv remembers that the handle was sent to; it never fails.
uv_async_send(t) ==
    /\ spc[t] = "notify"
    /\ pending' = TRUE
    /\ spc' = [spc EXCEPT ![t] = "wait"]
    /\ UNCHANGED <<flags, extra, handle, frame, calls, accepted, loopVars>>

\* FUV_ASYNC_WAIT_COPY
WaitCopy(t) ==
    /\ spc[t] = "wait" /\ ~copy_done
    /\ copy_done' = TRUE
    /\ spc' = [spc EXCEPT ![t] = "copied"]
    /\ UNCHANGED <<send_ready, send_done, extra, pending, handle, frame, calls,
                   accepted, loopVars>>

\* FUV_ASYNC_SEND_DONE clears two flags, one after the other.
SendDone(t) ==
    /\ spc[t] = "copied"
    /\ send_done' = FALSE
    /\ spc' = [spc EXCEPT ![t] = "release"]
    /\ UNCHANGED <<send_ready, copy_done, extra, pending, handle, frame, calls,
                   accepted, loopVars>>

\* async-send returns; extra still points to its frame.
SendReturns(t) ==
    /\ spc[t] = "release"
    /\ send_ready' = FALSE
    /\ spc' = [spc EXCEPT ![t] = "idle"]
    /\ frame' = [frame EXCEPT ![t] = 0]
    /\ UNCHANGED <<copy_done, send_done, extra, pending, handle, calls, accepted,
                   loopVars>>

-----------------------------------------------------------------------------
(* The thread of the loop. *)

fuv_loop_run ==
    /\ lpc = "code" /\ spc[LoopThread] = "idle"
    /\ lpc' = "run"
    /\ UNCHANGED <<flags, extra, pending, handle, sendVars, loaded, delivered>>

LoopRunReturns ==
    /\ lpc = "run"
    /\ lpc' = "code"
    /\ UNCHANGED <<flags, extra, pending, handle, sendVars, loaded, delivered>>

\* libuv finds the handle pending and calls fuv_async_cb.
uv_async_io ==
    /\ lpc = "run" /\ pending /\ handle = "open"
    /\ pending' = FALSE
    /\ lpc' = "callback"
    /\ UNCHANGED <<flags, extra, handle, sendVars, loaded, delivered>>

fuv_async_cb ==
    /\ lpc = "callback"
    /\ loaded' = extra
    /\ lpc' = "copy"
    /\ UNCHANGED <<flags, extra, pending, handle, sendVars, delivered>>

\* What the callback finds at the sender's place: its arguments, or garbage.
fuv_async_cb_creator ==
    /\ lpc = "copy"
    /\ delivered' = Append(delivered, IF loaded = Nobody THEN 0 ELSE frame[loaded])
    /\ lpc' = "tell"
    /\ UNCHANGED <<flags, extra, pending, handle, sendVars, loaded>>

\* Mutant: the callback waits for the sender before it reports the copy.
Bug_TellAfterWait ==
    /\ lpc = "tell" /\ ~send_done
    /\ copy_done' = FALSE
    /\ lpc' = "wait"
    /\ UNCHANGED <<send_ready, send_done, extra, pending, handle, sendVars, loaded,
                   delivered>>

\* FUV_ASYNC_COPY_DONE
CopyDone ==
    /\ lpc = "tell"
    /\ copy_done' = FALSE
    /\ lpc' = "wait"
    /\ UNCHANGED <<send_ready, send_done, extra, pending, handle, sendVars, loaded,
                   delivered>>

\* FUV_ASYNC_WAIT_SEND, then the procedure runs.
WaitSend ==
    /\ lpc = "wait" /\ ~send_done
    /\ send_done' = TRUE
    /\ lpc' = "proc"
    /\ UNCHANGED <<send_ready, copy_done, extra, pending, handle, sendVars, loaded,
                   delivered>>

\* It returns, or raises an error, which makes loop-run return soon.
ProcReturns ==
    /\ lpc = "proc" /\ spc[LoopThread] = "idle"
    /\ lpc' = "run"
    /\ UNCHANGED <<flags, extra, pending, handle, sendVars, loaded, delivered>>

\* handle-close, which libuv allows the thread of the loop only.
fuv_handle_close ==
    /\ InProgram(LoopThread) /\ handle = "open"
    /\ handle' = "closing"
    /\ UNCHANGED <<flags, extra, pending, sendVars, loopVars>>

close_callback_wrapper ==
    /\ lpc = "run" /\ handle = "closing"
    /\ handle' = "closed"
    /\ UNCHANGED <<flags, extra, pending, sendVars, loopVars>>

-----------------------------------------------------------------------------

SendStep(t) ==
    \/ SendRefused(t) \/ SendAccepted(t) \/ StoreExtra(t) \/ uv_async_send(t)
    \/ WaitCopy(t) \/ SendDone(t) \/ SendReturns(t)

CallbackStep ==
    \/ fuv_async_cb \/ fuv_async_cb_creator \/ CopyDone \/ WaitSend \/ ProcReturns

Next ==
    \/ \E t \in Threads : fuv_async_send(t) \/ SendStep(t)
    \/ CallbackStep
    \/ fuv_loop_run \/ LoopRunReturns \/ uv_async_io
    \/ fuv_handle_close \/ close_callback_wrapper

Spec == Init /\ [][Next]_vars

\* The threads run, the program runs its loop again and again, and a loop that
\* runs again and again looks at what is pending.
FairSpec ==
    /\ Spec
    /\ \A t \in Threads : WF_vars(SendStep(t))
    /\ WF_vars(CallbackStep) /\ WF_vars(fuv_loop_run) /\ SF_vars(uv_async_io)

-----------------------------------------------------------------------------
(* Properties. *)

TypeOK ==
    /\ send_ready \in BOOLEAN /\ copy_done \in BOOLEAN /\ send_done \in BOOLEAN
    /\ extra \in Threads \cup {Nobody} /\ loaded \in Threads \cup {Nobody}
    /\ pending \in BOOLEAN
    /\ handle \in {"open", "closing", "closed"}
    /\ spc \in [Threads -> {"idle", "test", "store", "notify", "wait", "copied",
                            "release"}]
    /\ calls \in 0 .. MaxCalls
    /\ frame \in [Threads -> 0 .. MaxCalls]
    /\ lpc \in {"code", "run", "callback", "copy", "tell", "wait", "proc"}
    /\ accepted \in Seq(1 .. MaxCalls) /\ delivered \in Seq(0 .. MaxCalls)

\* Every send that was accepted reaches the procedure once, in order and with
\* its own arguments, never from a frame that is gone: a call that returned was
\* delivered before, and what is not delivered yet has its sender waiting
\* (fuv_async_send, fuv_async_cb_creator).
DeliveredOnceInOrder ==
    /\ IsPrefix(delivered, accepted)
    /\ Len(accepted) <= Len(delivered) + 1
    /\ delivered # accepted =>
           \E t \in Threads : /\ spc[t] \in {"store", "notify", "wait"}
                              /\ frame[t] = Last(accepted)

\* A callback never waits for ever for its sender, and a sender other than the
\* thread of the loop itself gets its answer unless the handle is closed
\* (FUV_ASYNC_WAIT_COPY, FUV_ASYNC_WAIT_SEND).
HandshakeEnds ==
    /\ lpc = "wait" ~> lpc = "proc"
    /\ \A t \in Threads \ {LoopThread} :
           spc[t] # "idle" ~> spc[t] = "idle" \/ handle # "open"
=============================================================================
