------------------------------ MODULE VMsched ------------------------------
(***************************************************************************)
(* The scheduler of fakeLisp: the idle loop that starts VM threads, stops  *)
(* the world to collect garbage, runs the work queued for the idle thread  *)
(* and returns when no thread is left; and the side of the VM threads that *)
(* takes part in it: the per-VM lock, the notice flag and the checkpoint   *)
(* after every step, blocking calls, (go ...), idle work, (exit) and the   *)
(* exit path with its atexit handlers.                                     *)
(*                                                                         *)
(* What a VM computes is left out: a step of the program is one of the     *)
(* operations that matter here.  The channel a thread sends its result to  *)
(* has one slot and is taken to have nothing else sent to it, so that the  *)
(* final fklChanlSend of a thread does not park (see Chanl).               *)
(*                                                                         *)
(* FKL_VM_EXIT is two values of vmState: "EXIT", set where a thread is     *)
(* over, and "EXIT_CALLED", set by (exit) while it still has to come to    *)
(* its end.  The code cannot tell them apart and neither can an action     *)
(* (Exited); only the properties do.                                       *)
(***************************************************************************)
EXTENDS Integers, Sequences, FiniteSets

CONSTANTS
    VMs,        \* the VMs the program may create
    Main,       \* gc->main_thread
    MaxAtExit   \* bound: atexit handlers a thread registers

ASSUME VMsAssumption == IsFiniteSet(VMs) /\ Main \in VMs
ASSUME MaxAtExitAssumption == MaxAtExit \in Nat

VARIABLES
    tpc,        \* where the OS thread of each VM is
    vmState,    \* exe->state as the idle thread tells it apart
    lock,       \* who owns exe->lock
    notice,     \* exe->notice_lock
    atexit,     \* handlers on exe->atexit still to run
    exiting,    \* fklRunVM has returned: the thread is in do_vm_atexit
    ipc,        \* where the idle loop is
    gcState,    \* gc->running
    full,       \* gc->alloced_size > gc->threshold
    preq,       \* q->pre_running_q
    runq,       \* q->running_q (its order does not matter)
    todo,       \* running_q as lock_all_vm empties it
    starting,   \* the node taken from pre_running_q
    runningCount, \* q->running_count
    workq,      \* gc->workq: the VMs whose work waits
    workNum     \* gc->work_num

threadVars == <<tpc, vmState, atexit, exiting>>
idleVars == <<ipc, gcState, todo, starting>>
queueVars == <<preq, runq, runningCount>>
workVars == <<workq, workNum>>
vars == <<threadVars, lock, notice, idleVars, full, queueVars, workVars>>

Free == "free"
Owner == {"free", "self", "idle"}

\* Where a thread holds its own VM lock and executes code of its VM.
Executing == {"run", "check", "atexit", "ending"}

Init ==
    /\ tpc = [t \in VMs |-> IF t = Main THEN "pre" ELSE "none"]
    /\ vmState = [t \in VMs |-> IF t = Main THEN "READY" ELSE "none"]
    /\ lock = [t \in VMs |-> Free]
    /\ notice = [t \in VMs |-> FALSE]
    /\ atexit = [t \in VMs |-> 0]
    /\ exiting = [t \in VMs |-> FALSE]
    /\ ipc = "gc"
    /\ gcState = "NONE"
    /\ full = FALSE
    /\ preq = <<Main>>
    /\ runq = {}
    /\ todo = {}
    /\ starting = Main
    /\ runningCount = 0
    /\ workq = <<>>
    /\ workNum = 0

Goto(t, l) == tpc' = [tpc EXCEPT ![t] = l]
Unlock(t) == lock' = [lock EXCEPT ![t] = Free]

\* uv_mutex_lock of the thread's own VM lock, taken when it is free.
LockOwn(t) ==
    /\ lock[t] = Free
    /\ lock' = [lock EXCEPT ![t] = "self"]

\* exe->state = FKL_VM_EXIT, as the code tests it.
Exited(t) == vmState[t] \in {"EXIT", "EXIT_CALLED"}

\* fklRunVM goes on with the program only in state RUNNING.
Running(t) == tpc[t] = "run" /\ vmState[t] = "READY"

\* The two locks the idle thread holds between two of its steps.
HoldsPreRunningLock == ipc \in {"drain", "count"}
HoldsWorkqLock == ipc = "working"

-----------------------------------------------------------------------------
(* The VM threads. *)

\* vm_thread_cb starts: FKL_VM_LOCK_BLOCK, then fklRunVM.
ThreadBegin(t) ==
    /\ tpc[t] = "start"
    /\ LockOwn(t)
    /\ Goto(t, "run")
    /\ UNCHANGED <<vmState, atexit, exiting, notice, idleVars, full,
                   queueVars, workVars>>

\* One step of the program that changes nothing shared, or that allocates
\* past the threshold.  Every step is followed by fklVMgcCheckPoint.
Compute(t) ==
    /\ Running(t)
    /\ Goto(t, "check")
    /\ full' \in {full, TRUE}
    /\ UNCHANGED <<vmState, atexit, exiting, lock, notice, idleVars,
                   queueVars, workVars>>

\* builtin_go: create the VM, insert it into the ring, fklVMthreadStart.
builtin_go(t, u) ==
    /\ Running(t)
    /\ tpc[u] = "none"
    /\ ~HoldsPreRunningLock
    /\ tpc' = [tpc EXCEPT ![t] = "check", ![u] = "pre"]
    /\ vmState' = [vmState EXCEPT ![u] = "READY"]
    /\ preq' = Append(preq, u)
    /\ UNCHANGED <<atexit, exiting, lock, notice, idleVars, full, runq,
                   runningCount, workVars>>

\* fklCreateThreadVM runs out of stack: the VM is in the ring, marked EXIT,
\* and is never started; the creator gets an error.
GoFails(t, u) ==
    /\ Running(t)
    /\ tpc[u] = "none"
    /\ tpc' = [tpc EXCEPT ![t] = "check", ![u] = "failed"]
    /\ vmState' = [vmState EXCEPT ![u] = "EXIT"]
    /\ UNCHANGED <<atexit, exiting, lock, notice, idleVars, full, queueVars,
                   workVars>>

\* fklVMgcCheckPoint (and fklVMyield): nothing to do unless noticed.
CheckPoint(t) ==
    /\ tpc[t] = "check"
    /\ IF notice[t]
       THEN Unlock(t) /\ Goto(t, "spin")
       ELSE Goto(t, "run") /\ UNCHANGED lock
    /\ UNCHANGED <<vmState, atexit, exiting, notice, idleVars, full,
                   queueVars, workVars>>

\* Mutant: the thread takes its lock back at once.
Bug_NoSpin(t) ==
    /\ tpc[t] = "spin"
    /\ Goto(t, "relock")
    /\ UNCHANGED <<vmState, atexit, exiting, lock, notice, idleVars, full,
                   queueVars, workVars>>

\* The loop that sleeps while the collector is stopping the world.
SpinEnds(t) ==
    /\ tpc[t] = "spin"
    /\ gcState # "STW"
    /\ Goto(t, "relock")
    /\ UNCHANGED <<vmState, atexit, exiting, lock, notice, idleVars, full,
                   queueVars, workVars>>

Relock(t) ==
    /\ tpc[t] = "relock"
    /\ LockOwn(t)
    /\ Goto(t, "run")
    /\ UNCHANGED <<vmState, atexit, exiting, notice, idleVars, full,
                   queueVars, workVars>>

\* A blocking call in an FKL_VM_UNLOCK_BLOCK: channel, sleep, sync, fuv.
Block(t) ==
    /\ Running(t)
    /\ Unlock(t)
    /\ Goto(t, "blocked")
    /\ UNCHANGED <<vmState, atexit, exiting, notice, idleVars, full,
                   queueVars, workVars>>

\* The call returns, and FKL_VM_UNLOCK_BLOCK takes the lock back.
Unblock(t) ==
    /\ tpc[t] = "blocked"
    /\ LockOwn(t)
    /\ Goto(t, "check")
    /\ UNCHANGED <<vmState, atexit, exiting, notice, idleVars, full,
                   queueVars, workVars>>

\* fklQueueWorkInIdleThread: release the VM lock, ...
QueueWork(t) ==
    /\ Running(t)
    /\ Unlock(t)
    /\ Goto(t, "wantwork")
    /\ UNCHANGED <<vmState, atexit, exiting, notice, idleVars, full,
                   queueVars, workVars>>

\* ... push the work under workq_lock and wait for its condition, ...
PushIdleWork(t) ==
    /\ tpc[t] = "wantwork"
    /\ ~HoldsWorkqLock
    /\ workq' = Append(workq, t)
    /\ workNum' = workNum + 1
    /\ Goto(t, "inwork")
    /\ UNCHANGED <<vmState, atexit, exiting, lock, notice, idleVars, full,
                   queueVars>>

\* ... which needs workq_lock again to return; then the VM lock.
WorkReturns(t) ==
    /\ tpc[t] = "signalled"
    /\ ~HoldsWorkqLock
    /\ Goto(t, "worked")
    /\ UNCHANGED <<vmState, atexit, exiting, lock, notice, idleVars, full,
                   queueVars, workVars>>

WorkRelock(t) ==
    /\ tpc[t] = "worked"
    /\ LockOwn(t)
    /\ Goto(t, IF exiting[t] THEN "atexit" ELSE "check")
    /\ UNCHANGED <<vmState, atexit, exiting, notice, idleVars, full,
                   queueVars, workVars>>

builtin_atexit(t) ==
    /\ Running(t)
    /\ atexit[t] < MaxAtExit
    /\ atexit' = [atexit EXCEPT ![t] = @ + 1]
    /\ Goto(t, "check")
    /\ UNCHANGED <<vmState, exiting, lock, notice, idleVars, full,
                   queueVars, workVars>>

\* (exit) marks the VM in the middle of a step: fklVMgcCheckPoint still
\* comes before fklRunVM looks at the state.
builtin_exit(t) ==
    /\ Running(t)
    /\ vmState' = [vmState EXCEPT ![t] = "EXIT_CALLED"]
    /\ Goto(t, "check")
    /\ UNCHANGED <<atexit, exiting, lock, notice, idleVars, full,
                   queueVars, workVars>>

\* Mutant: do_vm_atexit leaves the VM in state EXIT.
Bug_AtExitInExit(t) ==
    /\ tpc[t] = "run"
    /\ Goto(t, "atexit")
    /\ exiting' = [exiting EXCEPT ![t] = TRUE]
    /\ vmState' = [vmState EXCEPT ![t] = "EXIT"]
    /\ UNCHANGED <<atexit, lock, notice, idleVars, full, queueVars, workVars>>

\* fklRunVM returns: its frame is left, an error was not caught, or it finds
\* the state that (exit) has set.  vm_thread_cb sets EXIT and sends the
\* error, and do_vm_atexit makes the VM READY again for its handlers, all
\* without giving the VM lock back.
RunReturns(t) ==
    /\ tpc[t] = "run"
    /\ Goto(t, "atexit")
    /\ exiting' = [exiting EXCEPT ![t] = TRUE]
    /\ vmState' = [vmState EXCEPT ![t] = "READY"]
    /\ UNCHANGED <<atexit, lock, notice, idleVars, full, queueVars, workVars>>

\* Each handler is run as work of the idle thread.
AtExitHandler(t) ==
    /\ tpc[t] = "atexit"
    /\ atexit[t] > 0
    /\ atexit' = [atexit EXCEPT ![t] = @ - 1]
    /\ Unlock(t)
    /\ Goto(t, "wantwork")
    /\ UNCHANGED <<vmState, exiting, notice, idleVars, full, queueVars,
                   workVars>>

\* The rest of vm_thread_cb under the VM lock: EXIT, the result is sent,
\* the frames are deleted, the thread is no longer counted.
ThreadEnds(t) ==
    /\ tpc[t] = "atexit"
    /\ atexit[t] = 0
    /\ vmState' = [vmState EXCEPT ![t] = "EXIT"]
    /\ runningCount' = runningCount - 1
    /\ Goto(t, "ending")
    /\ UNCHANGED <<atexit, exiting, lock, notice, idleVars, full, preq, runq,
                   workVars>>

ThreadUnlocks(t) ==
    /\ tpc[t] = "ending"
    /\ Unlock(t)
    /\ Goto(t, "done")
    /\ UNCHANGED <<vmState, atexit, exiting, notice, idleVars, full,
                   queueVars, workVars>>

ThreadStep(t) ==
    \/ ThreadBegin(t)
    \/ Compute(t)
    \/ \E u \in VMs : builtin_go(t, u) \/ GoFails(t, u)
    \/ CheckPoint(t)
    \/ SpinEnds(t)
    \/ Relock(t)
    \/ Block(t)
    \/ QueueWork(t)
    \/ PushIdleWork(t)
    \/ WorkReturns(t)
    \/ WorkRelock(t)
    \/ builtin_atexit(t)
    \/ builtin_exit(t)
    \/ RunReturns(t)
    \/ AtExitHandler(t)
    \/ ThreadEnds(t)
    \/ ThreadUnlocks(t)

-----------------------------------------------------------------------------
(* The idle loop: a collection if one is due ... *)

switch_notice(b) == notice' = [t \in VMs |-> IF t \in runq THEN b ELSE notice[t]]
unlock_all_vm == lock' = [t \in VMs |-> IF t \in runq THEN Free ELSE lock[t]]

GcDue ==
    /\ ipc = "gc"
    /\ full
    /\ switch_notice(TRUE)
    /\ ipc' = "stw"
    /\ UNCHANGED <<threadVars, lock, gcState, todo, starting, full,
                   queueVars, workVars>>

\* Mutant: new threads are looked for after a collection only.
Bug_SkipDrain ==
    /\ ipc = "gc"
    /\ ~full
    /\ ipc' = IF runq = {} THEN "drain" ELSE "exitcheck"
    /\ UNCHANGED <<threadVars, lock, notice, gcState, todo, starting, full,
                   queueVars, workVars>>

GcNotDue ==
    /\ ipc = "gc"
    /\ ~full
    /\ ipc' = "drain"
    /\ UNCHANGED <<threadVars, lock, notice, gcState, todo, starting, full,
                   queueVars, workVars>>

GcStw ==
    /\ ipc = "stw"
    /\ gcState' = "STW"
    /\ todo' = runq
    /\ ipc' = "gclock"
    /\ UNCHANGED <<threadVars, lock, notice, starting, full, queueVars,
                   workVars>>

\* lock_all_vm: one uv_mutex_trylock that succeeds.  One that fails puts
\* the node back and goes on with the next.
TryLock(t) ==
    /\ ipc \in {"gclock", "wklock"}
    /\ t \in todo
    /\ lock[t] = Free
    /\ lock' = [lock EXCEPT ![t] = "idle"]
    /\ todo' = todo \ {t}
    /\ UNCHANGED <<threadVars, notice, ipc, gcState, starting, full,
                   queueVars, workVars>>

\* Mutant: threads whose lock is taken are left out.
Bug_LockSome ==
    /\ ipc = "gclock"
    /\ \A t \in todo : lock[t] # Free
    /\ gcState' = "MARK_ROOT"
    /\ ipc' = "collect"
    /\ UNCHANGED <<threadVars, lock, notice, todo, starting, full, queueVars,
                   workVars>>

GcLocked ==
    /\ ipc = "gclock"
    /\ todo = {}
    /\ gcState' = "MARK_ROOT"
    /\ ipc' = "collect"
    /\ UNCHANGED <<threadVars, lock, notice, todo, starting, full, queueVars,
                   workVars>>

\* The phases of a collection, in order.
GcPhases == {<<"MARK_ROOT", "PROPAGATE">>, <<"PROPAGATE", "COLLECT">>,
             <<"COLLECT", "SWEEPING">>, <<"SWEEPING", "DONE">>}

GcCollect ==
    /\ ipc = "collect"
    /\ \E p \in GcPhases :
          /\ gcState = p[1]
          /\ gcState' = p[2]
          /\ IF p[2] = "DONE"
             THEN ipc' = "join" /\ full' = FALSE
             ELSE UNCHANGED <<ipc, full>>
    /\ UNCHANGED <<threadVars, lock, notice, todo, starting, queueVars,
                   workVars>>

\* The threads of running_q whose VM is EXIT are joined and forgotten.
Joinable == {t \in runq : Exited(t)}

GcJoin(t) ==
    /\ ipc = "join"
    /\ t \in Joinable
    /\ tpc[t] = "done"
    /\ runq' = runq \ {t}
    /\ Unlock(t)
    /\ UNCHANGED <<threadVars, notice, idleVars, full, preq, runningCount,
                   workVars>>

\* Mutant: VMs are released before their threads are joined.
Bug_ReleaseBeforeJoin ==
    /\ ipc = "join"
    /\ vmState' = [t \in VMs |-> IF t # Main /\ Exited(t)
                                 THEN "released" ELSE vmState[t]]
    /\ ipc' = "continue"
    /\ UNCHANGED <<tpc, atexit, exiting, lock, notice, gcState, todo,
                   starting, full, queueVars, workVars>>

\* remove_exited_thread releases every VM of the ring but the main one
\* that is EXIT; then the threads are let go.
GcRelease ==
    /\ ipc = "join"
    /\ Joinable = {}
    /\ vmState' = [t \in VMs |-> IF t # Main /\ Exited(t)
                                 THEN "released" ELSE vmState[t]]
    /\ ipc' = "continue"
    /\ UNCHANGED <<tpc, atexit, exiting, lock, notice, gcState, todo,
                   starting, full, queueVars, workVars>>

GcContinue ==
    /\ ipc = "continue"
    /\ switch_notice(FALSE)
    /\ unlock_all_vm
    /\ gcState' = "NONE"
    /\ ipc' = "drain"
    /\ UNCHANGED <<threadVars, todo, starting, full, queueVars, workVars>>

-----------------------------------------------------------------------------
(* ... then the new threads, under pre_running_lock, ... *)

StartThread ==
    /\ ipc = "drain"
    /\ preq # <<>>
    /\ starting' = Head(preq)
    /\ preq' = Tail(preq)
    /\ Goto(Head(preq), "start")
    /\ ipc' = "count"
    /\ UNCHANGED <<vmState, atexit, exiting, lock, notice, gcState, todo,
                   full, runq, runningCount, workVars>>

\* Mutant: a thread that could not be created is counted.
Bug_CountFailed ==
    /\ ipc = "drain"
    /\ preq # <<>>
    /\ Head(preq) # Main
    /\ preq' = Tail(preq)
    /\ Goto(Head(preq), "failed")
    /\ vmState' = [vmState EXCEPT ![Head(preq)] = "EXIT"]
    /\ runningCount' = runningCount + 1
    /\ UNCHANGED <<atexit, exiting, lock, notice, idleVars, full, runq,
                   workVars>>

\* uv_thread_create fails: the creator is told through the channel.  The
\* main thread has no channel (FKL_UNREACHABLE).
StartFails ==
    /\ ipc = "drain"
    /\ preq # <<>>
    /\ Head(preq) # Main
    /\ preq' = Tail(preq)
    /\ Goto(Head(preq), "failed")
    /\ vmState' = [vmState EXCEPT ![Head(preq)] = "EXIT"]
    /\ UNCHANGED <<atexit, exiting, lock, notice, idleVars, full, runq,
                   runningCount, workVars>>

\* The thread already runs when it is counted and queued.
CountThread ==
    /\ ipc = "count"
    /\ runningCount' = runningCount + 1
    /\ runq' = runq \cup {starting}
    /\ ipc' = "drain"
    /\ UNCHANGED <<threadVars, lock, notice, gcState, todo, starting, full,
                   preq, workVars>>

Drained ==
    /\ ipc = "drain"
    /\ preq = <<>>
    /\ ipc' = "exitcheck"
    /\ UNCHANGED <<threadVars, lock, notice, gcState, todo, starting, full,
                   queueVars, workVars>>

-----------------------------------------------------------------------------
(* ... then the end, if no thread is left, ... *)

ExitCheck ==
    /\ ipc = "exitcheck"
    /\ ipc' = IF runningCount = 0 THEN "finaljoin" ELSE "work"
    /\ UNCHANGED <<threadVars, lock, notice, gcState, todo, starting, full,
                   queueVars, workVars>>

\* Mutant: the threads are forgotten, not joined.
Bug_NoFinalJoin(t) ==
    /\ ipc = "finaljoin"
    /\ t \in runq
    /\ runq' = runq \ {t}
    /\ UNCHANGED <<threadVars, lock, notice, idleVars, full, preq,
                   runningCount, workVars>>

FinalJoin(t) ==
    /\ ipc = "finaljoin"
    /\ t \in runq
    /\ tpc[t] = "done"
    /\ runq' = runq \ {t}
    /\ UNCHANGED <<threadVars, lock, notice, idleVars, full, preq,
                   runningCount, workVars>>

IdleReturns ==
    /\ ipc = "finaljoin"
    /\ runq = {}
    /\ ipc' = "returned"
    /\ UNCHANGED <<threadVars, lock, notice, gcState, todo, starting, full,
                   queueVars, workVars>>

-----------------------------------------------------------------------------
(* ... then the work queued for the idle thread. *)

\* Mutant: the threads are not told to release their locks.
Bug_NoNotice ==
    /\ ipc = "work"
    /\ workNum # 0
    /\ todo' = runq
    /\ ipc' = "wklock"
    /\ UNCHANGED <<threadVars, lock, notice, gcState, starting, full,
                   queueVars, workVars>>

WorkDue ==
    /\ ipc = "work"
    /\ workNum # 0
    /\ switch_notice(TRUE)
    /\ todo' = runq
    /\ ipc' = "wklock"
    /\ UNCHANGED <<threadVars, lock, gcState, starting, full, queueVars,
                   workVars>>

NoWork ==
    /\ ipc = "work"
    /\ workNum = 0
    /\ ipc' = "gc"
    /\ UNCHANGED <<threadVars, lock, notice, gcState, todo, starting, full,
                   queueVars, workVars>>

WorkLocked ==
    /\ ipc = "wklock"
    /\ todo = {}
    /\ ipc' = "working"
    /\ UNCHANGED <<threadVars, lock, notice, gcState, todo, starting, full,
                   queueVars, workVars>>

\* pop_idle_work, the signal and the callback on the waiting VM, under
\* workq_lock.  The callback runs VM code single-threaded, by a fklRunVM of
\* its own: it may pass the threshold, it collects by itself (fklVMgcCheck),
\* and it leaves the VM READY, or EXIT when that code called (exit).
PopIdleWork ==
    /\ ipc = "working"
    /\ workq # <<>>
    /\ workq' = Tail(workq)
    /\ workNum' = workNum - 1
    /\ Goto(Head(workq), "signalled")
    /\ \E s \in {"READY", "EXIT_CALLED"} :
          vmState' = [vmState EXCEPT ![Head(workq)] = s]
    /\ full' \in BOOLEAN
    /\ UNCHANGED <<atexit, exiting, lock, notice, idleVars, queueVars>>

WorkContinue ==
    /\ ipc = "working"
    /\ workq = <<>>
    /\ switch_notice(FALSE)
    /\ unlock_all_vm
    /\ ipc' = "gc"
    /\ UNCHANGED <<threadVars, gcState, todo, starting, full, queueVars,
                   workVars>>

IdleStep ==
    \/ GcDue \/ GcNotDue \/ GcStw \/ GcLocked \/ GcCollect
    \/ GcRelease \/ GcContinue
    \/ StartThread \/ StartFails \/ CountThread \/ Drained
    \/ ExitCheck \/ IdleReturns
    \/ WorkDue \/ NoWork \/ WorkLocked \/ PopIdleWork
    \/ WorkContinue
    \/ \E t \in VMs : GcJoin(t) \/ FinalJoin(t)

\* fklVMidleLoop has returned and nothing runs any more.
Terminated == ipc = "returned" /\ UNCHANGED vars

\* The idle thread is in the uv_thread_join of a thread that is not over; it
\* unlocks the VM of that thread, and any other, only after the join.
Wedged == ipc = "join" /\ \E t \in Joinable : tpc[t] # "done"
Hangs == Wedged /\ UNCHANGED vars

Next ==
    \/ IdleStep
    \/ \E t \in VMs : TryLock(t) \/ ThreadStep(t) \/ Unblock(t)
    \/ Terminated
    \/ Hangs

Spec == Init /\ [][Next]_vars

\* The operating system schedules the idle thread and every VM thread that
\* can go on; nothing is assumed of the calls a thread blocks in.
Scheduled ==
    /\ WF_vars(IdleStep)
    /\ \A t \in VMs : WF_vars(ThreadStep(t))

\* lock_all_vm tries every lock again and again: one that stays free is taken.
\* One that is free from time to time need not be (see Overtaken).
FairSpec ==
    /\ Spec
    /\ Scheduled
    /\ \A t \in VMs : WF_vars(TryLock(t))

-----------------------------------------------------------------------------
(* Properties. *)

ThreadPC ==
    {"none", "pre", "failed", "start", "run", "check", "spin", "relock",
     "blocked", "wantwork", "inwork", "signalled", "worked", "atexit",
     "ending", "done"}

IdlePC ==
    {"gc", "stw", "gclock", "collect", "join", "continue", "drain", "count",
     "exitcheck", "finaljoin", "returned", "work", "wklock", "working"}

\* The type invariant.
TypeOK ==
    /\ tpc \in [VMs -> ThreadPC]
    /\ vmState \in [VMs -> {"none", "READY", "EXIT", "EXIT_CALLED", "released"}]
    /\ lock \in [VMs -> Owner]
    /\ notice \in [VMs -> BOOLEAN]
    /\ atexit \in [VMs -> 0 .. MaxAtExit]
    /\ exiting \in [VMs -> BOOLEAN]
    /\ ipc \in IdlePC
    /\ gcState \in {"NONE", "STW", "MARK_ROOT", "PROPAGATE", "COLLECT",
                    "SWEEPING", "DONE"}
    /\ full \in BOOLEAN
    /\ preq \in Seq(VMs)
    /\ runq \subseteq VMs
    /\ todo \subseteq VMs
    /\ starting \in VMs
    /\ runningCount \in Int
    /\ workq \in Seq(VMs)
    /\ workNum \in Int

WorldStopped == ipc \in {"collect", "join", "continue", "working"}

\* Stop-the-world is real: from the moment lock_all_vm is through until the
\* locks are given back no thread executes code of its VM, so marking,
\* sweeping, releasing VMs and idle callbacks see memory nobody changes.
StoppedMeansStopped ==
    WorldStopped => \A t \in VMs : tpc[t] \notin Executing

\* The collector joins a thread while it holds every VM lock, so it may only
\* join one whose function has nothing left to do: a thread that still had
\* to take its lock would never end.  do_vm_atexit makes the VM READY while
\* handlers are queued for that reason.  The one exception is a thread that
\* called (exit) and has not come to its end: JoinAlwaysEnds.
JoinsOnlyFinished ==
    ipc = "join" =>
        \A t \in Joinable : tpc[t] = "done" \/ vmState[t] = "EXIT_CALLED"

\* The test driver ends with (exit err-count) and is expected to end: no
\* collection waits for ever for a thread that called exit.
JoinAlwaysEnds == ~Wedged

\* What follows when it does: the hang is for good.
HangIsForGood == [][Wedged => Wedged']_vars

\* A VM that remove_exited_thread has released is used by nobody: its thread
\* has ended or was never created, and no queue refers to it.
ReleasedIsUnused ==
    \A t \in VMs : vmState[t] = "released" =>
        /\ tpc[t] \in {"done", "failed"}
        /\ t \notin runq
        /\ \A i \in DOMAIN preq : preq[i] # t
        /\ \A i \in DOMAIN workq : workq[i] # t

\* running_count counts the threads that were created and have not ended,
\* except for the one the idle loop has created and not yet counted.
Dormant == {"none", "pre", "failed"}
Alive == {t \in VMs : tpc[t] \notin Dormant \cup {"ending", "done"}}
RunningCountExact ==
    runningCount = Cardinality(Alive) - (IF ipc = "count" THEN 1 ELSE 0)

\* work_num, which the idle loop reads without the lock, is the number of
\* queued work items, and these are the threads that wait, each once.
WorkCounted ==
    /\ workNum = Len(workq)
    /\ {workq[i] : i \in DOMAIN workq} = {t \in VMs : tpc[t] = "inwork"}
    /\ \A i, j \in DOMAIN workq : workq[i] = workq[j] => i = j

\* When the idle loop returns, every thread it ever created has ended and no
\* work is left undone.
ReturnsWhenOver ==
    ipc = "returned" =>
        /\ \A t \in VMs : tpc[t] \in {"none", "pre", "failed", "done"}
        /\ workq = <<>>

(***************************************************************************)
(* The inductive invariant the safety properties follow from.              *)
(***************************************************************************)

\* A thread executes code of its VM exactly while it owns the VM lock.
LockOwned == \A t \in VMs : tpc[t] \in Executing <=> lock[t] = "self"

\* Every thread that exists and has not ended is on running_q, the list
\* lock_all_vm works from, but for the one that is about to be put on it.
StartedInRunq ==
    \A t \in VMs : tpc[t] \notin Dormant \cup {"done"} =>
                      t \in runq \/ (ipc = "count" /\ t = starting)

\* running_q holds created threads only, and so will it when the one that
\* was just created is put on it.
RunqStarted ==
    /\ \A t \in runq : tpc[t] \notin Dormant
    /\ ipc = "count" => /\ tpc[starting] \notin Dormant
                        /\ vmState[starting] # "released"

\* What the idle thread has locked stays locked while it needs it.
LockedByIdle ==
    /\ ipc \in {"gclock", "wklock"} =>
          \A t \in runq \ todo : lock[t] = "idle"
    /\ WorldStopped => \A t \in runq : lock[t] = "idle"

\* pre_running_q holds VMs whose thread was not created yet, each once.
PreqWaiting ==
    /\ \A i \in DOMAIN preq : tpc[preq[i]] = "pre"
    /\ \A i, j \in DOMAIN preq : preq[i] = preq[j] => i = j

\* Where a thread that called exit may be: at the checkpoint of that step or
\* at the switch after it, or, when idle work called exit, on its way back
\* from the work, or queueing the next of its atexit handlers.
Leaving == {"check", "spin", "relock", "run", "wantwork", "inwork",
            "signalled", "worked", "atexit"}

\* State EXIT, unless exit has set it, means that nothing but the final
\* unlock is left to do.
ExitIsOver ==
    \A t \in VMs :
        /\ vmState[t] = "EXIT" => tpc[t] \in {"ending", "done", "failed"}
        /\ vmState[t] = "EXIT_CALLED" => tpc[t] \in Leaving
        /\ vmState[t] = "released" => tpc[t] \in {"done", "failed"} /\ t \notin runq

\* Once the idle loop has seen running_count = 0 no thread is alive.
NoneAlive ==
    /\ ipc \in {"finaljoin", "returned"} => Alive = {}
    /\ ipc = "returned" => runq = {}

IndInv ==
    /\ TypeOK
    /\ LockOwned
    /\ StartedInRunq
    /\ RunqStarted
    /\ LockedByIdle
    /\ PreqWaiting
    /\ ExitIsOver
    /\ WorkCounted
    /\ RunningCountExact
    /\ NoneAlive

\* A collection that begins ends: the STW state keeps a noticed thread from
\* taking its lock back, so that weak fairness of uv_mutex_trylock is enough.
CollectionEnds == (ipc = "stw") ~> (gcState = "DONE")

\* For idle work no STW state is set: a noticed thread takes its lock back at
\* once, and nothing makes uv_mutex_trylock ever meet it free.
Overtaken ==
    \E u \in VMs : /\ <>[](ipc = "wklock" /\ u \in todo)
                   /\ []<>(lock[u] = "self")
                   /\ []<>(lock[u] = Free)

\* Work queued for the idle thread is done, unless the join of a thread that
\* called exit hangs, or a thread gives its lock up and takes it back for
\* ever without the idle thread ever getting it.
WorkIsDone ==
    \/ \A t \in VMs : (tpc[t] = "inwork") ~> (tpc[t] # "inwork" \/ Wedged)
    \/ Overtaken

\* A VM handed to fklVMthreadStart is started, unless the idle loop returns;
\* with the same two exceptions.
StartedOrOver ==
    \/ \A t \in VMs :
          (tpc[t] = "pre") ~> (tpc[t] # "pre" \/ ipc = "returned" \/ Wedged)
    \/ Overtaken
=============================================================================
