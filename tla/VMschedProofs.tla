--------------------------- MODULE VMschedProofs ---------------------------
(***************************************************************************)
(* Proofs about VMsched for every finite set of VMs and every bound on the *)
(* atexit handlers.  IndInv is the inductive invariant; IndStep, that every *)
(* step keeps it, is split by groups of its conjuncts: the types, the      *)
(* locks and queues (LockStep), the idle work (WorkStep) and the count of  *)
(* running threads (CountStep).  The safety properties follow from it.     *)
(***************************************************************************)
EXTENDS VMsched, TLAPS, FiniteSetTheorems

-----------------------------------------------------------------------------
(* Queues. *)

\* What is left of a queue when its head is taken off.
LEMMA TailFacts ==
  ASSUME NEW S, NEW q \in Seq(S), q # <<>>
  PROVE  /\ 1 \in DOMAIN q /\ Head(q) = q[1] /\ q[1] \in S
         /\ Tail(q) \in Seq(S)
         /\ Len(Tail(q)) = Len(q) - 1
         /\ DOMAIN q \subseteq Int /\ DOMAIN Tail(q) \subseteq Int
         /\ \A i \in DOMAIN Tail(q) :
               i # 0 /\ i + 1 \in DOMAIN q /\ Tail(q)[i] = q[i + 1]
         /\ \A i \in DOMAIN q :
               i # 1 => i - 1 \in DOMAIN Tail(q) /\ Tail(q)[i - 1] = q[i]
OBVIOUS

\* What a queue is when an element is put on it.
LEMMA AppendFacts ==
  ASSUME NEW S, NEW q \in Seq(S), NEW x \in S
  PROVE  /\ Append(q, x) \in Seq(S)
         /\ Len(Append(q, x)) = Len(q) + 1
         /\ DOMAIN Append(q, x) = DOMAIN q \cup {Len(q) + 1}
         /\ Len(q) + 1 \notin DOMAIN q
         /\ Append(q, x)[Len(q) + 1] = x
         /\ \A i \in DOMAIN q : Append(q, x)[i] = q[i]
OBVIOUS

-----------------------------------------------------------------------------
(* Types. *)


\* Every action keeps the types.
LEMMA TypeStep == TypeOK /\ [Next]_vars => TypeOK'
<1> SUFFICES ASSUME TypeOK, [Next]_vars
             PROVE  TypeOK'
  OBVIOUS
<1> USE VMsAssumption, MaxAtExitAssumption
<1> USE DEF TypeOK, ThreadPC, IdlePC, Unlock, Free, Owner, Goto, switch_notice, unlock_all_vm,
            threadVars, idleVars, queueVars, workVars
<1>1. CASE GcDue
  BY <1>1 DEF GcDue
<1>2. CASE GcNotDue
  BY <1>2 DEF GcNotDue
<1>3. CASE GcStw
  BY <1>3 DEF GcStw
<1>4. CASE GcLocked
  BY <1>4 DEF GcLocked
<1>5. CASE GcCollect
  <2>1. PICK p \in GcPhases : gcState' = p[2] /\ (ipc' = "join" \/ ipc' = ipc)
                              /\ (full' = FALSE \/ full' = full)
    BY <1>5 DEF GcCollect
  <2>2. gcState' \in {"PROPAGATE", "COLLECT", "SWEEPING", "DONE"}
    BY <2>1 DEF GcPhases
  <2> QED
    BY <1>5, <2>1, <2>2 DEF GcCollect
<1>6. CASE GcRelease
  BY <1>6 DEF GcRelease
<1>7. CASE GcContinue
  BY <1>7 DEF GcContinue
<1>8. CASE StartThread
  BY <1>8 DEF StartThread
<1>9. CASE StartFails
  BY <1>9 DEF StartFails
<1>10. CASE CountThread
  BY <1>10 DEF CountThread
<1>11. CASE Drained
  BY <1>11 DEF Drained
<1>12. CASE ExitCheck
  BY <1>12 DEF ExitCheck
<1>13. CASE IdleReturns
  BY <1>13 DEF IdleReturns
<1>14. CASE WorkDue
  BY <1>14 DEF WorkDue
<1>15. CASE NoWork
  BY <1>15 DEF NoWork
<1>16. CASE WorkLocked
  BY <1>16 DEF WorkLocked
<1>17. CASE PopIdleWork
  BY <1>17 DEF PopIdleWork
<1>18. ASSUME NEW t \in VMs, builtin_exit(t) PROVE TypeOK'
  BY <1>18 DEF builtin_exit, Running
<1>19. CASE WorkContinue
  BY <1>19 DEF WorkContinue
<1>20. ASSUME NEW t \in VMs, ThreadBegin(t) PROVE TypeOK'
  BY <1>20 DEF ThreadBegin, LockOwn
<1>21. ASSUME NEW t \in VMs, Compute(t) PROVE TypeOK'
  BY <1>21 DEF Compute, Running
<1>22. ASSUME NEW t \in VMs, CheckPoint(t) PROVE TypeOK'
  BY <1>22 DEF CheckPoint
<1>23. ASSUME NEW t \in VMs, SpinEnds(t) PROVE TypeOK'
  BY <1>23 DEF SpinEnds
<1>24. ASSUME NEW t \in VMs, Relock(t) PROVE TypeOK'
  BY <1>24 DEF Relock, LockOwn
<1>25. ASSUME NEW t \in VMs, Block(t) PROVE TypeOK'
  BY <1>25 DEF Block, Running
<1>26. ASSUME NEW t \in VMs, Unblock(t) PROVE TypeOK'
  BY <1>26 DEF Unblock, LockOwn
<1>27. ASSUME NEW t \in VMs, QueueWork(t) PROVE TypeOK'
  BY <1>27 DEF QueueWork, Running
<1>28. ASSUME NEW t \in VMs, PushIdleWork(t) PROVE TypeOK'
  BY <1>28 DEF PushIdleWork
<1>29. ASSUME NEW t \in VMs, WorkReturns(t) PROVE TypeOK'
  BY <1>29 DEF WorkReturns
<1>30. ASSUME NEW t \in VMs, WorkRelock(t) PROVE TypeOK'
  BY <1>30 DEF WorkRelock, LockOwn
<1>31. ASSUME NEW t \in VMs, builtin_atexit(t) PROVE TypeOK'
  BY <1>31 DEF builtin_atexit, Running
<1>32. ASSUME NEW t \in VMs, RunReturns(t) PROVE TypeOK'
  BY <1>32 DEF RunReturns
<1>33. ASSUME NEW t \in VMs, AtExitHandler(t) PROVE TypeOK'
  BY <1>33 DEF AtExitHandler
<1>34. ASSUME NEW t \in VMs, ThreadEnds(t) PROVE TypeOK'
  BY <1>34 DEF ThreadEnds
<1>35. ASSUME NEW t \in VMs, ThreadUnlocks(t) PROVE TypeOK'
  BY <1>35 DEF ThreadUnlocks
<1>36. ASSUME NEW t \in VMs, TryLock(t) PROVE TypeOK'
  BY <1>36 DEF TryLock
<1>37. ASSUME NEW t \in VMs, GcJoin(t) PROVE TypeOK'
  BY <1>37 DEF GcJoin
<1>38. ASSUME NEW t \in VMs, FinalJoin(t) PROVE TypeOK'
  BY <1>38 DEF FinalJoin
<1>39. ASSUME NEW t \in VMs, NEW u \in VMs, builtin_go(t, u)
      PROVE  TypeOK'
  BY <1>39, AppendFacts DEF builtin_go, Running
<1>40. ASSUME NEW t \in VMs, NEW u \in VMs, GoFails(t, u)
      PROVE  TypeOK'
  BY <1>40 DEF GoFails, Running
<1>41. CASE UNCHANGED vars
  BY <1>41 DEF vars
<1> HIDE DEF TypeOK
<1> QED
  BY <1>1, <1>2, <1>3, <1>4, <1>5, <1>6, <1>7, <1>8, <1>9, <1>10, <1>11,
     <1>12, <1>13, <1>14, <1>15, <1>16, <1>17, <1>18, <1>19, <1>20, <1>21,
     <1>22, <1>23, <1>24, <1>25, <1>26, <1>27, <1>28, <1>29, <1>30, <1>31,
     <1>32, <1>33, <1>34, <1>35, <1>36, <1>37, <1>38, <1>39, <1>40, <1>41 DEF
     Next, IdleStep, ThreadStep, Terminated, Hangs


-----------------------------------------------------------------------------
(* The locks and the queues of threads. *)

LockPart ==
    LockOwned /\ StartedInRunq /\ RunqStarted /\ LockedByIdle /\ PreqWaiting
    /\ ExitIsOver

\* Every action keeps the conjuncts about locks, queues and exits.
LEMMA LockStep == IndInv /\ [Next]_vars => LockPart'
<1> SUFFICES ASSUME IndInv, [Next]_vars
             PROVE  LockPart'
  OBVIOUS
<1> USE VMsAssumption
<1> USE DEF IndInv, LockPart, TypeOK, ThreadPC, IdlePC, LockOwned, StartedInRunq, RunqStarted,
            LockedByIdle, PreqWaiting, ExitIsOver, Leaving, Executing, Dormant, Owner,
            Free, Unlock, Goto, switch_notice, unlock_all_vm, threadVars,
            idleVars, queueVars, workVars
<1>1. CASE GcDue
  BY <1>1 DEF GcDue, WorldStopped
<1>2. CASE GcNotDue
  BY <1>2 DEF GcNotDue, WorldStopped
<1>3. CASE GcStw
  BY <1>3 DEF GcStw, WorldStopped
<1>4. CASE GcLocked
  BY <1>4 DEF GcLocked, WorldStopped
<1>5. CASE GcCollect
  BY <1>5 DEF GcCollect, WorldStopped
<1>6. CASE GcRelease
  <2>1. /\ ipc = "join" /\ ipc' = "continue" /\ Joinable = {}
        /\ UNCHANGED <<tpc, lock, todo, starting, preq, runq>>
        /\ vmState' = [t \in VMs |-> IF t # Main /\ Exited(t)
                                     THEN "released" ELSE vmState[t]]
    BY <1>6 DEF GcRelease
  \* A thread that called exit and is not over is still on running_q.
  <2>2. ASSUME NEW t \in VMs, Exited(t)
        PROVE  vmState[t] = "EXIT" /\ tpc[t] \in {"done", "failed"} /\ t \notin runq
    <3>1. t \notin runq
      BY <2>1, <2>2 DEF Joinable
    <3>2. tpc[t] \in Dormant \cup {"done"}
      BY <2>1, <3>1
    <3> QED
      BY <2>2, <3>1, <3>2 DEF Exited
  <2>3. LockOwned' /\ StartedInRunq' /\ PreqWaiting'
    BY <2>1
  <2>4. RunqStarted' /\ LockedByIdle'
    BY <2>1 DEF WorldStopped
  <2>5. ExitIsOver'
    BY <2>1, <2>2 DEF Exited
  <2> QED
    BY <2>3, <2>4, <2>5
<1>7. CASE GcContinue
  BY <1>7 DEF GcContinue, WorldStopped
<1>8. CASE StartThread
  <2> DEFINE h == Head(preq)
  <2>1. h = preq[1] /\ h \in VMs /\ tpc[h] = "pre" /\ h \notin runq
    BY <1>8, TailFacts DEF StartThread
  <2>2. \A i \in DOMAIN Tail(preq) :
           /\ i + 1 \in DOMAIN preq /\ Tail(preq)[i] = preq[i + 1]
           /\ preq[i + 1] # h /\ preq[i + 1] \in VMs /\ tpc[preq[i + 1]] = "pre"
    BY <1>8, <2>1, TailFacts DEF StartThread
  <2>3. PreqWaiting'
    <3>1. preq' = Tail(preq) /\ \A x \in VMs : x # h => tpc'[x] = tpc[x]
      BY <1>8, <2>1 DEF StartThread
    <3>2. ASSUME NEW i \in DOMAIN preq' PROVE tpc'[preq'[i]] = "pre"
      <4>1. i \in DOMAIN Tail(preq) /\ preq'[i] = preq[i + 1]
        BY <2>2, <3>1
      <4> DEFINE x == preq[i + 1]
      <4>2. x \in VMs /\ x # h /\ tpc[x] = "pre"
        BY <2>2, <4>1
      <4> HIDE DEF x, h
      <4>3. tpc'[x] = "pre"
        BY <3>1, <4>2
      <4> QED
        BY <4>1, <4>3 DEF x
    <3>3. \A i, j \in DOMAIN preq' : preq'[i] = preq'[j] => i = j
      BY <1>8, <2>2, <3>1, TailFacts DEF StartThread
    <3> QED
      BY <3>2, <3>3
  <2>4. LockOwned' /\ StartedInRunq' /\ RunqStarted'
    <3>1. LockOwned'
      BY <1>8, <2>1 DEF StartThread
    <3>2. StartedInRunq'
      BY <1>8, <2>1 DEF StartThread
    <3>3. RunqStarted'
      BY <1>8, <2>1 DEF StartThread
    <3> QED
      BY <3>1, <3>2, <3>3
  <2>5. LockedByIdle' /\ ExitIsOver'
    BY <1>8, <2>1 DEF StartThread, WorldStopped
  <2> QED
    BY <2>3, <2>4, <2>5
<1>9. CASE StartFails
  <2> DEFINE h == Head(preq)
  <2>1. h = preq[1] /\ h \in VMs /\ tpc[h] = "pre" /\ h \notin runq
    BY <1>9, TailFacts DEF StartFails
  <2>2. \A i \in DOMAIN Tail(preq) :
           /\ i + 1 \in DOMAIN preq /\ Tail(preq)[i] = preq[i + 1]
           /\ preq[i + 1] # h /\ preq[i + 1] \in VMs /\ tpc[preq[i + 1]] = "pre"
    BY <1>9, <2>1, TailFacts DEF StartFails
  <2>3. PreqWaiting'
    <3>1. preq' = Tail(preq) /\ \A x \in VMs : x # h => tpc'[x] = tpc[x]
      BY <1>9, <2>1 DEF StartFails
    <3>2. ASSUME NEW i \in DOMAIN preq' PROVE tpc'[preq'[i]] = "pre"
      <4>1. i \in DOMAIN Tail(preq) /\ preq'[i] = preq[i + 1]
        BY <2>2, <3>1
      <4> DEFINE x == preq[i + 1]
      <4>2. x \in VMs /\ x # h /\ tpc[x] = "pre"
        BY <2>2, <4>1
      <4> HIDE DEF x, h
      <4>3. tpc'[x] = "pre"
        BY <3>1, <4>2
      <4> QED
        BY <4>1, <4>3 DEF x
    <3>3. \A i, j \in DOMAIN preq' : preq'[i] = preq'[j] => i = j
      BY <1>9, <2>2, <3>1, TailFacts DEF StartFails
    <3> QED
      BY <3>2, <3>3
  <2>4. LockOwned' /\ StartedInRunq' /\ RunqStarted'
    <3>1. LockOwned'
      BY <1>9, <2>1 DEF StartFails
    <3>2. StartedInRunq'
      BY <1>9, <2>1 DEF StartFails
    <3>3. RunqStarted'
      BY <1>9, <2>1 DEF StartFails
    <3> QED
      BY <3>1, <3>2, <3>3
  <2>5. LockedByIdle' /\ ExitIsOver'
    BY <1>9, <2>1 DEF StartFails, WorldStopped
  <2> QED
    BY <2>3, <2>4, <2>5
<1>10. CASE CountThread
  <2>1. LockOwned' /\ StartedInRunq' /\ RunqStarted' /\ PreqWaiting'
    BY <1>10 DEF CountThread
  <2>2. LockedByIdle' /\ ExitIsOver'
    BY <1>10 DEF CountThread, WorldStopped
  <2> QED
    BY <2>1, <2>2
<1>11. CASE Drained
  BY <1>11 DEF Drained, WorldStopped
<1>12. CASE ExitCheck
  BY <1>12 DEF ExitCheck, WorldStopped
<1>13. CASE IdleReturns
  BY <1>13 DEF IdleReturns, WorldStopped
<1>14. CASE WorkDue
  BY <1>14 DEF WorkDue, WorldStopped
<1>15. CASE NoWork
  BY <1>15 DEF NoWork, WorldStopped
<1>16. CASE WorkLocked
  BY <1>16 DEF WorkLocked, WorldStopped
<1>17. CASE PopIdleWork
  <2> DEFINE h == Head(workq)
  <2>1. h \in VMs /\ h \in {workq[i] : i \in DOMAIN workq}
    BY <1>17, TailFacts DEF PopIdleWork
  <2>2. tpc[h] = "inwork"
    BY <2>1 DEF WorkCounted
  <2> HIDE DEF h
  <2>3. tpc' = [tpc EXCEPT ![h] = "signalled"]
    BY <1>17 DEF PopIdleWork, h
  <2>4. LockOwned' /\ PreqWaiting'
    <3>1. LockOwned'
      BY <1>17, <2>1, <2>2, <2>3 DEF PopIdleWork
    <3>2. PreqWaiting'
      BY <1>17, <2>1, <2>2, <2>3 DEF PopIdleWork
    <3> QED
      BY <3>1, <3>2
  <2>5. StartedInRunq' /\ RunqStarted'
    BY <1>17, <2>1, <2>2, <2>3 DEF PopIdleWork
  <2>6. LockedByIdle' /\ ExitIsOver'
    BY <1>17, <2>1, <2>2, <2>3 DEF PopIdleWork, WorldStopped
  <2> QED
    BY <2>4, <2>5, <2>6
<1>18. ASSUME NEW t \in VMs, builtin_exit(t) PROVE LockPart'
  BY <1>18 DEF builtin_exit, Running, WorldStopped
<1>19. CASE WorkContinue
  BY <1>19 DEF WorkContinue, WorldStopped
<1>20. ASSUME NEW t \in VMs, ThreadBegin(t) PROVE LockPart'
  BY <1>20 DEF ThreadBegin, LockOwn, WorldStopped
<1>21. ASSUME NEW t \in VMs, Compute(t) PROVE LockPart'
  BY <1>21 DEF Compute, Running, WorldStopped
<1>22. ASSUME NEW t \in VMs, CheckPoint(t) PROVE LockPart'
  <2>1. tpc[t] = "check" /\ UNCHANGED <<vmState, idleVars, queueVars>>
    BY <1>22 DEF CheckPoint
  <2>2. CASE tpc' = [tpc EXCEPT ![t] = "spin"] /\ lock' = [lock EXCEPT ![t] = Free]
    BY <1>22, <2>1, <2>2 DEF WorldStopped
  <2>3. CASE tpc' = [tpc EXCEPT ![t] = "run"] /\ lock' = lock
    BY <1>22, <2>1, <2>3 DEF WorldStopped
  <2> QED
    BY <1>22, <2>2, <2>3 DEF CheckPoint
<1>23. ASSUME NEW t \in VMs, SpinEnds(t) PROVE LockPart'
  BY <1>23 DEF SpinEnds, WorldStopped
<1>24. ASSUME NEW t \in VMs, Relock(t) PROVE LockPart'
  BY <1>24 DEF Relock, LockOwn, WorldStopped
<1>25. ASSUME NEW t \in VMs, Block(t) PROVE LockPart'
  BY <1>25 DEF Block, Running, WorldStopped
<1>26. ASSUME NEW t \in VMs, Unblock(t) PROVE LockPart'
  BY <1>26 DEF Unblock, LockOwn, WorldStopped
<1>27. ASSUME NEW t \in VMs, QueueWork(t) PROVE LockPart'
  BY <1>27 DEF QueueWork, Running, WorldStopped
<1>28. ASSUME NEW t \in VMs, PushIdleWork(t) PROVE LockPart'
  BY <1>28 DEF PushIdleWork, WorldStopped
<1>29. ASSUME NEW t \in VMs, WorkReturns(t) PROVE LockPart'
  BY <1>29 DEF WorkReturns, WorldStopped
<1>30. ASSUME NEW t \in VMs, WorkRelock(t) PROVE LockPart'
  BY <1>30 DEF WorkRelock, LockOwn, WorldStopped
<1>31. ASSUME NEW t \in VMs, builtin_atexit(t) PROVE LockPart'
  BY <1>31 DEF builtin_atexit, Running, WorldStopped
<1>32. ASSUME NEW t \in VMs, RunReturns(t) PROVE LockPart'
  <2>1. /\ tpc[t] = "run" /\ tpc' = [tpc EXCEPT ![t] = "atexit"]
        /\ vmState' = [vmState EXCEPT ![t] = "READY"]
        /\ UNCHANGED <<lock, ipc, starting, preq, runq, todo>>
    BY <1>32 DEF RunReturns
  <2>2. LockOwned' /\ StartedInRunq' /\ PreqWaiting'
    BY <2>1
  <2>3. RunqStarted' /\ LockedByIdle'
    BY <2>1 DEF WorldStopped
  <2>4. ExitIsOver'
    BY <2>1
  <2> QED
    BY <2>2, <2>3, <2>4
<1>33. ASSUME NEW t \in VMs, AtExitHandler(t) PROVE LockPart'
  BY <1>33 DEF AtExitHandler, WorldStopped
<1>34. ASSUME NEW t \in VMs, ThreadEnds(t) PROVE LockPart'
  BY <1>34 DEF ThreadEnds, WorldStopped
<1>35. ASSUME NEW t \in VMs, ThreadUnlocks(t) PROVE LockPart'
  BY <1>35 DEF ThreadUnlocks, WorldStopped
<1>36. ASSUME NEW t \in VMs, TryLock(t) PROVE LockPart'
  BY <1>36 DEF TryLock, WorldStopped
<1>37. ASSUME NEW t \in VMs, GcJoin(t) PROVE LockPart'
  BY <1>37 DEF GcJoin, Joinable, WorldStopped
<1>38. ASSUME NEW t \in VMs, FinalJoin(t) PROVE LockPart'
  BY <1>38 DEF FinalJoin, WorldStopped
<1>39. ASSUME NEW t \in VMs, NEW u \in VMs, builtin_go(t, u)
      PROVE  LockPart'
  <2>1. t # u /\ ipc # "count" /\ u \notin runq
    BY <1>39 DEF builtin_go, Running, HoldsPreRunningLock
  <2>2. \A i \in DOMAIN preq : preq[i] # u /\ preq[i] # t
    BY <1>39 DEF builtin_go, Running
  <2>3. PreqWaiting'
    BY <1>39, <2>1, <2>2, AppendFacts DEF builtin_go, Running
  <2>4. /\ tpc' = [tpc EXCEPT ![t] = "check", ![u] = "pre"]
        /\ vmState' = [vmState EXCEPT ![u] = "READY"]
        /\ tpc[t] = "run" /\ tpc[u] = "none"
        /\ UNCHANGED <<lock, ipc, starting, runq, todo>>
    BY <1>39 DEF builtin_go, Running
  <2>5. LockOwned' /\ StartedInRunq' /\ RunqStarted'
    <3>1. LockOwned'
      BY <2>1, <2>4
    <3>2. StartedInRunq'
      BY <2>1, <2>4
    <3>3. RunqStarted'
      BY <2>1, <2>4
    <3> QED
      BY <3>1, <3>2, <3>3
  <2>6. LockedByIdle'
    BY <2>4 DEF WorldStopped
  <2>7. ExitIsOver'
    <3>1. tpc'[t] = "check" /\ vmState'[t] = "READY" /\ vmState'[u] = "READY"
      BY <1>39, <2>1, <2>4 DEF builtin_go, Running
    <3>2. \A x \in VMs \ {t, u} : tpc'[x] = tpc[x] /\ vmState'[x] = vmState[x]
      BY <2>4
    <3>3. runq' = runq
      BY <2>4
    <3>4. ExitIsOver
      OBVIOUS
    <3> HIDE DEF IndInv, LockPart, TypeOK, LockOwned, StartedInRunq,
                 RunqStarted, LockedByIdle, PreqWaiting
    <3> QED
      BY <3>1, <3>2, <3>3, <3>4
  <2> QED
    BY <2>3, <2>5, <2>6, <2>7
<1>40. ASSUME NEW t \in VMs, NEW u \in VMs, GoFails(t, u)
      PROVE  LockPart'
  <2>1. t # u /\ u \notin runq /\ (ipc = "count" => u # starting)
    BY <1>40 DEF GoFails, Running
  <2>2. PreqWaiting'
    BY <1>40, <2>1 DEF GoFails, Running
  <2>3. LockOwned' /\ StartedInRunq' /\ RunqStarted'
    <3>1. LockOwned'
      BY <1>40, <2>1 DEF GoFails, Running
    <3>2. StartedInRunq'
      BY <1>40, <2>1 DEF GoFails, Running
    <3>3. RunqStarted'
      BY <1>40, <2>1 DEF GoFails, Running
    <3> QED
      BY <3>1, <3>2, <3>3
  <2>4. LockedByIdle'
    BY <1>40, <2>1 DEF GoFails, Running, WorldStopped
  <2>5. ExitIsOver'
    BY <1>40, <2>1 DEF GoFails, Running
  <2> QED
    BY <2>2, <2>3, <2>4, <2>5
<1>41. CASE UNCHANGED vars
  BY <1>41 DEF vars, WorldStopped
<1> HIDE DEF IndInv, LockPart
<1> QED
  BY <1>1, <1>2, <1>3, <1>4, <1>5, <1>6, <1>7, <1>8, <1>9, <1>10, <1>11,
     <1>12, <1>13, <1>14, <1>15, <1>16, <1>17, <1>18, <1>19, <1>20, <1>21,
     <1>22, <1>23, <1>24, <1>25, <1>26, <1>27, <1>28, <1>29, <1>30, <1>31,
     <1>32, <1>33, <1>34, <1>35, <1>36, <1>37, <1>38, <1>39, <1>40, <1>41 DEF
     Next, IdleStep, ThreadStep, Terminated, Hangs

-----------------------------------------------------------------------------
(* The work queue. *)

\* A step that leaves the work queue alone and moves no thread to or from
\* the wait for its work keeps WorkCounted.
LEMMA WorkQuiet ==
  ASSUME WorkCounted, UNCHANGED workVars,
         \A x \in VMs : tpc'[x] = "inwork" <=> tpc[x] = "inwork"
  PROVE  WorkCounted'
<1>1. {x \in VMs : tpc'[x] = "inwork"} = {x \in VMs : tpc[x] = "inwork"}
  OBVIOUS
<1> QED
  BY <1>1 DEF WorkCounted, workVars

\* Every action keeps work_num, the queue and the waiting threads in step.
LEMMA WorkStep == IndInv /\ [Next]_vars => WorkCounted'
<1> SUFFICES ASSUME IndInv, [Next]_vars
             PROVE  WorkCounted'
  OBVIOUS
<1>0. TypeOK /\ WorkCounted /\ PreqWaiting
  BY DEF IndInv
<1>1. CASE \/ GcDue \/ GcNotDue \/ GcStw \/ GcLocked
            \/ GcCollect \/ GcRelease \/ GcContinue \/ CountThread
            \/ Drained \/ ExitCheck \/ IdleReturns \/ WorkDue
            \/ NoWork \/ WorkLocked \/ WorkContinue
            \/ \E t \in VMs : TryLock(t) \/ GcJoin(t) \/ FinalJoin(t)
  <2>1. UNCHANGED <<tpc, workVars>>
    BY <1>1 DEF GcDue, GcNotDue, GcStw, GcLocked, GcCollect, GcRelease,
       GcContinue, CountThread, Drained, ExitCheck, IdleReturns, WorkDue,
       NoWork, WorkLocked, WorkContinue, TryLock, GcJoin,
       FinalJoin, threadVars
  <2> QED
    BY <1>0, <2>1, WorkQuiet
<1>2. CASE StartThread
  <2>1. Head(preq) \in VMs /\ tpc[Head(preq)] = "pre"
    BY <1>0, <1>2, TailFacts DEF TypeOK, PreqWaiting, StartThread
  <2>2. \A x \in VMs : tpc'[x] = "inwork" <=> tpc[x] = "inwork"
    BY <1>0, <1>2, <2>1 DEF TypeOK, StartThread, Goto
  <2> QED
    BY <1>0, <1>2, <2>2, WorkQuiet DEF StartThread
<1>3. CASE StartFails
  <2>1. Head(preq) \in VMs /\ tpc[Head(preq)] = "pre"
    BY <1>0, <1>3, TailFacts DEF TypeOK, PreqWaiting, StartFails
  <2>2. \A x \in VMs : tpc'[x] = "inwork" <=> tpc[x] = "inwork"
    BY <1>0, <1>3, <2>1 DEF TypeOK, StartFails, Goto
  <2> QED
    BY <1>0, <1>3, <2>2, WorkQuiet DEF StartFails
<1>4. ASSUME NEW t \in VMs,
             \/ ThreadBegin(t) \/ Compute(t) \/ CheckPoint(t) \/ SpinEnds(t)
             \/ Relock(t) \/ Block(t) \/ Unblock(t) \/ QueueWork(t)
             \/ WorkReturns(t) \/ WorkRelock(t) \/ builtin_atexit(t)
             \/ builtin_exit(t) \/ RunReturns(t)
             \/ AtExitHandler(t) \/ ThreadEnds(t) \/ ThreadUnlocks(t)
             \/ \E u \in VMs : builtin_go(t, u) \/ GoFails(t, u)
      PROVE  WorkCounted'
  <2>1. \A x \in VMs : tpc'[x] = "inwork" <=> tpc[x] = "inwork"
    BY <1>0, <1>4 DEF TypeOK, Goto, Running, ThreadBegin, Compute, CheckPoint,
       SpinEnds, Relock, Block, Unblock, QueueWork, WorkReturns, WorkRelock,
       builtin_atexit, builtin_exit, RunReturns, AtExitHandler, ThreadEnds,
       ThreadUnlocks, builtin_go, GoFails
  <2>2. UNCHANGED workVars
    BY <1>4 DEF ThreadBegin, Compute, CheckPoint, SpinEnds, Relock, Block,
       Unblock, QueueWork, WorkReturns, WorkRelock, builtin_atexit,
       builtin_exit, RunReturns, AtExitHandler, ThreadEnds, ThreadUnlocks,
       builtin_go, GoFails
  <2> QED
    BY <1>0, <2>1, <2>2, WorkQuiet
<1>5. ASSUME NEW t \in VMs, PushIdleWork(t)
      PROVE  WorkCounted'
  <2>1. /\ workq' = Append(workq, t) /\ workNum' = workNum + 1
        /\ tpc[t] = "wantwork" /\ tpc' = [tpc EXCEPT ![t] = "inwork"]
    BY <1>5 DEF PushIdleWork, Goto
  <2>2. \A i \in DOMAIN workq : workq[i] # t
    BY <1>0, <2>1 DEF WorkCounted
  <2>3. workNum' = Len(workq')
    BY <1>0, <1>5, <2>1, AppendFacts DEF TypeOK, WorkCounted
  <2>4. {workq'[i] : i \in DOMAIN workq'} = {workq[i] : i \in DOMAIN workq} \cup {t}
    BY <1>0, <1>5, <2>1, AppendFacts DEF TypeOK
  <2>5. {x \in VMs : tpc'[x] = "inwork"} = {x \in VMs : tpc[x] = "inwork"} \cup {t}
    BY <1>0, <1>5, <2>1 DEF TypeOK
  <2>6. \A i, j \in DOMAIN workq' : workq'[i] = workq'[j] => i = j
    BY <1>0, <1>5, <2>1, <2>2, AppendFacts DEF TypeOK, WorkCounted
  <2> QED
    BY <1>0, <2>3, <2>4, <2>5, <2>6 DEF WorkCounted
<1>6. CASE PopIdleWork
  <2> DEFINE h == Head(workq)
  <2>1. /\ workq # <<>> /\ workq \in Seq(VMs)
        /\ workq' = Tail(workq) /\ workNum' = workNum - 1
        /\ tpc' = [tpc EXCEPT ![h] = "signalled"]
    BY <1>0, <1>6 DEF PopIdleWork, Goto, TypeOK
  <2>2. /\ 1 \in DOMAIN workq /\ h = workq[1] /\ h \in VMs
        /\ DOMAIN workq \subseteq Int /\ DOMAIN workq' \subseteq Int
        /\ \A i \in DOMAIN workq' :
              i # 0 /\ i + 1 \in DOMAIN workq /\ workq'[i] = workq[i + 1]
        /\ \A i \in DOMAIN workq :
              i # 1 => i - 1 \in DOMAIN workq' /\ workq'[i - 1] = workq[i]
    BY <2>1, TailFacts
  <2>3. workNum' = Len(workq')
    BY <1>0, <2>1, TailFacts DEF WorkCounted
  <2> HIDE DEF h
  <2>4. \A i \in DOMAIN workq' : workq'[i] # h
    BY <1>0, <2>2 DEF WorkCounted
  <2>5. {workq'[i] : i \in DOMAIN workq'} = {workq[i] : i \in DOMAIN workq} \ {h}
    <3>1. ASSUME NEW x \in {workq'[i] : i \in DOMAIN workq'}
          PROVE  x \in {workq[i] : i \in DOMAIN workq} \ {h}
      BY <2>2, <2>4, <3>1
    <3>2. ASSUME NEW x \in {workq[i] : i \in DOMAIN workq} \ {h}
          PROVE  x \in {workq'[i] : i \in DOMAIN workq'}
      <4>1. PICK i \in DOMAIN workq : x = workq[i] /\ i # 1
        BY <2>2
      <4> QED
        BY <2>2, <4>1
    <3> QED
      BY <3>1, <3>2
  <2>6. {x \in VMs : tpc'[x] = "inwork"} = {x \in VMs : tpc[x] = "inwork"} \ {h}
    BY <1>0, <2>1, <2>2 DEF TypeOK
  <2>7. \A i, j \in DOMAIN workq' : workq'[i] = workq'[j] => i = j
    BY <1>0, <2>2 DEF WorkCounted
  <2> QED
    BY <1>0, <2>3, <2>5, <2>6, <2>7 DEF WorkCounted
<1>7. CASE UNCHANGED vars
  BY <1>0, <1>7, WorkQuiet DEF vars, threadVars
<1> QED
  BY <1>1, <1>2, <1>3, <1>4, <1>5, <1>6, <1>7 DEF Next, IdleStep, ThreadStep,
     Terminated, Hangs

-----------------------------------------------------------------------------
(* The number of running threads. *)

CountPart == RunningCountExact /\ NoneAlive

LEMMA AliveFinite == IsFiniteSet(Alive)
<1>1. Alive \in SUBSET VMs
  BY DEF Alive
<1> QED
  BY <1>1, VMsAssumption, FS_Subset

\* A step that starts and ends no thread and does not pass the exit check
\* keeps the count exact.
LEMMA CountQuiet ==
  ASSUME CountPart, runningCount' = runningCount,
         \A x \in VMs : tpc'[x] \in Dormant \cup {"ending", "done"}
                           <=> tpc[x] \in Dormant \cup {"ending", "done"},
         ipc' = "count" <=> ipc = "count",
         ipc' \in {"finaljoin", "returned"} => ipc \in {"finaljoin", "returned"},
         ipc' = "returned" => runq' = {}
  PROVE  CountPart'
<1>1. Alive' = Alive
  BY DEF Alive
<1> QED
  BY <1>1 DEF CountPart, RunningCountExact, NoneAlive

\* Every action keeps running_count exact.
LEMMA CountStep == IndInv /\ [Next]_vars => CountPart'
<1> SUFFICES ASSUME IndInv, [Next]_vars
             PROVE  CountPart'
  OBVIOUS
<1>0. TypeOK /\ WorkCounted /\ PreqWaiting /\ CountPart
  BY DEF IndInv, CountPart
<1>1. CASE \/ GcDue \/ GcNotDue \/ GcStw \/ GcLocked
            \/ GcRelease \/ GcContinue \/ Drained \/ IdleReturns
            \/ WorkDue \/ NoWork \/ WorkLocked
            \/ WorkContinue
            \/ \E t \in VMs : TryLock(t) \/ GcJoin(t) \/ FinalJoin(t)
  <2>1. /\ UNCHANGED <<tpc, runningCount>>
        /\ ipc' = "count" <=> ipc = "count"
        /\ ipc' \in {"finaljoin", "returned"} => ipc \in {"finaljoin", "returned"}
        /\ ipc' = "returned" => runq' = {}
    BY <1>0, <1>1 DEF GcDue, GcNotDue, GcStw, GcLocked, GcRelease, GcContinue,
       Drained, IdleReturns, WorkDue, NoWork, WorkLocked,
       WorkContinue, TryLock, GcJoin, FinalJoin, threadVars, queueVars,
       idleVars
  <2> QED
    BY <1>0, <2>1, CountQuiet
<1>2. CASE GcCollect
  <2>1. UNCHANGED <<tpc, runningCount>> /\ ipc = "collect" /\ ipc' \in {"join", "collect"}
    BY <1>2 DEF GcCollect, threadVars, queueVars
  <2> QED
    BY <1>0, <2>1, CountQuiet
<1>3. CASE StartThread
  <2> DEFINE h == Head(preq)
  <2>1. h \in VMs /\ tpc[h] = "pre"
    BY <1>0, <1>3, TailFacts DEF TypeOK, PreqWaiting, StartThread
  <2>2. Alive' = Alive \cup {h} /\ h \notin Alive
    BY <1>0, <1>3, <2>1 DEF TypeOK, Alive, Dormant, StartThread, Goto
  <2>3. Cardinality(Alive') = Cardinality(Alive) + 1 /\ Cardinality(Alive) \in Nat
    BY <2>2, AliveFinite, FS_AddElement, FS_CardinalityType
  <2>4. ipc = "drain" /\ ipc' = "count" /\ runningCount' = runningCount
    BY <1>3 DEF StartThread
  <2> QED
    BY <1>0, <2>3, <2>4 DEF CountPart, RunningCountExact, NoneAlive, TypeOK
<1>4. CASE StartFails
  <2>1. Head(preq) \in VMs /\ tpc[Head(preq)] = "pre"
    BY <1>0, <1>4, TailFacts DEF TypeOK, PreqWaiting, StartFails
  <2>2. \A x \in VMs : tpc'[x] \in Dormant \cup {"ending", "done"}
                          <=> tpc[x] \in Dormant \cup {"ending", "done"}
    BY <1>0, <1>4, <2>1 DEF TypeOK, Dormant, StartFails, Goto
  <2> QED
    BY <1>0, <1>4, <2>2, CountQuiet DEF StartFails, idleVars
<1>5. CASE CountThread
  <2>1. /\ Alive' = Alive /\ ipc = "count" /\ ipc' = "drain"
        /\ runningCount' = runningCount + 1
    BY <1>5 DEF CountThread, Alive, threadVars
  <2>2. Cardinality(Alive) \in Nat
    BY AliveFinite, FS_CardinalityType
  <2> QED
    BY <1>0, <2>1, <2>2 DEF CountPart, RunningCountExact, NoneAlive
<1>6. CASE ExitCheck
  <2>1. /\ Alive' = Alive /\ ipc = "exitcheck" /\ runningCount' = runningCount
        /\ ipc' = IF runningCount = 0 THEN "finaljoin" ELSE "work"
    BY <1>6 DEF ExitCheck, Alive, threadVars, queueVars
  <2>2. runningCount = Cardinality(Alive)
    BY <1>0, <2>1, AliveFinite, FS_CardinalityType DEF CountPart, RunningCountExact
  <2>3. runningCount = 0 => Alive = {}
    BY <2>2, AliveFinite, FS_EmptySet
  <2> QED
    BY <2>1, <2>2, <2>3, AliveFinite, FS_CardinalityType
    DEF CountPart, RunningCountExact, NoneAlive
<1>7. CASE PopIdleWork
  <2>1. Head(workq) \in VMs /\ Head(workq) \in {workq[i] : i \in DOMAIN workq}
    BY <1>0, <1>7, TailFacts DEF TypeOK, PopIdleWork
  <2>2. tpc[Head(workq)] = "inwork"
    BY <1>0, <2>1 DEF WorkCounted
  <2>3. \A x \in VMs : tpc'[x] \in Dormant \cup {"ending", "done"}
                          <=> tpc[x] \in Dormant \cup {"ending", "done"}
    BY <1>0, <1>7, <2>1, <2>2 DEF TypeOK, Dormant, PopIdleWork, Goto
  <2> QED
    BY <1>0, <1>7, <2>3, CountQuiet DEF PopIdleWork, queueVars, idleVars
<1>8. ASSUME NEW t \in VMs, ThreadEnds(t)
      PROVE  CountPart'
  <2>1. Alive' = Alive \ {t} /\ t \in Alive
    BY <1>0, <1>8 DEF TypeOK, Alive, Dormant, ThreadEnds, Goto
  <2>2. Cardinality(Alive') = Cardinality(Alive) - 1 /\ Cardinality(Alive) \in Nat
    BY <2>1, AliveFinite, FS_RemoveElement, FS_CardinalityType
  <2>3. ipc' = ipc /\ runningCount' = runningCount - 1 /\ runq' = runq
    BY <1>8 DEF ThreadEnds, idleVars
  <2> QED
    BY <1>0, <2>1, <2>2, <2>3 DEF CountPart, RunningCountExact, NoneAlive
<1>9. ASSUME NEW t \in VMs,
             \/ ThreadBegin(t) \/ Compute(t) \/ CheckPoint(t) \/ SpinEnds(t)
             \/ Relock(t)
      PROVE  CountPart'
  <2>1. \A x \in VMs : tpc'[x] \in Dormant \cup {"ending", "done"}
                          <=> tpc[x] \in Dormant \cup {"ending", "done"}
    BY <1>0, <1>9 DEF TypeOK, Goto, Dormant, Running, ThreadBegin, Compute,
       CheckPoint, SpinEnds, Relock
  <2>2. ipc' = ipc /\ runningCount' = runningCount /\ runq' = runq
    BY <1>9 DEF idleVars, queueVars, ThreadBegin, Compute, CheckPoint,
       SpinEnds, Relock
  <2> QED
    BY <1>0, <2>1, <2>2, CountQuiet DEF CountPart, NoneAlive
<1>10. ASSUME NEW t \in VMs,
             \/ Block(t) \/ Unblock(t) \/ QueueWork(t) \/ PushIdleWork(t)
             \/ WorkReturns(t)
      PROVE  CountPart'
  <2>1. \A x \in VMs : tpc'[x] \in Dormant \cup {"ending", "done"}
                          <=> tpc[x] \in Dormant \cup {"ending", "done"}
    BY <1>0, <1>10 DEF TypeOK, Goto, Dormant, Running, Block, Unblock,
       QueueWork, PushIdleWork, WorkReturns
  <2>2. ipc' = ipc /\ runningCount' = runningCount /\ runq' = runq
    BY <1>10 DEF idleVars, queueVars, Block, Unblock, QueueWork, PushIdleWork,
       WorkReturns
  <2> QED
    BY <1>0, <2>1, <2>2, CountQuiet DEF CountPart, NoneAlive
<1>11. ASSUME NEW t \in VMs,
             \/ WorkRelock(t) \/ builtin_atexit(t)
             \/ builtin_exit(t) \/ RunReturns(t) \/ AtExitHandler(t)
             \/ ThreadUnlocks(t)
             \/ \E u \in VMs : builtin_go(t, u) \/ GoFails(t, u)
      PROVE  CountPart'
  <2>1. \A x \in VMs : tpc'[x] \in Dormant \cup {"ending", "done"}
                          <=> tpc[x] \in Dormant \cup {"ending", "done"}
    BY <1>0, <1>11 DEF TypeOK, Goto, Dormant, Running, WorkRelock,
       builtin_atexit, builtin_exit, RunReturns, AtExitHandler, ThreadUnlocks,
       builtin_go, GoFails
  <2>2. ipc' = ipc /\ runningCount' = runningCount /\ runq' = runq
    BY <1>11 DEF idleVars, queueVars, WorkRelock, builtin_atexit, builtin_exit,
       RunReturns, AtExitHandler, ThreadUnlocks, builtin_go, GoFails
  <2> QED
    BY <1>0, <2>1, <2>2, CountQuiet DEF CountPart, NoneAlive
<1>12. CASE UNCHANGED vars
  BY <1>0, <1>12, CountQuiet
  DEF vars, threadVars, queueVars, idleVars, CountPart, NoneAlive
<1> QED
  BY <1>1, <1>2, <1>3, <1>4, <1>5, <1>6, <1>7, <1>8, <1>9, <1>10, <1>11, <1>12
     DEF Next, IdleStep, ThreadStep, Terminated, Hangs

-----------------------------------------------------------------------------
(* The theorems. *)

LEMMA IndInit == Init => IndInv
<1> SUFFICES ASSUME Init
             PROVE  IndInv
  OBVIOUS
<1> USE VMsAssumption, MaxAtExitAssumption
<1>1. TypeOK
  <2>1. preq \in Seq(VMs) /\ workq \in Seq(VMs)
    BY DEF Init
  <2>2. tpc \in [VMs -> ThreadPC] /\ ipc \in IdlePC
    BY DEF Init, ThreadPC, IdlePC
  <2>3. vmState \in [VMs -> {"none", "READY", "EXIT", "EXIT_CALLED", "released"}]
    BY DEF Init
  <2>4. lock \in [VMs -> Owner] /\ atexit \in [VMs -> 0 .. MaxAtExit]
    BY DEF Init, Owner, Free
  <2>5. notice \in [VMs -> BOOLEAN] /\ exiting \in [VMs -> BOOLEAN]
    BY DEF Init
  <2>6. full \in BOOLEAN
    BY DEF Init
  <2>7. gcState \in {"NONE", "STW", "MARK_ROOT", "PROPAGATE", "COLLECT",
                     "SWEEPING", "DONE"}
    BY DEF Init
  <2>8. runq \subseteq VMs /\ todo \subseteq VMs /\ starting \in VMs
    BY DEF Init
  <2>9. runningCount \in Int /\ workNum \in Int
    BY DEF Init
  <2> QED
    BY <2>1, <2>2, <2>3, <2>4, <2>5, <2>6, <2>7, <2>8, <2>9 DEF TypeOK
<1>2. LockPart
  BY DEF Init, LockPart, LockOwned, StartedInRunq, RunqStarted, LockedByIdle,
         PreqWaiting, ExitIsOver, WorldStopped, Executing, Dormant, Free
<1>3. WorkCounted
  BY DEF Init, WorkCounted
<1>4. Alive = {}
  BY DEF Init, Alive, Dormant
<1>5. RunningCountExact /\ NoneAlive
  BY <1>4, FS_EmptySet DEF Init, RunningCountExact, NoneAlive
<1> QED
  BY <1>1, <1>2, <1>3, <1>5 DEF IndInv, LockPart

LEMMA IndStep == IndInv /\ [Next]_vars => IndInv'
  BY TypeStep, LockStep, WorkStep, CountStep
  DEF IndInv, LockPart, CountPart

\* The invariant the other theorems rest on: IndInv is inductive.
THEOREM Invariance == Spec => []IndInv
  BY IndInit, IndStep, PTL DEF Spec

\* Every variable keeps its type.
THEOREM TypeCorrect == Spec => []TypeOK
<1>1. IndInv => TypeOK
  BY DEF IndInv
<1> QED
  BY <1>1, Invariance, PTL

\* Stop-the-world is exclusive for any number of threads: while the idle
\* thread collects or runs queued work no thread executes code of its VM.
THEOREM WorldIsStopped == Spec => []StoppedMeansStopped
<1>1. IndInv => StoppedMeansStopped
  BY DEF IndInv, StoppedMeansStopped, WorldStopped, LockOwned, StartedInRunq,
         LockedByIdle, Executing, Dormant
<1> QED
  BY <1>1, Invariance, PTL

\* A thread that is on running_q while the collector joins does not execute,
\* and if its VM is in state EXIT it is over or called exit.
LEMMA JoinedThread ==
  ASSUME IndInv, ipc = "join", NEW t \in Joinable
  PROVE  /\ t \in VMs /\ lock[t] = "idle"
         /\ tpc[t] \notin Executing \cup Dormant
         /\ tpc[t] = "done" \/ vmState[t] = "EXIT_CALLED"
<1>1. t \in runq /\ t \in VMs /\ Exited(t)
  BY DEF IndInv, TypeOK, Joinable
<1>2. lock[t] = "idle"
  BY <1>1 DEF IndInv, LockedByIdle, WorldStopped
<1>3. tpc[t] \notin Executing \cup Dormant
  BY <1>1, <1>2 DEF IndInv, LockOwned, RunqStarted
<1>4. vmState[t] = "EXIT" => tpc[t] = "done"
  BY <1>1, <1>3 DEF IndInv, ExitIsOver, Executing, Dormant
<1> QED
  BY <1>1, <1>2, <1>3, <1>4 DEF Exited

\* The collector, holding every VM lock, joins finished threads only, but for
\* those that called exit and still have to take their lock.
THEOREM JoinIsSafe == Spec => []JoinsOnlyFinished
<1>1. IndInv => JoinsOnlyFinished
  BY JoinedThread DEF JoinsOnlyFinished
<1> QED
  BY <1>1, Invariance, PTL

\* The exception is a deadlock, and not a wait: no step of any thread ends
\* the join of a thread that is not over, because that thread needs its VM
\* lock to end and the idle thread keeps it until the join is through.
THEOREM JoinHangs == Spec => HangIsForGood
<1>1. ASSUME IndInv, [Next]_vars, Wedged
      PROVE  Wedged'
  <2>1. PICK t \in Joinable : ipc = "join" /\ tpc[t] # "done"
    BY <1>1 DEF Wedged
  <2>2. /\ t \in runq /\ t \in VMs /\ Exited(t) /\ lock[t] = "idle"
        /\ tpc[t] \notin Executing \cup Dormant \cup {"done"}
        /\ Joinable # {}
    BY <1>1, <2>1, JoinedThread DEF Joinable
  <2>3. SUFFICES ipc' = "join" /\ t \in runq' /\ vmState'[t] = vmState[t]
                 /\ tpc'[t] # "done"
    BY <2>2 DEF Wedged, Joinable, Exited
  <2> USE DEF Executing, Dormant, TypeOK, Goto, Free
  <2>4. TypeOK
    BY <1>1 DEF IndInv
  <2>5. CASE IdleStep
    <3>1. PICK u \in VMs : GcJoin(u)
      BY <2>1, <2>2, <2>5 DEF IdleStep, GcDue, GcNotDue, GcStw, GcLocked,
         GcCollect, GcRelease, GcContinue, StartThread, StartFails,
         CountThread, Drained, ExitCheck, IdleReturns, WorkDue, NoWork,
         WorkLocked, PopIdleWork, WorkContinue, FinalJoin
    <3> QED
      BY <2>1, <2>2, <3>1 DEF GcJoin, threadVars, idleVars
  <2>6. ASSUME NEW u \in VMs, ThreadStep(u)
        PROVE  ipc' = "join" /\ t \in runq' /\ vmState'[t] = vmState[t]
               /\ tpc'[t] # "done"
    <3>1. ipc' = ipc /\ runq' = runq
      BY <2>6 DEF ThreadStep, ThreadBegin, Compute, builtin_go, GoFails,
         CheckPoint, SpinEnds, Relock, Block, QueueWork, PushIdleWork,
         WorkReturns, WorkRelock, builtin_atexit, builtin_exit, RunReturns,
         AtExitHandler, ThreadEnds, ThreadUnlocks, idleVars, queueVars
    <3>2. vmState'[t] = vmState[t]
      BY <2>2, <2>4, <2>6 DEF ThreadStep, ThreadBegin, Compute, builtin_go,
         GoFails, CheckPoint, SpinEnds, Relock, Block, QueueWork,
         PushIdleWork, WorkReturns, WorkRelock, builtin_atexit, builtin_exit,
         RunReturns, AtExitHandler, ThreadEnds, ThreadUnlocks, Running
    <3>3. tpc'[t] # "done"
      BY <2>2, <2>4, <2>6 DEF ThreadStep, ThreadBegin, Compute, builtin_go,
         GoFails, CheckPoint, SpinEnds, Relock, Block, QueueWork,
         PushIdleWork, WorkReturns, WorkRelock, builtin_atexit, builtin_exit,
         RunReturns, AtExitHandler, ThreadEnds, ThreadUnlocks, Running
    <3> QED
      BY <2>1, <2>2, <3>1, <3>2, <3>3
  <2>7. ASSUME NEW u \in VMs, TryLock(u) \/ Unblock(u)
        PROVE  ipc' = "join" /\ t \in runq' /\ vmState'[t] = vmState[t]
               /\ tpc'[t] # "done"
    BY <2>1, <2>2, <2>4, <2>7 DEF TryLock, Unblock, LockOwn, idleVars,
       queueVars, threadVars
  <2>8. CASE UNCHANGED vars
    BY <2>1, <2>2, <2>8 DEF vars, threadVars, idleVars, queueVars
  <2> QED
    BY <1>1, <2>5, <2>6, <2>7, <2>8 DEF Next, Terminated, Hangs
<1> QED
  BY <1>1, Invariance, PTL DEF HangIsForGood, Spec

\* A VM whose memory was released is used by no thread and in no queue.
THEOREM ReleaseIsSafe == Spec => []ReleasedIsUnused
<1>1. ASSUME IndInv, NEW t \in VMs, vmState[t] = "released"
      PROVE  /\ tpc[t] \in {"done", "failed"} /\ t \notin runq
             /\ \A i \in DOMAIN preq : preq[i] # t
             /\ \A i \in DOMAIN workq : workq[i] # t
  <2>1. tpc[t] \in {"done", "failed"} /\ t \notin runq
    BY <1>1 DEF IndInv, ExitIsOver
  <2>2. \A i \in DOMAIN preq : preq[i] # t
    BY <1>1, <2>1 DEF IndInv, PreqWaiting
  <2>3. ASSUME NEW i \in DOMAIN workq PROVE workq[i] # t
    <3>1. workq[i] \in {workq[j] : j \in DOMAIN workq}
      OBVIOUS
    <3>2. tpc[workq[i]] = "inwork"
      BY <1>1, <3>1 DEF IndInv, WorkCounted
    <3> QED
      BY <2>1, <3>2
  <2> QED
    BY <2>1, <2>2, <2>3
<1>2. IndInv => ReleasedIsUnused
  BY <1>1 DEF ReleasedIsUnused
<1> QED
  BY <1>2, Invariance, PTL

\* running_count is the number of threads that were created and not ended.
THEOREM CountIsExact == Spec => []RunningCountExact
<1>1. IndInv => RunningCountExact
  BY DEF IndInv
<1> QED
  BY <1>1, Invariance, PTL

\* The idle loop returns only when every thread it created has ended and no
\* work is queued.
THEOREM ReturnIsEnd == Spec => []ReturnsWhenOver
<1>1. ASSUME IndInv, ipc = "returned"
      PROVE  (\A t \in VMs : tpc[t] \in {"none", "pre", "failed", "done"}) /\ workq = <<>>
  <2>1. Alive = {} /\ runq = {}
    BY <1>1 DEF IndInv, NoneAlive
  <2>2. \A t \in VMs : tpc[t] \in {"none", "pre", "failed", "done"}
    BY <1>1, <2>1 DEF IndInv, StartedInRunq, Dormant
  <2>3. {workq[i] : i \in DOMAIN workq} = {}
    BY <1>1, <2>2 DEF IndInv, WorkCounted
  <2>4. workq \in Seq(VMs)
    BY <1>1 DEF IndInv, TypeOK
  <2>5. CASE workq # <<>>
    <3>1. 1 \in DOMAIN workq
      BY <2>4, <2>5, TailFacts
    <3>2. workq[1] \in {workq[i] : i \in DOMAIN workq}
      BY <3>1
    <3> QED
      BY <2>3, <3>2
  <2> QED
    BY <2>2, <2>5
<1>2. IndInv => ReturnsWhenOver
  BY <1>1 DEF ReturnsWhenOver
<1> QED
  BY <1>2, Invariance, PTL
=============================================================================
