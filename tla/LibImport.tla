----------------------------- MODULE LibImport -----------------------------
(***************************************************************************)
(* The import of libraries at run time: the LOAD_LIB instruction, which    *)
(* reads the state of the library without its lock, takes the recursive    *)
(* lock when the library is not settled yet, looks at the state again, and *)
(* loads the library with load_lib (a procedure, whose body may import     *)
(* other libraries) or load_dll (a shared object).                         *)
(*                                                                         *)
(* The VM lock a thread gives up while it waits for a library is not       *)
(* modelled: the collector, its only other user, takes no library lock.    *)
(***************************************************************************)
EXTENDS Integers, Sequences, FiniteSets

CONSTANTS
    Threads,
    Libs,
    Dlls,           \* the libraries load_dll loads
    Deps,           \* Deps[l]: the libraries the body of l may import
    Rank,           \* the compiler rejects circular imports: see below
    NoThread,
    MaxOverflows    \* bound: calls that run out of stack

ASSUME LibsAssumption ==
    /\ Dlls \subseteq Libs
    /\ Deps \in [Libs -> SUBSET Libs]
    /\ \A l \in Dlls : Deps[l] = {}
ASSUME AcyclicAssumption ==
    /\ Rank \in [Libs -> Nat]
    /\ \A l \in Libs : \A d \in Deps[l] : Rank[d] < Rank[l]
ASSUME ThreadsAssumption == NoThread \notin Threads
ASSUME OverflowsAssumption == MaxOverflows \in Nat

VARIABLES
    state,      \* lib->import_state
    owner,      \* who holds lib->lock ...
    depth,      \* ... and how many times
    pc,         \* where each thread is in LOAD_LIB, "run" when outside
    lib,        \* plib of each thread
    seen,       \* the state LOAD_LIB read first
    loading,    \* the libraries whose body a thread is in, innermost first
    got,        \* the libraries a thread has pushed on its stack
    begun,      \* history: how often the body of a library was begun
    overflows   \* bound: how many calls ran out of stack

vars == <<state, owner, depth, pc, lib, seen, loading, got, begun, overflows>>
lockVars == <<owner, depth>>
historyVars == <<begun, overflows>>

Init ==
    /\ state = [l \in Libs |-> "NONE"]
    /\ owner = [l \in Libs |-> NoThread]
    /\ depth = [l \in Libs |-> 0]
    /\ pc = [t \in Threads |-> "run"]
    /\ lib \in [Threads -> Libs]
    /\ \A t, u \in Threads : lib[t] = lib[u]
    /\ seen = [t \in Threads |-> "NONE"]
    /\ loading = [t \in Threads |-> <<>>]
    /\ got = [t \in Threads |-> {}]
    /\ begun = [l \in Libs |-> 0]
    /\ overflows = 0

Goto(t, p) == pc' = [pc EXCEPT ![t] = p]
SetState(l, s) == state' = [state EXCEPT ![l] = s]
Push(t, l) == got' = [got EXCEPT ![t] = @ \cup {l}]

\* The recursive mutex of a library.
fklLockVMlib(t, l) ==
    /\ owner[l] \in {NoThread, t}
    /\ owner' = [owner EXCEPT ![l] = t]
    /\ depth' = [depth EXCEPT ![l] = @ + 1]

fklUnlockVMlib(l) ==
    /\ depth' = [depth EXCEPT ![l] = @ - 1]
    /\ owner' = [owner EXCEPT ![l] = IF depth[l] = 1 THEN NoThread ELSE @]

\* What the code a thread runs may import: anything in the program itself,
\* the dependencies in the body of a library.
Importable(t) == IF loading[t] = <<>> THEN Libs ELSE Deps[Head(loading[t])]

-----------------------------------------------------------------------------
(* LOAD_LIB. *)

\* Mutant: a library that is being imported is not waited for.
Bug_NoWait(t, l) ==
    /\ pc[t] = "run"
    /\ l \in Importable(t)
    /\ lib' = [lib EXCEPT ![t] = l]
    /\ seen' = [seen EXCEPT ![t] = state[l]]
    /\ Goto(t, IF state[l] = "NONE" THEN "wait" ELSE "switch")
    /\ UNCHANGED <<state, lockVars, loading, got, historyVars>>

\* The first read, without the lock.
LOAD_LIB(t, l) ==
    /\ pc[t] = "run"
    /\ l \in Importable(t)
    /\ lib' = [lib EXCEPT ![t] = l]
    /\ seen' = [seen EXCEPT ![t] = state[l]]
    /\ Goto(t, IF state[l] \in {"NONE", "IMPORTING"} THEN "wait" ELSE "switch")
    /\ UNCHANGED <<state, lockVars, loading, got, historyVars>>

LockLib(t) ==
    /\ pc[t] = "wait"
    /\ fklLockVMlib(t, lib[t])
    /\ Goto(t, "switch")
    /\ UNCHANGED <<state, lib, seen, loading, got, historyVars>>

\* Mutant: the first read decides.
Bug_LoadOnFirstRead(t) ==
    /\ pc[t] = "switch"
    /\ seen[t] = "NONE"
    /\ SetState(lib[t], "IMPORTING")
    /\ Goto(t, "calling")
    /\ UNCHANGED <<lockVars, lib, seen, loading, got, historyVars>>

\* The second read is NONE: load_lib or load_dll begins.
LoadBegins(t) ==
    /\ pc[t] = "switch"
    /\ state[lib[t]] = "NONE"
    /\ SetState(lib[t], "IMPORTING")
    /\ Goto(t, "calling")
    /\ UNCHANGED <<lockVars, lib, seen, loading, got, historyVars>>

\* The second read is IMPORTED or ERROR.  The lock is given back only by a
\* thread whose first read was IMPORTING.  With ERROR an error is raised.
AlreadySettled(t) ==
    /\ pc[t] = "switch"
    /\ state[lib[t]] \in {"IMPORTED", "ERROR"}
    /\ IF seen[t] = "IMPORTING" THEN fklUnlockVMlib(lib[t])
                                ELSE UNCHANGED lockVars
    /\ IF state[lib[t]] = "IMPORTED" THEN Push(t, lib[t]) ELSE UNCHANGED got
    /\ Goto(t, "run")
    /\ UNCHANGED <<state, lib, seen, loading, historyVars>>

-----------------------------------------------------------------------------
(* load_lib and load_dll, under the lock. *)

\* fklCallObj runs out of stack: the library is as if never imported.
CallOverflows(t) ==
    /\ pc[t] = "calling"
    /\ lib[t] \notin Dlls
    /\ overflows < MaxOverflows
    /\ overflows' = overflows + 1
    /\ SetState(lib[t], "NONE")
    /\ Goto(t, "unlock")
    /\ UNCHANGED <<lockVars, lib, seen, loading, got, begun>>

\* The body runs, in a nested fklRunVM or as the init function.
BodyBegins(t) ==
    /\ pc[t] = "calling"
    /\ loading' = [loading EXCEPT ![t] = <<lib[t]>> \o @]
    /\ begun' = [begun EXCEPT ![lib[t]] = @ + 1]
    /\ Goto(t, "run")
    /\ UNCHANGED <<state, lockVars, lib, seen, got, overflows>>

\* The shared object cannot be opened or has no init function.
DllFails(t) ==
    /\ pc[t] = "calling"
    /\ lib[t] \in Dlls
    /\ SetState(lib[t], "ERROR")
    /\ Goto(t, "unlock")
    /\ UNCHANGED <<lockVars, lib, seen, loading, got, historyVars>>

\* The body ends: ERROR if it raised an error nobody caught, or left an
\* exported symbol unbound.
BodyEnds(t, s) ==
    /\ pc[t] = "run"
    /\ loading[t] # <<>>
    /\ lib' = [lib EXCEPT ![t] = Head(loading[t])]
    /\ loading' = [loading EXCEPT ![t] = Tail(@)]
    /\ SetState(Head(loading[t]), s)
    /\ Goto(t, "unlock")
    /\ UNCHANGED <<lockVars, seen, got, historyVars>>

\* Mutant: a failed import keeps the lock.
Bug_ErrorKeepsLock(t) ==
    /\ pc[t] = "unlock"
    /\ IF state[lib[t]] = "ERROR" THEN UNCHANGED lockVars
                                  ELSE fklUnlockVMlib(lib[t])
    /\ IF state[lib[t]] = "IMPORTED" THEN Push(t, lib[t]) ELSE UNCHANGED got
    /\ Goto(t, "run")
    /\ UNCHANGED <<state, lib, seen, loading, historyVars>>

\* Mutant: the library is pushed whatever became of it.
Bug_PushFailed(t) ==
    /\ pc[t] = "unlock"
    /\ fklUnlockVMlib(lib[t])
    /\ Push(t, lib[t])
    /\ Goto(t, "run")
    /\ UNCHANGED <<state, lib, seen, loading, historyVars>>

\* The lock is released, then the library is pushed or the error is raised.
UnlockLib(t) ==
    /\ pc[t] = "unlock"
    /\ fklUnlockVMlib(lib[t])
    /\ IF state[lib[t]] = "IMPORTED" THEN Push(t, lib[t]) ELSE UNCHANGED got
    /\ Goto(t, "run")
    /\ UNCHANGED <<state, lib, seen, loading, historyVars>>

-----------------------------------------------------------------------------
Settle(t) == \E s \in {"IMPORTED", "ERROR"} : BodyEnds(t, s)

\* Every step of an import but the request for one.
ImportStep(t) ==
    \/ LockLib(t)
    \/ LoadBegins(t)
    \/ AlreadySettled(t)
    \/ CallOverflows(t)
    \/ BodyBegins(t)
    \/ DllFails(t)
    \/ UnlockLib(t)

Next ==
    \E t \in Threads :
        \/ \E l \in Libs : LOAD_LIB(t, l)
        \/ ImportStep(t)
        \/ Settle(t)

Spec == Init /\ [][Next]_vars

\* The threads are scheduled, a mutex that stays free is taken by one that
\* waits for it, and the body of a library ends.
FairSpec ==
    /\ Spec
    /\ \A t \in Threads : WF_vars(ImportStep(t)) /\ SF_vars(Settle(t))

-----------------------------------------------------------------------------
(* Properties. *)

LibState == {"NONE", "IMPORTING", "IMPORTED", "ERROR"}

\* The type invariant.
TypeOK ==
    /\ state \in [Libs -> LibState]
    /\ owner \in [Libs -> Threads \cup {NoThread}]
    /\ depth \in [Libs -> 0 .. 1]
    /\ pc \in [Threads -> {"run", "wait", "switch", "calling", "unlock"}]
    /\ lib \in [Threads -> Libs]
    /\ seen \in [Threads -> LibState]
    /\ loading \in [Threads -> Seq(Libs)]
    /\ got \in [Threads -> SUBSET Libs]
    /\ begun \in [Libs -> Nat]
    /\ overflows \in 0 .. MaxOverflows

Loading(t) == {loading[t][i] : i \in DOMAIN loading[t]}

\* The body of a library runs at most once, however many threads ask for
\* the library at the same time.
BodyRunsOnce == \A l \in Libs : begun[l] <= 1

\* The case LOAD_LIB calls FKL_UNREACHABLE for: a thread never finds the
\* library IMPORTING once it is past the lock, not even itself importing it.
NeverUnreachable ==
    \A t \in Threads : pc[t] = "switch" => state[lib[t]] # "IMPORTING"

\* What a thread has on its stack is a library that was loaded completely:
\* its body has ended and has exported everything.
GotIsComplete ==
    \A t \in Threads : \A l \in got[t] :
        /\ state[l] = "IMPORTED"
        /\ begun[l] = 1
        /\ \A u \in Threads : l \notin Loading(u)

\* Every import ends, with the library or with an error: the locks, taken
\* along the dependencies, never form a circle.
ImportEnds == \A t \in Threads : (pc[t] # "run") ~> (pc[t] = "run")

\* A thread that waits for a library whose import failed gets the error
\* "library cannot be re-imported because of its' previous failure".
FailureReported ==
    \A t \in Threads :
        (pc[t] = "wait" /\ state[lib[t]] = "ERROR") ~> (pc[t] = "run")
=============================================================================
