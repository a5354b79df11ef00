-------------------------- MODULE LibImportProofs --------------------------
(***************************************************************************)
(* Proofs about LibImport for every set of threads and of libraries, every *)
(* acyclic import relation and every bound on the overflows.  IndInv says  *)
(* who holds the lock of a library and what the library's state owes to    *)
(* the thread that imports it; that no thread meets itself on the way down *)
(* the dependencies follows from their ranks.                              *)
(***************************************************************************)
EXTENDS LibImport, TLAPS

-----------------------------------------------------------------------------
(* The inductive invariant. *)

\* A thread has set a library to IMPORTING and not settled it yet.
Imports(t, l) == l \in Loading(t) \/ (pc[t] = "calling" /\ lib[t] = l)

\* The bodies a thread is in lie along the dependencies, and so does the
\* library it is about to import.
AlongDeps ==
    \A t \in Threads :
        /\ \A i, j \in DOMAIN loading[t] :
              i < j => Rank[loading[t][i]] < Rank[loading[t][j]]
        /\ pc[t] # "run" => \A l \in Loading(t) : Rank[lib[t]] < Rank[l]

\* The mutex.
LockCounted == \A l \in Libs : depth[l] = 0 <=> owner[l] = NoThread

\* A thread that imports a library holds its lock, and so does one that has
\* taken the lock and not looked yet; the others saw a settled library.
ImporterHoldsLock ==
    \A t \in Threads :
        /\ \A l \in Libs : Imports(t, l) => owner[l] = t
        /\ pc[t] = "unlock" => owner[lib[t]] = t
        /\ pc[t] = "switch" =>
              \/ owner[lib[t]] = t
              \/ /\ seen[t] \notin {"NONE", "IMPORTING"}
                 /\ state[lib[t]] \in {"IMPORTED", "ERROR"}

\* A lock is held by a thread that is in LOAD_LIB with it, or for ever by one
\* that found the library settled.
HolderIsKnown ==
    \A t \in Threads, l \in Libs : owner[l] = t =>
        \/ Imports(t, l)
        \/ lib[t] = l /\ pc[t] \in {"switch", "unlock"}
        \/ state[l] \in {"IMPORTED", "ERROR"}

\* A thread never waits for a lock it holds itself.
NoSelfWait == \A t \in Threads : pc[t] = "wait" => owner[lib[t]] # t

\* IMPORTING is the state of the libraries that their holder imports.
ImportingIsImported ==
    /\ \A l \in Libs : state[l] = "IMPORTING" =>
          owner[l] \in Threads /\ Imports(owner[l], l)
    /\ \A t \in Threads, l \in Libs : Imports(t, l) => state[l] = "IMPORTING"
    /\ \A t \in Threads : pc[t] = "unlock" => state[lib[t]] # "IMPORTING"

\* How often the body of a library was begun, by its state.
BegunByState ==
    /\ \A l \in Libs :
          /\ begun[l] <= 1
          /\ state[l] = "NONE" => begun[l] = 0
          /\ state[l] = "IMPORTED" => begun[l] = 1
    /\ \A t \in Threads :
          /\ pc[t] = "calling" => begun[lib[t]] = 0
          /\ \A l \in Loading(t) : begun[l] = 1

GotIsImported == \A t \in Threads : \A l \in got[t] : state[l] = "IMPORTED"

IndInv ==
    /\ TypeOK
    /\ AlongDeps
    /\ LockCounted
    /\ ImporterHoldsLock
    /\ HolderIsKnown
    /\ NoSelfWait
    /\ ImportingIsImported
    /\ BegunByState
    /\ GotIsImported

-----------------------------------------------------------------------------
(* Bodies within bodies: the list loading of a thread. *)

\* What a list is when an element is put in front of it.
LEMMA ConsFacts ==
  ASSUME NEW S, NEW q \in Seq(S), NEW x \in S
  PROVE  /\ <<x>> \o q \in Seq(S)
         /\ DOMAIN (<<x>> \o q) = 1 .. Len(q) + 1
         /\ DOMAIN q = 1 .. Len(q) /\ Len(q) \in Nat
         /\ (<<x>> \o q)[1] = x
         /\ \A i \in 1 .. Len(q) : (<<x>> \o q)[i + 1] = q[i]
OBVIOUS

\* What is left of a list when its head is taken off.
LEMMA TailFacts ==
  ASSUME NEW S, NEW q \in Seq(S), q # <<>>
  PROVE  /\ Tail(q) \in Seq(S) /\ Head(q) = q[1] /\ Head(q) \in S
         /\ Len(q) \in Nat /\ Len(q) >= 1 /\ DOMAIN q = 1 .. Len(q)
         /\ DOMAIN Tail(q) = 1 .. Len(q) - 1
         /\ \A i \in 1 .. Len(q) - 1 : Tail(q)[i] = q[i + 1]
OBVIOUS

\* When a body begins its library becomes the innermost of the thread's.
LEMMA LoadingAfterBegin ==
  ASSUME TypeOK, AlongDeps, NEW t \in Threads, BodyBegins(t)
  PROVE  /\ loading' \in [Threads -> Seq(Libs)]
         /\ Loading(t)' = Loading(t) \cup {lib[t]}
         /\ \A u \in Threads : u # t => Loading(u)' = Loading(u)
         /\ \A u \in Threads : \A i, j \in DOMAIN loading'[u] :
               i < j => Rank[loading'[u][i]] < Rank[loading'[u][j]]
<1>1. PICK q \in Seq(Libs), x \in Libs : q = loading[t] /\ x = lib[t]
  BY DEF TypeOK
<1>2. loading' = [loading EXCEPT ![t] = <<x>> \o q]
  BY <1>1 DEF BodyBegins
<1>3. loading'[t] = <<x>> \o q /\ loading' \in [Threads -> Seq(Libs)]
  BY <1>2, ConsFacts DEF TypeOK
<1>4. \A u \in Threads : u # t => loading'[u] = loading[u]
  BY <1>2 DEF TypeOK
<1>5. \A u \in Threads : u # t => Loading(u)' = Loading(u)
  BY <1>4 DEF Loading
<1>6. Loading(t)' = Loading(t) \cup {x}
  <2>1. ASSUME NEW i \in DOMAIN (<<x>> \o q)
        PROVE  (<<x>> \o q)[i] = x \/ \E j \in DOMAIN q : (<<x>> \o q)[i] = q[j]
    <3>1. i = 1 \/ (i - 1 \in 1 .. Len(q) /\ (i - 1) + 1 = i)
      BY ConsFacts
    <3> QED
      BY <3>1, ConsFacts
  <2>2. \A j \in DOMAIN q : \E i \in DOMAIN (<<x>> \o q) : (<<x>> \o q)[i] = q[j]
    <3> TAKE j \in DOMAIN q
    <3> WITNESS j + 1 \in DOMAIN (<<x>> \o q)
    <3> QED
      BY ConsFacts
  <2>3. \E i \in DOMAIN (<<x>> \o q) : (<<x>> \o q)[i] = x
    <3> 1 \in DOMAIN (<<x>> \o q)
      BY ConsFacts
    <3> QED
      BY ConsFacts
  <2>4. Loading(t) = {q[i] : i \in DOMAIN q}
    BY <1>1 DEF Loading
  <2>5. Loading(t)' = {(<<x>> \o q)[i] : i \in DOMAIN (<<x>> \o q)}
    BY <1>3 DEF Loading
  <2> QED
    BY <2>1, <2>2, <2>3, <2>4, <2>5, Zenon
<1>7. \A l \in Loading(t) : Rank[x] < Rank[l]
  BY <1>1 DEF AlongDeps, BodyBegins
<1>8. \A i, j \in DOMAIN loading'[t] :
         i < j => Rank[loading'[t][i]] < Rank[loading'[t][j]]
  <2> SUFFICES ASSUME NEW i \in 1 .. Len(q) + 1, NEW j \in 1 .. Len(q) + 1, i < j
               PROVE  Rank[(<<x>> \o q)[i]] < Rank[(<<x>> \o q)[j]]
    BY <1>3, ConsFacts
  <2>1. /\ Len(q) \in Nat /\ j - 1 \in 1 .. Len(q) /\ (j - 1) + 1 = j
        /\ (i = 1 \/ (i - 1 \in 1 .. Len(q) /\ (i - 1) + 1 = i /\ i - 1 < j - 1))
    BY ConsFacts
  <2>2. (<<x>> \o q)[j] = q[j - 1] /\ q[j - 1] \in Loading(t)
    BY <1>1, <2>1, ConsFacts DEF Loading
  <2>3. CASE i = 1
    BY <1>7, <2>2, <2>3, ConsFacts
  <2>4. CASE i # 1
    BY <1>1, <2>1, <2>2, <2>4, ConsFacts DEF AlongDeps
  <2> QED
    BY <2>3, <2>4
<1> QED
  BY <1>1, <1>3, <1>4, <1>5, <1>6, <1>8 DEF AlongDeps

\* When a body ends its library leaves the list, in which it was only once.
LEMMA LoadingAfterEnd ==
  ASSUME TypeOK, AlongDeps, NEW t \in Threads, loading[t] # <<>>,
         loading' = [loading EXCEPT ![t] = Tail(@)]
  PROVE  /\ loading' \in [Threads -> Seq(Libs)]
         /\ Head(loading[t]) \in Loading(t) /\ Head(loading[t]) \in Libs
         /\ Loading(t)' = Loading(t) \ {Head(loading[t])}
         /\ \A l \in Loading(t)' : Rank[Head(loading[t])] < Rank[l]
         /\ \A u \in Threads : u # t => Loading(u)' = Loading(u)
         /\ \A u \in Threads : \A i, j \in DOMAIN loading'[u] :
               i < j => Rank[loading'[u][i]] < Rank[loading'[u][j]]
<1>1. PICK q \in Seq(Libs) : q = loading[t] /\ q # <<>>
  BY DEF TypeOK
<1>2. loading'[t] = Tail(q) /\ loading' \in [Threads -> Seq(Libs)]
  BY <1>1, TailFacts DEF TypeOK
<1>3. \A u \in Threads : u # t => loading'[u] = loading[u]
  BY DEF TypeOK
<1>4. \A u \in Threads : u # t => Loading(u)' = Loading(u)
  BY <1>3 DEF Loading
<1>5. \A i, j \in 1 .. Len(q) : i < j => Rank[q[i]] < Rank[q[j]]
  BY <1>1, TailFacts DEF AlongDeps
<1>6. \A j \in 1 .. Len(q) - 1 : Tail(q)[j] = q[j + 1] /\ Rank[q[1]] < Rank[q[j + 1]]
  BY <1>5, TailFacts
<1>7. \A l \in Loading(t)' : Rank[q[1]] < Rank[l]
  <2>1. Loading(t)' = {Tail(q)[i] : i \in 1 .. Len(q) - 1}
    <3>1. DOMAIN Tail(q) = 1 .. Len(q) - 1
      BY <1>1, TailFacts
    <3>2. Loading(t)' = {Tail(q)[i] : i \in DOMAIN Tail(q)}
      BY <1>2, Zenon DEF Loading
    <3> QED
      BY <3>1, <3>2, Zenon
  <2> QED
    BY <1>6, <2>1
<1>8. q[1] \notin Loading(t)'
  <2>1. Rank[q[1]] \in Nat
    BY TailFacts, <1>1, AcyclicAssumption
  <2> QED
    BY <1>7, <2>1
<1>9. \A l : l \in Loading(t) <=> l = q[1] \/ l \in Loading(t)'
  <2>1. ASSUME NEW i \in DOMAIN q
        PROVE  q[i] = q[1] \/ \E j \in DOMAIN Tail(q) : Tail(q)[j] = q[i]
    <3>1. i = 1 \/ (i - 1 \in 1 .. Len(q) - 1 /\ (i - 1) + 1 = i)
      BY TailFacts
    <3> QED
      BY <3>1, <1>1, TailFacts
  <2>2. ASSUME NEW j \in DOMAIN Tail(q)
        PROVE  \E i \in DOMAIN q : Tail(q)[j] = q[i]
    <3>1. j + 1 \in DOMAIN q /\ Tail(q)[j] = q[j + 1]
      BY <1>1, TailFacts
    <3> QED
      BY <3>1
  <2>3. 1 \in DOMAIN q
    BY <1>1, TailFacts
  <2> QED
    BY <1>1, <1>2, <2>1, <2>2, <2>3 DEF Loading
<1>10. \A i, j \in DOMAIN loading'[t] :
          i < j => Rank[loading'[t][i]] < Rank[loading'[t][j]]
  <2> SUFFICES ASSUME NEW i \in 1 .. Len(q) - 1, NEW j \in 1 .. Len(q) - 1, i < j
               PROVE  Rank[Tail(q)[i]] < Rank[Tail(q)[j]]
    <3>1. DOMAIN Tail(q) = 1 .. Len(q) - 1
      BY <1>1, TailFacts
    <3> QED
      BY <1>2, <3>1, Zenon
  <2>1. i + 1 \in 1 .. Len(q) /\ j + 1 \in 1 .. Len(q) /\ i + 1 < j + 1
    BY <1>1, TailFacts
  <2> QED
    BY <1>1, <1>5, <2>1, TailFacts
<1> QED
  BY <1>1, <1>2, <1>3, <1>4, <1>7, <1>8, <1>9, <1>10, TailFacts DEF AlongDeps

\* What a body imports lies below all the bodies it is in.
LEMMA ImportableIsBelow ==
  ASSUME TypeOK, AlongDeps, NEW t \in Threads, NEW l \in Libs, l \in Importable(t)
  PROVE  \A k \in Loading(t) : Rank[l] < Rank[k]
<1>1. PICK q \in Seq(Libs) : q = loading[t]
  BY DEF TypeOK
<1>2. Loading(t) = {q[i] : i \in DOMAIN q}
  BY <1>1 DEF Loading
<1>3. CASE q = <<>>
  BY <1>2, <1>3
<1>4. CASE q # <<>>
  <2>1. l \in Deps[q[1]] /\ q[1] \in Libs
    BY <1>1, <1>4, TailFacts DEF Importable
  <2>2. Rank[l] < Rank[q[1]] /\ Rank[l] \in Nat /\ Rank[q[1]] \in Nat
    BY <2>1, AcyclicAssumption
  <2>3. \A i \in 1 .. Len(q) : i = 1 \/ Rank[q[1]] < Rank[q[i]]
    <3>1. DOMAIN q = 1 .. Len(q) /\ Len(q) >= 1 /\ Len(q) \in Nat
      BY <1>4, TailFacts
    <3> QED
      BY <1>1, <3>1 DEF AlongDeps
  <2>4. \A i \in 1 .. Len(q) : q[i] \in Libs /\ Rank[q[i]] \in Nat
    BY AcyclicAssumption
  <2>5. \A i \in 1 .. Len(q) : Rank[l] < Rank[q[i]]
    BY <2>2, <2>3, <2>4
  <2> QED
    BY <1>2, <1>4, <2>5, TailFacts
<1> QED
  BY <1>3, <1>4

\* The body a thread is in is the one of a library.
LEMMA LoadingIsLibs ==
  ASSUME TypeOK, NEW t \in Threads
  PROVE  Loading(t) \subseteq Libs
BY DEF TypeOK, Loading

-----------------------------------------------------------------------------
(* Every step keeps the invariant. *)

\* LOAD_LIB keeps the invariant.
LEMMA LOAD_LIBStep ==
  ASSUME IndInv, NEW t \in Threads, NEW l \in Libs, LOAD_LIB(t, l)
  PROVE  IndInv'
<1> USE LibsAssumption, AcyclicAssumption, ThreadsAssumption, OverflowsAssumption
<1>0. /\ TypeOK /\ AlongDeps /\ LockCounted /\ ImporterHoldsLock /\ HolderIsKnown
      /\ NoSelfWait /\ ImportingIsImported /\ BegunByState /\ GotIsImported
  BY DEF IndInv
<1> USE DEF LOAD_LIB, TypeOK, LibState, Goto, SetState, Push, lockVars, historyVars, Importable
<1>1. \A u \in Threads : Loading(u)' = Loading(u) /\ Loading(u) \subseteq Libs
  BY <1>0 DEF Loading
<1>2. TypeOK'
  BY <1>0, <1>1 DEF LockCounted, NoSelfWait, ImporterHoldsLock
<1>3. AlongDeps'
  BY <1>0, <1>1, ImportableIsBelow DEF AlongDeps
<1>4. LockCounted'
  BY <1>0, <1>1 DEF LockCounted, NoSelfWait, ImporterHoldsLock
<1>5. ImporterHoldsLock'
  BY <1>0, <1>1 DEF ImporterHoldsLock, Imports, ImportingIsImported, HolderIsKnown
<1>6. HolderIsKnown'
  BY <1>0, <1>1 DEF HolderIsKnown, Imports, ImporterHoldsLock, ImportingIsImported
<1>7. NoSelfWait'
  <2>1. l \notin Loading(t)
    <3>1. \A k \in Loading(t) : Rank[l] < Rank[k]
      BY <1>0, ImportableIsBelow
    <3> QED
      BY <3>1
  <2>2. pc'[t] = "wait" => owner[l] # t
    BY <1>0, <2>1 DEF HolderIsKnown, Imports
  <2> QED
    BY <1>0, <2>2 DEF NoSelfWait
<1>8. ImportingIsImported'
  BY <1>0, <1>1 DEF ImportingIsImported, Imports, ImporterHoldsLock
<1>9. BegunByState'
  BY <1>0, <1>1 DEF BegunByState, ImporterHoldsLock, Imports, ImportingIsImported
<1>10. GotIsImported'
  BY <1>0, <1>1 DEF GotIsImported, ImportingIsImported, Imports
<1> QED
  BY <1>2, <1>3, <1>4, <1>5, <1>6, <1>7, <1>8, <1>9, <1>10 DEF IndInv

\* LockLib keeps the invariant.
LEMMA LockLibStep ==
  ASSUME IndInv, NEW t \in Threads, LockLib(t)
  PROVE  IndInv'
<1> USE LibsAssumption, AcyclicAssumption, ThreadsAssumption, OverflowsAssumption
<1>0. /\ TypeOK /\ AlongDeps /\ LockCounted /\ ImporterHoldsLock /\ HolderIsKnown
      /\ NoSelfWait /\ ImportingIsImported /\ BegunByState /\ GotIsImported
  BY DEF IndInv
<1> USE DEF LockLib, TypeOK, LibState, Goto, SetState, Push, lockVars, historyVars, fklLockVMlib
<1>1. \A u \in Threads : Loading(u)' = Loading(u) /\ Loading(u) \subseteq Libs
  BY <1>0 DEF Loading
<1>2. TypeOK'
  BY <1>0, <1>1 DEF LockCounted, NoSelfWait, ImporterHoldsLock
<1>3. AlongDeps'
  BY <1>0, <1>1 DEF AlongDeps
<1>4. LockCounted'
  BY <1>0, <1>1 DEF LockCounted, NoSelfWait, ImporterHoldsLock
<1>5. ImporterHoldsLock'
  BY <1>0, <1>1 DEF ImporterHoldsLock, Imports, ImportingIsImported, HolderIsKnown
<1>6. HolderIsKnown'
  BY <1>0, <1>1 DEF HolderIsKnown, Imports, ImporterHoldsLock, ImportingIsImported
<1>7. NoSelfWait'
  BY <1>0, <1>1 DEF NoSelfWait, HolderIsKnown, Imports, AlongDeps
<1>8. ImportingIsImported'
  BY <1>0, <1>1 DEF ImportingIsImported, Imports, ImporterHoldsLock
<1>9. BegunByState'
  BY <1>0, <1>1 DEF BegunByState, ImporterHoldsLock, Imports, ImportingIsImported
<1>10. GotIsImported'
  BY <1>0, <1>1 DEF GotIsImported, ImportingIsImported, Imports
<1> QED
  BY <1>2, <1>3, <1>4, <1>5, <1>6, <1>7, <1>8, <1>9, <1>10 DEF IndInv

\* LoadBegins keeps the invariant.
LEMMA LoadBeginsStep ==
  ASSUME IndInv, NEW t \in Threads, LoadBegins(t)
  PROVE  IndInv'
<1> USE LibsAssumption, AcyclicAssumption, ThreadsAssumption, OverflowsAssumption
<1>0. /\ TypeOK /\ AlongDeps /\ LockCounted /\ ImporterHoldsLock /\ HolderIsKnown
      /\ NoSelfWait /\ ImportingIsImported /\ BegunByState /\ GotIsImported
  BY DEF IndInv
<1> USE DEF LoadBegins, TypeOK, LibState, Goto, SetState, Push, lockVars, historyVars
<1>1. \A u \in Threads : Loading(u)' = Loading(u) /\ Loading(u) \subseteq Libs
  BY <1>0 DEF Loading
<1>2. TypeOK'
  BY <1>0, <1>1 DEF LockCounted, NoSelfWait, ImporterHoldsLock
<1>3. AlongDeps'
  BY <1>0, <1>1 DEF AlongDeps
<1>4. LockCounted'
  BY <1>0, <1>1 DEF LockCounted, NoSelfWait, ImporterHoldsLock
<1>5. ImporterHoldsLock'
  BY <1>0, <1>1 DEF ImporterHoldsLock, Imports, ImportingIsImported, HolderIsKnown
<1>6. HolderIsKnown'
  BY <1>0, <1>1 DEF HolderIsKnown, Imports, ImporterHoldsLock, ImportingIsImported
<1>7. NoSelfWait'
  BY <1>0, <1>1 DEF NoSelfWait, HolderIsKnown, Imports, AlongDeps
<1>8. ImportingIsImported'
  <2>1. owner[lib[t]] = t /\ lib[t] \in Libs
    BY <1>0 DEF ImporterHoldsLock, Imports
  <2>2. ASSUME NEW k \in Libs, state'[k] = "IMPORTING"
        PROVE  owner'[k] \in Threads /\ Imports(owner[k], k)'
    BY <1>0, <1>1, <2>1, <2>2 DEF ImportingIsImported, Imports
  <2>3. ASSUME NEW u \in Threads, NEW k \in Libs, Imports(u, k)'
        PROVE  state'[k] = "IMPORTING"
    BY <1>0, <1>1, <2>1, <2>3 DEF ImportingIsImported, ImporterHoldsLock, Imports, AlongDeps
  <2>4. ASSUME NEW u \in Threads, pc'[u] = "unlock"
        PROVE  state'[lib'[u]] # "IMPORTING"
    BY <1>0, <2>1, <2>4 DEF ImportingIsImported, ImporterHoldsLock
  <2> QED
    BY <2>2, <2>3, <2>4 DEF ImportingIsImported
<1>9. BegunByState'
  BY <1>0, <1>1 DEF BegunByState, ImporterHoldsLock, Imports, ImportingIsImported
<1>10. GotIsImported'
  BY <1>0, <1>1 DEF GotIsImported, ImportingIsImported, Imports
<1> QED
  BY <1>2, <1>3, <1>4, <1>5, <1>6, <1>7, <1>8, <1>9, <1>10 DEF IndInv

\* AlreadySettled keeps the invariant.
LEMMA AlreadySettledStep ==
  ASSUME IndInv, NEW t \in Threads, AlreadySettled(t)
  PROVE  IndInv'
<1> USE LibsAssumption, AcyclicAssumption, ThreadsAssumption, OverflowsAssumption
<1>0. /\ TypeOK /\ AlongDeps /\ LockCounted /\ ImporterHoldsLock /\ HolderIsKnown
      /\ NoSelfWait /\ ImportingIsImported /\ BegunByState /\ GotIsImported
  BY DEF IndInv
<1> USE DEF AlreadySettled, TypeOK, LibState, Goto, SetState, Push, lockVars, historyVars, fklUnlockVMlib
<1>1. \A u \in Threads : Loading(u)' = Loading(u) /\ Loading(u) \subseteq Libs
  BY <1>0 DEF Loading
<1>a. \/ /\ owner' = [owner EXCEPT ![lib[t]] = NoThread]
         /\ depth' = [depth EXCEPT ![lib[t]] = 0]
         /\ owner[lib[t]] = t
      \/ owner' = owner /\ depth' = depth
  <2>1. CASE seen[t] = "IMPORTING"
    <3>1. owner[lib[t]] = t /\ depth[lib[t]] = 1
      BY <1>0, <2>1 DEF LockCounted, ImporterHoldsLock
    <3> QED
      BY <1>0, <2>1, <3>1
  <2>2. CASE seen[t] # "IMPORTING"
    BY <2>2
  <2> QED
    BY <2>1, <2>2
<1>2. TypeOK'
  <2>1. got' \in [Threads -> SUBSET Libs]
    <3>1. got[t] \cup {lib[t]} \in SUBSET Libs
      BY <1>0
    <3>2. got' = [got EXCEPT ![t] = got[t] \cup {lib[t]}] \/ got' = got
      BY <1>0
    <3> QED
      BY <1>0, <3>1, <3>2
  <2>2. owner' \in [Libs -> Threads \cup {NoThread}] /\ depth' \in [Libs -> 0 .. 1]
    <3>1. CASE owner' = owner /\ depth' = depth
      BY <1>0, <3>1
    <3>2. CASE /\ owner' = [owner EXCEPT ![lib[t]] = NoThread]
               /\ depth' = [depth EXCEPT ![lib[t]] = 0]
      BY <1>0, <3>2
    <3> QED
      BY <1>a, <3>1, <3>2
  <2> QED
    BY <1>0, <2>1, <2>2
<1>3. AlongDeps'
  BY <1>0, <1>1 DEF AlongDeps
<1>4. LockCounted'
  BY <1>0, <1>a DEF LockCounted
<1>5. ImporterHoldsLock'
  BY <1>0, <1>1 DEF ImporterHoldsLock, Imports, ImportingIsImported, HolderIsKnown
<1>6. HolderIsKnown'
  BY <1>0, <1>1 DEF HolderIsKnown, Imports, ImporterHoldsLock, ImportingIsImported
<1>7. NoSelfWait'
  BY <1>0, <1>1 DEF NoSelfWait, HolderIsKnown, Imports, AlongDeps
<1>8. ImportingIsImported'
  BY <1>0, <1>1 DEF ImportingIsImported, Imports, ImporterHoldsLock
<1>9. BegunByState'
  BY <1>0, <1>1 DEF BegunByState, ImporterHoldsLock, Imports, ImportingIsImported
<1>10. GotIsImported'
  <2>1. CASE state[lib[t]] = "IMPORTED"
    <3>1. got' = [got EXCEPT ![t] = @ \cup {lib[t]}]
      BY <2>1
    <3> QED
      BY <1>0, <2>1, <3>1 DEF GotIsImported
  <2>2. CASE state[lib[t]] # "IMPORTED"
    BY <1>0, <2>2 DEF GotIsImported
  <2> QED
    BY <2>1, <2>2
<1> QED
  BY <1>2, <1>3, <1>4, <1>5, <1>6, <1>7, <1>8, <1>9, <1>10 DEF IndInv

\* CallOverflows keeps the invariant.
LEMMA CallOverflowsStep ==
  ASSUME IndInv, NEW t \in Threads, CallOverflows(t)
  PROVE  IndInv'
<1> USE LibsAssumption, AcyclicAssumption, ThreadsAssumption, OverflowsAssumption
<1>0. /\ TypeOK /\ AlongDeps /\ LockCounted /\ ImporterHoldsLock /\ HolderIsKnown
      /\ NoSelfWait /\ ImportingIsImported /\ BegunByState /\ GotIsImported
  BY DEF IndInv
<1> USE DEF CallOverflows, TypeOK, LibState, Goto, SetState, Push, lockVars, historyVars
<1>1. \A u \in Threads : Loading(u)' = Loading(u) /\ Loading(u) \subseteq Libs
  BY <1>0 DEF Loading
<1>2. TypeOK'
  BY <1>0, <1>1 DEF LockCounted, NoSelfWait, ImporterHoldsLock
<1>3. AlongDeps'
  BY <1>0, <1>1 DEF AlongDeps
<1>4. LockCounted'
  BY <1>0, <1>1 DEF LockCounted, NoSelfWait, ImporterHoldsLock
<1>5. ImporterHoldsLock'
  BY <1>0, <1>1 DEF ImporterHoldsLock, Imports, ImportingIsImported, HolderIsKnown
<1>6. HolderIsKnown'
  BY <1>0, <1>1 DEF HolderIsKnown, Imports, ImporterHoldsLock, ImportingIsImported
<1>7. NoSelfWait'
  BY <1>0, <1>1 DEF NoSelfWait, HolderIsKnown, Imports, AlongDeps
<1>8. ImportingIsImported'
  <2>1. owner[lib[t]] = t /\ lib[t] \in Libs
    BY <1>0 DEF ImporterHoldsLock, Imports
  <2>2. ASSUME NEW k \in Libs, state'[k] = "IMPORTING"
        PROVE  owner'[k] \in Threads /\ Imports(owner[k], k)'
    BY <1>0, <1>1, <2>1, <2>2 DEF ImportingIsImported, Imports
  <2>3. ASSUME NEW u \in Threads, NEW k \in Libs, Imports(u, k)'
        PROVE  state'[k] = "IMPORTING"
    <3>1. lib[t] \notin Loading(t)
      <4>1. Rank[lib[t]] \in Nat /\ (lib[t] \in Loading(t) => Rank[lib[t]] < Rank[lib[t]])
        BY <1>0, <2>1 DEF AlongDeps
      <4> QED
        BY <4>1
    <3>2. Imports(u, k)
      BY <1>0, <1>1, <2>3 DEF Imports
    <3>3. k # lib[t]
      BY <1>0, <1>1, <2>1, <2>3, <3>1, <3>2 DEF ImporterHoldsLock, Imports
    <3> QED
      BY <1>0, <3>2, <3>3 DEF ImportingIsImported
  <2>4. ASSUME NEW u \in Threads, pc'[u] = "unlock"
        PROVE  state'[lib'[u]] # "IMPORTING"
    BY <1>0, <2>1, <2>4 DEF ImportingIsImported, ImporterHoldsLock
  <2> QED
    BY <2>2, <2>3, <2>4 DEF ImportingIsImported
<1>9. BegunByState'
  BY <1>0, <1>1 DEF BegunByState, ImporterHoldsLock, Imports, ImportingIsImported
<1>10. GotIsImported'
  BY <1>0, <1>1 DEF GotIsImported, ImportingIsImported, Imports
<1> QED
  BY <1>2, <1>3, <1>4, <1>5, <1>6, <1>7, <1>8, <1>9, <1>10 DEF IndInv

\* BodyBegins keeps the invariant.
LEMMA BodyBeginsStep ==
  ASSUME IndInv, NEW t \in Threads, BodyBegins(t)
  PROVE  IndInv'
<1> USE LibsAssumption, AcyclicAssumption, ThreadsAssumption, OverflowsAssumption
<1>0. /\ TypeOK /\ AlongDeps /\ LockCounted /\ ImporterHoldsLock /\ HolderIsKnown
      /\ NoSelfWait /\ ImportingIsImported /\ BegunByState /\ GotIsImported
  BY DEF IndInv
<1> USE DEF BodyBegins, TypeOK, LibState, Goto, SetState, Push, lockVars, historyVars
<1>1. /\ Loading(t)' = Loading(t) \cup {lib[t]}
      /\ \A u \in Threads : u # t => Loading(u)' = Loading(u)
      /\ \A u \in Threads : Loading(u) \subseteq Libs
  <2>1. \A u \in Threads : Loading(u) \subseteq Libs
    BY <1>0, LoadingIsLibs
  <2>2. BodyBegins(t)
    OBVIOUS
  <2> HIDE DEF BodyBegins
  <2> QED
    BY <1>0, <2>1, <2>2, LoadingAfterBegin
<1>2. TypeOK'
  BY <1>0, <1>1, LoadingAfterBegin DEF LockCounted, NoSelfWait, ImporterHoldsLock
<1>3. AlongDeps'
  BY <1>0, <1>1, LoadingAfterBegin DEF AlongDeps
<1>4. LockCounted'
  BY <1>0, <1>1 DEF LockCounted, NoSelfWait, ImporterHoldsLock
<1>5. ImporterHoldsLock'
  BY <1>0, <1>1 DEF ImporterHoldsLock, Imports, ImportingIsImported, HolderIsKnown
<1>6. HolderIsKnown'
  BY <1>0, <1>1 DEF HolderIsKnown, Imports, ImporterHoldsLock, ImportingIsImported
<1>7. NoSelfWait'
  BY <1>0, <1>1 DEF NoSelfWait, HolderIsKnown, Imports, AlongDeps
<1>8. ImportingIsImported'
  BY <1>0, <1>1 DEF ImportingIsImported, Imports, ImporterHoldsLock
<1>9. BegunByState'
  BY <1>0, <1>1 DEF BegunByState, ImporterHoldsLock, Imports, ImportingIsImported
<1>10. GotIsImported'
  BY <1>0, <1>1 DEF GotIsImported, ImportingIsImported, Imports
<1> QED
  BY <1>2, <1>3, <1>4, <1>5, <1>6, <1>7, <1>8, <1>9, <1>10 DEF IndInv

\* DllFails keeps the invariant.
LEMMA DllFailsStep ==
  ASSUME IndInv, NEW t \in Threads, DllFails(t)
  PROVE  IndInv'
<1> USE LibsAssumption, AcyclicAssumption, ThreadsAssumption, OverflowsAssumption
<1>0. /\ TypeOK /\ AlongDeps /\ LockCounted /\ ImporterHoldsLock /\ HolderIsKnown
      /\ NoSelfWait /\ ImportingIsImported /\ BegunByState /\ GotIsImported
  BY DEF IndInv
<1> USE DEF DllFails, TypeOK, LibState, Goto, SetState, Push, lockVars, historyVars
<1>1. \A u \in Threads : Loading(u)' = Loading(u) /\ Loading(u) \subseteq Libs
  BY <1>0 DEF Loading
<1>2. TypeOK'
  BY <1>0, <1>1 DEF LockCounted, NoSelfWait, ImporterHoldsLock
<1>3. AlongDeps'
  BY <1>0, <1>1 DEF AlongDeps
<1>4. LockCounted'
  BY <1>0, <1>1 DEF LockCounted, NoSelfWait, ImporterHoldsLock
<1>5. ImporterHoldsLock'
  BY <1>0, <1>1 DEF ImporterHoldsLock, Imports, ImportingIsImported, HolderIsKnown
<1>6. HolderIsKnown'
  BY <1>0, <1>1 DEF HolderIsKnown, Imports, ImporterHoldsLock, ImportingIsImported
<1>7. NoSelfWait'
  BY <1>0, <1>1 DEF NoSelfWait, HolderIsKnown, Imports, AlongDeps
<1>8. ImportingIsImported'
  <2>1. owner[lib[t]] = t /\ lib[t] \in Libs
    BY <1>0 DEF ImporterHoldsLock, Imports
  <2>2. ASSUME NEW k \in Libs, state'[k] = "IMPORTING"
        PROVE  owner'[k] \in Threads /\ Imports(owner[k], k)'
    BY <1>0, <1>1, <2>1, <2>2 DEF ImportingIsImported, Imports
  <2>3. ASSUME NEW u \in Threads, NEW k \in Libs, Imports(u, k)'
        PROVE  state'[k] = "IMPORTING"
    <3>1. lib[t] \notin Loading(t)
      <4>1. Rank[lib[t]] \in Nat /\ (lib[t] \in Loading(t) => Rank[lib[t]] < Rank[lib[t]])
        BY <1>0, <2>1 DEF AlongDeps
      <4> QED
        BY <4>1
    <3>2. Imports(u, k)
      BY <1>0, <1>1, <2>3 DEF Imports
    <3>3. k # lib[t]
      BY <1>0, <1>1, <2>1, <2>3, <3>1, <3>2 DEF ImporterHoldsLock, Imports
    <3> QED
      BY <1>0, <3>2, <3>3 DEF ImportingIsImported
  <2>4. ASSUME NEW u \in Threads, pc'[u] = "unlock"
        PROVE  state'[lib'[u]] # "IMPORTING"
    BY <1>0, <2>1, <2>4 DEF ImportingIsImported, ImporterHoldsLock
  <2> QED
    BY <2>2, <2>3, <2>4 DEF ImportingIsImported
<1>9. BegunByState'
  BY <1>0, <1>1 DEF BegunByState, ImporterHoldsLock, Imports, ImportingIsImported
<1>10. GotIsImported'
  BY <1>0, <1>1 DEF GotIsImported, ImportingIsImported, Imports
<1> QED
  BY <1>2, <1>3, <1>4, <1>5, <1>6, <1>7, <1>8, <1>9, <1>10 DEF IndInv

\* UnlockLib keeps the invariant.
LEMMA UnlockLibStep ==
  ASSUME IndInv, NEW t \in Threads, UnlockLib(t)
  PROVE  IndInv'
<1> USE LibsAssumption, AcyclicAssumption, ThreadsAssumption, OverflowsAssumption
<1>0. /\ TypeOK /\ AlongDeps /\ LockCounted /\ ImporterHoldsLock /\ HolderIsKnown
      /\ NoSelfWait /\ ImportingIsImported /\ BegunByState /\ GotIsImported
  BY DEF IndInv
<1> USE DEF UnlockLib, TypeOK, LibState, Goto, SetState, Push, lockVars, historyVars, fklUnlockVMlib
<1>1. \A u \in Threads : Loading(u)' = Loading(u) /\ Loading(u) \subseteq Libs
  BY <1>0 DEF Loading
<1>a. owner[lib[t]] = t /\ depth[lib[t]] = 1
  BY <1>0 DEF LockCounted, ImporterHoldsLock
<1>b. /\ owner' = [owner EXCEPT ![lib[t]] = NoThread]
      /\ depth' = [depth EXCEPT ![lib[t]] = 0]
  BY <1>0, <1>a
<1>2. TypeOK'
  <2>1. got' \in [Threads -> SUBSET Libs]
    <3>1. got[t] \cup {lib[t]} \in SUBSET Libs
      BY <1>0
    <3>2. got' = [got EXCEPT ![t] = got[t] \cup {lib[t]}] \/ got' = got
      BY <1>0
    <3> QED
      BY <1>0, <3>1, <3>2
  <2> QED
    BY <1>0, <1>b, <2>1
<1>3. AlongDeps'
  BY <1>0, <1>1 DEF AlongDeps
<1>4. LockCounted'
  BY <1>0, <1>1 DEF LockCounted, NoSelfWait, ImporterHoldsLock
<1>5. ImporterHoldsLock'
  BY <1>0, <1>1 DEF ImporterHoldsLock, Imports, ImportingIsImported, HolderIsKnown
<1>6. HolderIsKnown'
  BY <1>0, <1>1, <1>a, <1>b DEF HolderIsKnown, Imports, ImporterHoldsLock
<1>7. NoSelfWait'
  BY <1>0, <1>1 DEF NoSelfWait, HolderIsKnown, Imports, AlongDeps
<1>8. ImportingIsImported'
  BY <1>0, <1>1 DEF ImportingIsImported, Imports, ImporterHoldsLock
<1>9. BegunByState'
  BY <1>0, <1>1 DEF BegunByState, ImporterHoldsLock, Imports, ImportingIsImported
<1>10. GotIsImported'
  <2>1. CASE state[lib[t]] = "IMPORTED"
    <3>1. got' = [got EXCEPT ![t] = @ \cup {lib[t]}]
      BY <2>1
    <3> QED
      BY <1>0, <2>1, <3>1 DEF GotIsImported
  <2>2. CASE state[lib[t]] # "IMPORTED"
    BY <1>0, <2>2 DEF GotIsImported
  <2> QED
    BY <2>1, <2>2
<1> QED
  BY <1>2, <1>3, <1>4, <1>5, <1>6, <1>7, <1>8, <1>9, <1>10 DEF IndInv

\* BodyEnds keeps the invariant.
LEMMA BodyEndsStep ==
  ASSUME IndInv, NEW t \in Threads, NEW s \in {"IMPORTED", "ERROR"}, BodyEnds(t, s)
  PROVE  IndInv'
<1> USE LibsAssumption, AcyclicAssumption, ThreadsAssumption, OverflowsAssumption
<1>0. /\ TypeOK /\ AlongDeps /\ LockCounted /\ ImporterHoldsLock /\ HolderIsKnown
      /\ NoSelfWait /\ ImportingIsImported /\ BegunByState /\ GotIsImported
  BY DEF IndInv
<1> USE DEF BodyEnds, TypeOK, LibState, Goto, SetState, Push, lockVars, historyVars
<1>1. /\ Head(loading[t]) \in Loading(t)
      /\ Loading(t)' = Loading(t) \ {Head(loading[t])}
      /\ \A u \in Threads : u # t => Loading(u)' = Loading(u)
      /\ \A u \in Threads : Loading(u) \subseteq Libs
  <2>1. \A u \in Threads : Loading(u) \subseteq Libs
    BY <1>0, LoadingIsLibs
  <2>2. loading[t] # <<>> /\ loading' = [loading EXCEPT ![t] = Tail(@)]
    OBVIOUS
  <2> HIDE DEF BodyEnds
  <2> QED
    BY <1>0, <2>1, <2>2, LoadingAfterEnd
<1>2. TypeOK'
  BY <1>0, <1>1, LoadingAfterEnd DEF LockCounted, NoSelfWait, ImporterHoldsLock
<1>3. AlongDeps'
  BY <1>0, <1>1, LoadingAfterEnd DEF AlongDeps
<1>4. LockCounted'
  BY <1>0, <1>1 DEF LockCounted, NoSelfWait, ImporterHoldsLock
<1>5. ImporterHoldsLock'
  BY <1>0, <1>1 DEF ImporterHoldsLock, Imports, ImportingIsImported, HolderIsKnown
<1>6. HolderIsKnown'
  BY <1>0, <1>1 DEF HolderIsKnown, Imports, ImporterHoldsLock, ImportingIsImported
<1>7. NoSelfWait'
  BY <1>0, <1>1 DEF NoSelfWait, HolderIsKnown, Imports, AlongDeps
<1>8. ImportingIsImported'
  BY <1>0, <1>1 DEF ImportingIsImported, Imports, ImporterHoldsLock
<1>9. BegunByState'
  BY <1>0, <1>1 DEF BegunByState, ImporterHoldsLock, Imports, ImportingIsImported
<1>10. GotIsImported'
  BY <1>0, <1>1 DEF GotIsImported, ImportingIsImported, Imports
<1> QED
  BY <1>2, <1>3, <1>4, <1>5, <1>6, <1>7, <1>8, <1>9, <1>10 DEF IndInv

\* The initial states satisfy the invariant.
LEMMA IndInit == Init => IndInv
<1> SUFFICES ASSUME Init PROVE IndInv
  OBVIOUS
<1> USE ThreadsAssumption, OverflowsAssumption DEF Init
<1>1. TypeOK
  BY DEF TypeOK, LibState
<1>2. \A t \in Threads : Loading(t) = {} /\ pc[t] = "run" /\ DOMAIN loading[t] = {}
  BY DEF Loading
<1>3. AlongDeps /\ LockCounted /\ NoSelfWait /\ GotIsImported
  BY <1>2 DEF AlongDeps, LockCounted, NoSelfWait, GotIsImported
<1>4. ImporterHoldsLock /\ HolderIsKnown /\ ImportingIsImported /\ BegunByState
  BY <1>2 DEF ImporterHoldsLock, HolderIsKnown, ImportingIsImported, BegunByState,
              Imports
<1> QED
  BY <1>1, <1>3, <1>4 DEF IndInv

\* Every step of the specification keeps the invariant.
LEMMA IndStep == IndInv /\ [Next]_vars => IndInv'
<1> SUFFICES ASSUME IndInv, [Next]_vars PROVE IndInv'
  OBVIOUS
<1>1. CASE UNCHANGED vars
  <2>1. \A t \in Threads : Loading(t)' = Loading(t)
    BY <1>1 DEF vars, Loading
  <2> QED
    BY <1>1, <2>1 DEF vars, IndInv, TypeOK, AlongDeps, LockCounted, ImporterHoldsLock,
      HolderIsKnown, NoSelfWait, ImportingIsImported, BegunByState, GotIsImported, Imports
<1>2. ASSUME NEW t \in Threads, NEW l \in Libs, LOAD_LIB(t, l) PROVE IndInv'
  BY <1>2, LOAD_LIBStep
<1>3. ASSUME NEW t \in Threads, ImportStep(t) PROVE IndInv'
  BY <1>3, LockLibStep, LoadBeginsStep, AlreadySettledStep, CallOverflowsStep,
     BodyBeginsStep, DllFailsStep, UnlockLibStep DEF ImportStep
<1>4. ASSUME NEW t \in Threads, Settle(t) PROVE IndInv'
  BY <1>4, BodyEndsStep DEF Settle
<1> QED
  BY <1>1, <1>2, <1>3, <1>4 DEF Next

-----------------------------------------------------------------------------
(* The theorems. *)

\* The invariant the other theorems rest on: IndInv is inductive.
THEOREM Invariance == Spec => []IndInv
BY IndInit, IndStep, PTL DEF Spec

\* Types, and no thread ever holds the recursive lock of a library twice.
THEOREM TypeCorrect == Spec => []TypeOK
<1>1. IndInv => TypeOK
  BY DEF IndInv
<1> QED
  BY Invariance, <1>1, PTL

\* However many threads ask for a library, its body runs at most once, also
\* when calls of it run out of stack and are repeated (load_lib, load_dll).
THEOREM RunsOnce == Spec => []BodyRunsOnce
<1>1. IndInv => BodyRunsOnce
  BY DEF IndInv, BegunByState, BodyRunsOnce
<1> QED
  BY Invariance, <1>1, PTL

\* The FKL_UNREACHABLE of LOAD_LIB is never reached: a thread past the lock
\* does not find the library being imported, by another or by itself.
THEOREM Unreachable == Spec => []NeverUnreachable
<1>1. ASSUME IndInv, NEW t \in Threads, pc[t] = "switch",
             state[lib[t]] = "IMPORTING"
      PROVE  FALSE
  <2>1. TypeOK /\ ImporterHoldsLock /\ ImportingIsImported
    BY <1>1 DEF IndInv
  <2>2. lib[t] \in Libs /\ owner[lib[t]] = t
    BY <1>1, <2>1 DEF TypeOK, ImporterHoldsLock
  <2>3. Imports(t, lib[t])
    BY <1>1, <2>1, <2>2 DEF ImportingIsImported
  <2>4. lib[t] \in Loading(t)
    BY <1>1, <2>3 DEF Imports
  <2>5. Rank[lib[t]] < Rank[lib[t]]
    BY <1>1, <2>4 DEF IndInv, AlongDeps
  <2> QED
    BY <2>2, <2>5, AcyclicAssumption
<1>2. IndInv => NeverUnreachable
  BY <1>1 DEF NeverUnreachable
<1> QED
  BY Invariance, <1>2, PTL

\* What a thread has on its stack was loaded completely (AlreadySettled,
\* UnlockLib push only what is IMPORTED, and no library leaves that state).
THEOREM CompleteWhenPushed == Spec => []GotIsComplete
<1>1. ASSUME IndInv, NEW t \in Threads, NEW l \in got[t]
      PROVE  /\ state[l] = "IMPORTED"
             /\ begun[l] = 1
             /\ \A u \in Threads : l \notin Loading(u)
  <2>1. l \in Libs /\ state[l] = "IMPORTED"
    BY <1>1 DEF IndInv, TypeOK, GotIsImported
  <2> QED
    BY <1>1, <2>1 DEF IndInv, BegunByState, ImportingIsImported, Imports
<1>2. IndInv => GotIsComplete
  BY <1>1 DEF GotIsComplete
<1> QED
  BY Invariance, <1>2, PTL

\* A library that is settled stays as it is: neither a late reader of NONE
\* nor a failed call takes it back (an action property, from IndInv).
THEOREM SettledForGood ==
  Spec => [][\A l \in Libs : state[l] \in {"IMPORTED", "ERROR"} =>
                state'[l] = state[l]]_vars
<1> DEFINE A == \A l \in Libs : state[l] \in {"IMPORTED", "ERROR"} =>
                   state'[l] = state[l]
<1>1. ASSUME IndInv, Next PROVE A
  <2>1. TypeOK /\ ImportingIsImported /\ AlongDeps
    BY <1>1 DEF IndInv
  <2> USE DEF TypeOK, SetState
  <2>2. ASSUME NEW t \in Threads, NEW l \in Libs, LOAD_LIB(t, l) PROVE A
    BY <2>2 DEF LOAD_LIB
  <2>3. ASSUME NEW t \in Threads, LockLib(t) \/ AlreadySettled(t) \/ BodyBegins(t)
                                  \/ UnlockLib(t) PROVE A
    BY <2>3 DEF LockLib, AlreadySettled, BodyBegins, UnlockLib
  <2>4. ASSUME NEW t \in Threads, LoadBegins(t) PROVE A
    BY <2>1, <2>4 DEF LoadBegins
  <2>5. ASSUME NEW t \in Threads, CallOverflows(t) \/ DllFails(t) PROVE A
    BY <2>1, <2>5 DEF CallOverflows, DllFails, ImportingIsImported, Imports
  <2>6. ASSUME NEW t \in Threads, NEW s \in {"IMPORTED", "ERROR"}, BodyEnds(t, s)
        PROVE  A
    <3>1. /\ Head(loading[t]) \in Loading(t) /\ Head(loading[t]) \in Libs
          /\ state' = [state EXCEPT ![Head(loading[t])] = s]
      BY <2>1, <2>6, LoadingAfterEnd DEF BodyEnds
    <3>2. state[Head(loading[t])] = "IMPORTING"
      BY <2>1, <3>1 DEF ImportingIsImported, Imports
    <3> QED
      BY <2>1, <3>1, <3>2
  <2> QED
    BY <1>1, <2>2, <2>3, <2>4, <2>5, <2>6 DEF Next, ImportStep, Settle
<1>2. IndInv /\ [Next]_vars => [A]_vars
  BY <1>1
<1> QED
  BY Invariance, <1>2, PTL DEF Spec

=============================================================================
