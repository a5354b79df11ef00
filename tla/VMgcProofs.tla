----------------------------- MODULE VMgcProofs -----------------------------
(***************************************************************************)
(* Theorems about VMgc, for any sets of VMs, objects and names and any     *)
(* modes of the weak tables.                                               *)
(***************************************************************************)
EXTENDS VMgc, TLAPS

Marks == Gray \cup Black

\* Every object is on one list; those of the VMs are empty while a collection
\* runs, and the white list is used by the sweep only.
Lists ==
    /\ Alive = head \cup white \cup Fresh
    /\ head \cap white = {}
    /\ phase # "NONE" => \A v \in VMs : fresh[v] = {}
    /\ phase # "SWEEPING" => white = {}

\* Only a box has refs, only a weak table has entries, only symbols have names.
Shape ==
    \A o \in Objs :
        /\ kind[o] # "box" => refs[o] = {}
        /\ ~IsWeak(o) => entries[o] = {}
        /\ kind[o] \in {"sym", "usym"} => name[o] \in Names

\* What a collection has marked: allocated objects, among them the roots, and
\* what the black ones mark; nothing outside of a collection.
Marking ==
    /\ phase \in {"NONE", "SWEEPING"} => Marks = {}
    /\ Marks \subseteq Alive
    /\ phase \in {"PROPAGATE", "COLLECT"} =>
          /\ Roots \subseteq Marks
          /\ \A o \in Black : Marked(o) \subseteq Marks
    /\ phase = "PROPAGATE" =>
          \A S \in SUBSET Objs : Closed(S) => Marks \subseteq S

\* Once the weak references are updated, the black objects and the obarray hold
\* marked objects only.
WeakUpdated ==
    phase = "COLLECT" =>
        /\ Gray = {}
        /\ \A o \in Black : \A e \in entries[o] : e[1] \in Black /\ e[2] \in Black
        /\ \A n \in Names : obarray[n] \in Black \cup {NoObj}

\* An interned symbol is the one the obarray has for its name, unless it is
\* about to be swept.
Interned ==
    \A o \in Kept :
        kind[o] = "sym" /\ (phase = "COLLECT" => o \in Black)
            => obarray[name[o]] = o

IInv ==
    /\ TypeOK
    /\ Lists
    /\ Shape
    /\ NoDangling
    /\ Marking
    /\ WeakUpdated
    /\ Interned

-----------------------------------------------------------------------------
LEMMA InitIInv == Init => IInv
  <1> SUFFICES ASSUME Init PROVE IInv
    OBVIOUS
  <1>2. TypeOK
    BY DEF Init, TypeOK
  <1>3. Alive = {} /\ Roots = {} /\ Gray = {} /\ Black = {}
    BY DEF Init, Alive, Roots, Gray, Black
  <1>4. Lists /\ Shape /\ Interned
    <2>1. Fresh = {}
      BY DEF Init, Fresh
    <2> QED
      BY <1>3, <2>1 DEF Init, Lists, Shape, Interned, Kept
  <1>5. NoDangling
    BY <1>3 DEF Init, NoDangling, Kept
  <1>6. Marking /\ WeakUpdated
    BY <1>3 DEF Init, Marking, WeakUpdated, Marks
  <1> QED
    BY <1>2, <1>4, <1>5, <1>6 DEF IInv

\* The heap, the marks and the phase stay: only the roots change, and hold kept
\* objects.
LEMMA RootsOnly ==
  ASSUME IInv, phase = "NONE", Roots' \subseteq Kept,
         roots' \in [VMs -> SUBSET Objs],
         UNCHANGED <<heapVars, obarray, fresh, head, white, mark, phase>>
  PROVE  IInv'
  <1>1. TypeOK'
    BY DEF IInv, TypeOK, heapVars
  <1>2. Lists' /\ Shape' /\ Interned' /\ WeakUpdated'
    BY DEF IInv, Lists, Shape, Interned, WeakUpdated, Alive, Kept, Fresh,
           Black, Gray, heapVars, IsWeak
  <1>3. NoDangling'
    BY DEF IInv, NoDangling, Kept, Alive, heapVars
  <1>4. Marking'
    BY DEF IInv, Marking, Marks, Gray, Black, Alive, heapVars
  <1> QED
    BY <1>1, <1>2, <1>3, <1>4 DEF IInv

LEMMA LoadIInv ==
  ASSUME IInv, NEW v \in VMs, NEW p \in Objs, Load(v, p)
  PROVE  IInv'
  <1>1. roots \in [VMs -> SUBSET Objs]
    BY DEF IInv, TypeOK
  <1>2. p \in Kept
    BY DEF Load, IInv, NoDangling, Roots
  <1>3. Roots \subseteq Kept
    BY DEF IInv, NoDangling
  <1>4. Roots' \subseteq Kept
    BY <1>1, <1>2, <1>3 DEF Load, Roots
  <1> QED
    BY <1>1, <1>4, RootsOnly DEF Load

LEMMA DropIInv ==
  ASSUME IInv, NEW v \in VMs, NEW o \in Objs, Drop(v, o)
  PROVE  IInv'
  <1>1. roots \in [VMs -> SUBSET Objs]
    BY DEF IInv, TypeOK
  <1>2. Roots' \subseteq Kept
    BY <1>1 DEF Drop, Roots, IInv, NoDangling
  <1> QED
    BY <1>1, <1>2, RootsOnly DEF Drop

LEMMA InternFoundIInv ==
  ASSUME IInv, NEW v \in VMs, NEW n \in Names, InternFound(v, n)
  PROVE  IInv'
  <1>1. roots \in [VMs -> SUBSET Objs]
    BY DEF IInv, TypeOK
  <1>2. obarray[n] \in Kept /\ Kept \subseteq Objs
    BY DEF InternFound, IInv, NoDangling, Kept, Alive
  <1>3. Roots' \subseteq Kept
    BY <1>1, <1>2 DEF InternFound, Roots, IInv, NoDangling
  <1> QED
    BY <1>1, <1>2, <1>3, RootsOnly DEF InternFound

LEMMA WeakGetIInv ==
  ASSUME IInv, NEW v \in VMs, NEW w \in Objs, NEW k \in Objs, WeakGet(v, w, k)
  PROVE  IInv'
  <1>1. roots \in [VMs -> SUBSET Objs]
    BY DEF IInv, TypeOK
  <1>2. PICK e \in entries[w] : roots' = [roots EXCEPT ![v] = @ \cup {e[2]}]
    BY DEF WeakGet
  <1>3. w \in Kept
    BY DEF WeakGet, IInv, NoDangling, Roots
  <1>4. e[2] \in Kept /\ Kept \subseteq Objs
    BY <1>2, <1>3 DEF IInv, NoDangling, Kept, Alive
  <1>5. Roots' \subseteq Kept
    BY <1>1, <1>2, <1>4 DEF Roots, IInv, NoDangling
  <1> QED
    BY <1>1, <1>2, <1>4, <1>5, RootsOnly DEF WeakGet

-----------------------------------------------------------------------------
\* A new object is empty, white, on the list of its VM and on its stack.
LEMMA NewObject ==
  ASSUME IInv, phase = "NONE", NEW v \in VMs, NEW o \in Objs,
         NEW k \in Modes \cup {"box", "sym", "usym"}, fklAddToGC(v, o, k),
         UNCHANGED <<refs, entries, head, white, mark, phase>>
  PROVE  /\ o \notin Alive
         /\ Alive' = Alive \cup {o}
         /\ Kept' = Kept \cup {o}
         /\ Roots' = Roots \cup {o}
         /\ kind' = [kind EXCEPT ![o] = k]
         /\ refs'[o] = {} /\ entries'[o] = {}
         /\ Lists' /\ Marking' /\ WeakUpdated'
         /\ kind' \in [Objs -> Modes \cup {"free", "box", "sym", "usym"}]
         /\ roots' \in [VMs -> SUBSET Objs]
         /\ fresh' \in [VMs -> SUBSET Objs]
  <1>1. TypeOK /\ Lists /\ Shape /\ Marking
    BY DEF IInv
  <1>2. /\ kind[o] = "free"
        /\ kind' = [kind EXCEPT ![o] = k]
        /\ fresh' = [fresh EXCEPT ![v] = @ \cup {o}]
        /\ roots' = [roots EXCEPT ![v] = @ \cup {o}]
    BY DEF fklAddToGC
  <1>3. /\ kind' \in [Objs -> Modes \cup {"free", "box", "sym", "usym"}]
        /\ roots' \in [VMs -> SUBSET Objs]
        /\ fresh' \in [VMs -> SUBSET Objs]
    BY <1>1, <1>2 DEF TypeOK
  <1>4. o \notin Alive /\ Alive' = Alive \cup {o}
    BY <1>1, <1>2 DEF TypeOK, Alive, IsWeak, Modes
  <1>5. white = {} /\ white' = {}
    BY <1>1 DEF Lists
  <1>6. Kept' = Kept \cup {o}
    BY <1>4, <1>5 DEF Kept
  <1>7. Roots' = Roots \cup {o}
    BY <1>1, <1>2 DEF TypeOK, Roots
  <1>8. refs'[o] = {} /\ entries'[o] = {}
    BY <1>1, <1>2 DEF Shape, IsWeak, Modes
  <1>9. Lists'
    <2>1. Fresh' = Fresh \cup {o}
      BY <1>1, <1>2 DEF TypeOK, Fresh
    <2> QED
      BY <1>1, <1>4, <1>5, <2>1 DEF Lists
  <1>10. Marking' /\ WeakUpdated'
    BY <1>1, <1>4 DEF Marking, WeakUpdated, Marks, Gray, Black
  <1> QED
    BY <1>2, <1>3, <1>4, <1>6, <1>7, <1>8, <1>9, <1>10

LEMMA CreateIInv ==
  ASSUME IInv, NEW v \in VMs, NEW o \in Objs, NEW k \in Modes \cup {"box"},
         Create(v, o, k)
  PROVE  IInv'
  <1>1. /\ o \notin Alive
        /\ Kept' = Kept \cup {o}
        /\ Roots' = Roots \cup {o}
        /\ kind' = [kind EXCEPT ![o] = k]
        /\ refs'[o] = {} /\ entries'[o] = {}
        /\ Lists' /\ Marking' /\ WeakUpdated'
        /\ kind' \in [Objs -> Modes \cup {"free", "box", "sym", "usym"}]
        /\ roots' \in [VMs -> SUBSET Objs]
        /\ fresh' \in [VMs -> SUBSET Objs]
    BY NewObject DEF Create
  <1>2. UNCHANGED <<refs, entries, name, obarray, head, white, mark, phase>>
        /\ phase = "NONE"
    BY DEF Create
  <1>3. TypeOK'
    BY <1>1, <1>2 DEF IInv, TypeOK
  <1>4. NoDangling'
    BY <1>1, <1>2 DEF IInv, NoDangling
  <1>5. Shape'
    BY <1>1, <1>2 DEF IInv, Shape, TypeOK, IsWeak, Modes
  <1>6. Interned'
    BY <1>1, <1>2 DEF IInv, Interned, Kept, Alive, TypeOK, IsWeak, Modes
  <1> QED
    BY <1>1, <1>3, <1>4, <1>5, <1>6 DEF IInv

LEMMA MakeSymbolIInv ==
  ASSUME IInv, NEW v \in VMs, NEW n \in Names, NEW o \in Objs,
         MakeSymbol(v, n, o)
  PROVE  IInv'
  <1>1. /\ o \notin Alive
        /\ Kept' = Kept \cup {o}
        /\ Roots' = Roots \cup {o}
        /\ kind' = [kind EXCEPT ![o] = "usym"]
        /\ refs'[o] = {} /\ entries'[o] = {}
        /\ Lists' /\ Marking' /\ WeakUpdated'
        /\ kind' \in [Objs -> Modes \cup {"free", "box", "sym", "usym"}]
        /\ roots' \in [VMs -> SUBSET Objs]
        /\ fresh' \in [VMs -> SUBSET Objs]
    BY NewObject DEF MakeSymbol
  <1>2. UNCHANGED <<refs, entries, obarray, head, white, mark, phase>>
        /\ phase = "NONE" /\ name' = [name EXCEPT ![o] = n]
    BY DEF MakeSymbol
  <1>3. TypeOK'
    BY <1>1, <1>2 DEF IInv, TypeOK
  <1>4. NoDangling'
    BY <1>1, <1>2 DEF IInv, NoDangling
  <1>5. Shape'
    BY <1>1, <1>2 DEF IInv, Shape, TypeOK, IsWeak, Modes
  <1>6. Interned'
    BY <1>1, <1>2 DEF IInv, Interned, Kept, Alive, TypeOK
  <1> QED
    BY <1>1, <1>3, <1>4, <1>5, <1>6 DEF IInv

LEMMA InternNewIInv ==
  ASSUME IInv, NEW v \in VMs, NEW n \in Names, NEW o \in Objs,
         InternNew(v, n, o)
  PROVE  IInv'
  <1>1. /\ o \notin Alive
        /\ Kept' = Kept \cup {o}
        /\ Roots' = Roots \cup {o}
        /\ kind' = [kind EXCEPT ![o] = "sym"]
        /\ refs'[o] = {} /\ entries'[o] = {}
        /\ Lists' /\ Marking' /\ WeakUpdated'
        /\ kind' \in [Objs -> Modes \cup {"free", "box", "sym", "usym"}]
        /\ roots' \in [VMs -> SUBSET Objs]
        /\ fresh' \in [VMs -> SUBSET Objs]
    BY NewObject DEF InternNew
  <1>2. UNCHANGED <<refs, entries, head, white, mark, phase>>
        /\ phase = "NONE" /\ name' = [name EXCEPT ![o] = n]
        /\ obarray[n] = NoObj /\ obarray' = [obarray EXCEPT ![n] = o]
    BY DEF InternNew
  <1>3. TypeOK'
    BY <1>1, <1>2 DEF IInv, TypeOK
  <1>4. NoDangling'
    BY <1>1, <1>2 DEF IInv, NoDangling, TypeOK
  <1>5. Shape'
    BY <1>1, <1>2 DEF IInv, Shape, TypeOK, IsWeak, Modes
  <1>6. Interned'
    <2>1. SUFFICES ASSUME NEW p \in Kept', kind'[p] = "sym"
                   PROVE  obarray'[name'[p]] = p
      BY DEF Interned
    <2>2. CASE p = o
      BY <1>2, <2>2 DEF IInv, TypeOK
    <2>3. CASE p # o
      <3>1. p \in Kept /\ kind[p] = "sym" /\ p \in Objs /\ name'[p] = name[p]
        BY <1>1, <1>2, <2>1, <2>3 DEF IInv, TypeOK, Kept, Alive
      <3>2. obarray[name[p]] = p /\ name[p] \in Names
        BY <1>2, <3>1 DEF IInv, Interned, Shape
      <3>3. name[p] # n
        BY <1>2, <3>1, <3>2, NoObjAssumption
      <3> QED
        BY <1>2, <3>1, <3>2, <3>3 DEF IInv, TypeOK
    <2> QED
      BY <2>2, <2>3
  <1> QED
    BY <1>1, <1>3, <1>4, <1>5, <1>6 DEF IInv

LEMMA LinkIInv ==
  ASSUME IInv, NEW v \in VMs, NEW o \in Objs, NEW p \in Objs, Link(v, o, p)
  PROVE  IInv'
  <1>1. /\ phase = "NONE" /\ kind[o] = "box"
        /\ refs' = [refs EXCEPT ![o] = IF p \in @ THEN @ \ {p} ELSE @ \cup {p}]
        /\ UNCHANGED <<kind, entries, name, obarray, roots, fresh, head, white,
                       mark, phase>>
    BY DEF Link
  <1>2. o \in Kept /\ p \in Kept
    BY DEF Link, IInv, NoDangling, Roots
  <1>3. Kept' = Kept /\ Alive' = Alive /\ Roots' = Roots /\ Fresh' = Fresh
    BY <1>1 DEF Kept, Alive, Roots, Fresh
  <1>4. TypeOK'
    BY <1>1 DEF IInv, TypeOK
  <1>5. Lists' /\ Interned' /\ WeakUpdated'
    BY <1>1, <1>3 DEF IInv, Lists, Interned, WeakUpdated, Black, Gray
  <1>6. Shape'
    BY <1>1 DEF IInv, Shape, TypeOK, IsWeak, Modes
  <1>7. NoDangling'
    BY <1>1, <1>2, <1>3 DEF IInv, NoDangling, TypeOK
  <1>8. Marking'
    BY <1>1, <1>3 DEF IInv, Marking, Marks, Gray, Black
  <1> QED
    BY <1>4, <1>5, <1>6, <1>7, <1>8 DEF IInv

LEMMA WeakPutIInv ==
  ASSUME IInv, NEW v \in VMs, NEW w \in Objs, NEW k \in Objs, NEW x \in Objs,
         WeakPut(v, w, k, x)
  PROVE  IInv'
  <1>1. /\ phase = "NONE" /\ IsWeak(w)
        /\ entries' = [entries EXCEPT ![w] =
                         {e \in @ : e[1] # k} \cup {<<k, x>>}]
        /\ UNCHANGED <<kind, refs, name, obarray, roots, fresh, head, white,
                       mark, phase>>
    BY DEF WeakPut
  <1>2. w \in Kept /\ k \in Kept /\ x \in Kept
    BY DEF WeakPut, IInv, NoDangling, Roots
  <1>3. Kept' = Kept /\ Alive' = Alive /\ Roots' = Roots /\ Fresh' = Fresh
    BY <1>1 DEF Kept, Alive, Roots, Fresh
  <1>4. TypeOK'
    BY <1>1 DEF IInv, TypeOK
  <1>5. Lists' /\ Interned' /\ WeakUpdated'
    BY <1>1, <1>3 DEF IInv, Lists, Interned, WeakUpdated, Black, Gray
  <1>6. Shape'
    BY <1>1 DEF IInv, Shape, TypeOK, IsWeak, Modes
  <1>7. NoDangling'
    <2>1. \A o \in Kept : \A e \in entries'[o] : e[1] \in Kept /\ e[2] \in Kept
      BY <1>1, <1>2 DEF IInv, NoDangling, TypeOK, Kept, Alive
    <2> QED
      BY <1>1, <1>3, <2>1 DEF IInv, NoDangling
  <1>8. Marking'
    BY <1>1, <1>3 DEF IInv, Marking, Marks, Gray, Black
  <1> QED
    BY <1>4, <1>5, <1>6, <1>7, <1>8 DEF IInv

LEMMA AddSymbolValueIInv ==
  ASSUME IInv, NEW v \in VMs, NEW o \in Objs, fklVMaddSymbolValue(v, o)
  PROVE  IInv'
  <1>1. /\ phase = "NONE" /\ kind[o] = "usym" /\ obarray[name[o]] = NoObj
        /\ kind' = [kind EXCEPT ![o] = "sym"]
        /\ obarray' = [obarray EXCEPT ![name[o]] = o]
        /\ UNCHANGED <<refs, entries, name, roots, fresh, head, white, mark,
                       phase>>
    BY DEF fklVMaddSymbolValue
  <1>2. o \in Kept /\ name[o] \in Names
    BY <1>1 DEF fklVMaddSymbolValue, IInv, NoDangling, Roots, Shape
  <1>3. Kept' = Kept /\ Alive' = Alive /\ Roots' = Roots /\ Fresh' = Fresh
    BY <1>1 DEF Kept, Alive, Roots, Fresh, IInv, TypeOK
  <1>4. TypeOK'
    BY <1>1 DEF IInv, TypeOK
  <1>5. Lists' /\ WeakUpdated'
    BY <1>1, <1>3 DEF IInv, Lists, WeakUpdated
  <1>6. Shape'
    BY <1>1 DEF IInv, Shape, TypeOK, IsWeak, Modes
  <1>7. NoDangling'
    BY <1>1, <1>2, <1>3 DEF IInv, NoDangling, TypeOK
  <1>8. Marking'
    BY <1>1, <1>3 DEF IInv, Marking, Marks, Gray, Black
  <1>9. Interned'
    <2>1. SUFFICES ASSUME NEW p \in Kept, kind'[p] = "sym", p # o
                   PROVE  obarray'[name[p]] = p
      BY <1>1, <1>2, <1>3 DEF Interned, IInv, TypeOK
    <2>2. p \in Objs /\ kind[p] = "sym"
      BY <1>1, <2>1 DEF Kept, Alive, IInv, TypeOK
    <2>3. obarray[name[p]] = p /\ name[p] \in Names
      BY <1>1, <2>1, <2>2 DEF IInv, Interned, Shape
    <2>4. name[p] # name[o]
      BY <1>1, <2>2, <2>3, NoObjAssumption
    <2> QED
      BY <1>1, <1>2, <2>3, <2>4 DEF IInv, TypeOK
  <1> QED
    BY <1>4, <1>5, <1>6, <1>7, <1>8, <1>9 DEF IInv

-----------------------------------------------------------------------------
LEMMA MarkRootsIInv ==
  ASSUME IInv, fklVMgcMarkAllRootToGray
  PROVE  IInv'
  <1>1. /\ phase = "NONE" /\ phase' = "PROPAGATE"
        /\ head' = head \cup Fresh
        /\ fresh' = [v \in VMs |-> {}]
        /\ mark' = fklVMgcToGray(mark, Roots)
        /\ UNCHANGED <<kind, refs, entries, name, obarray, roots, white>>
    BY DEF fklVMgcMarkAllRootToGray, heapVars
  <1>2. Kept' = Kept /\ Alive' = Alive /\ Roots' = Roots
    BY <1>1 DEF Kept, Alive, Roots
  <1>3. Fresh' = {} /\ Fresh \subseteq Alive /\ white = {}
    BY <1>1 DEF Fresh, IInv, Lists
  <1>4. \A o \in Objs : mark[o] = "W"
    BY <1>1 DEF IInv, Marking, TypeOK, Marks, Gray, Black
  <1>5. Gray' = Roots /\ Black' = {}
    <2>1. Roots \subseteq Objs
      BY DEF IInv, NoDangling, Kept, Alive
    <2> QED
      BY <1>1, <1>4, <2>1 DEF fklVMgcToGray, Gray, Black
  <1>6. TypeOK'
    <2>1. mark' \in [Objs -> {"W", "G", "B"}]
      BY <1>1 DEF fklVMgcToGray, IInv, TypeOK
    <2>2. head' \subseteq Objs
      BY <1>1, <1>3 DEF IInv, TypeOK, Alive
    <2> QED
      BY <1>1, <2>1, <2>2 DEF IInv, TypeOK
  <1>7. Lists'
    BY <1>1, <1>2, <1>3 DEF IInv, Lists
  <1>8. Shape' /\ NoDangling'
    BY <1>1, <1>2 DEF IInv, Shape, NoDangling, IsWeak
  <1>9. WeakUpdated' /\ Interned'
    BY <1>1, <1>2 DEF IInv, WeakUpdated, Interned
  <1>10. Marking'
    <2>1. Marks' = Roots'
      BY <1>2, <1>5 DEF Marks
    <2>2. Marks' \subseteq Alive'
      BY <2>1, <1>2 DEF IInv, NoDangling, Kept
    <2>3. \A S \in SUBSET Objs : Closed(S)' => Marks' \subseteq S
      BY <2>1 DEF Closed
    <2> QED
      BY <1>1, <1>5, <2>1, <2>2, <2>3 DEF Marking
  <1> QED
    BY <1>6, <1>7, <1>8, <1>9, <1>10 DEF IInv

LEMMA PropagateIInv ==
  ASSUME IInv, NEW o \in Objs, fklVMgcPropagate(o)
  PROVE  IInv'
  <1>1. /\ phase = "PROPAGATE" /\ mark[o] = "G"
        /\ mark' = fklVMgcToGray([mark EXCEPT ![o] = "B"], Marked(o))
        /\ UNCHANGED <<kind, refs, entries, name, obarray, roots, fresh, head,
                       white, phase>>
    BY DEF fklVMgcPropagate, heapVars
  <1>2. /\ Kept' = Kept /\ Alive' = Alive /\ Roots' = Roots /\ Fresh' = Fresh
        /\ \A p \in Objs : Marked(p)' = Marked(p)
    BY <1>1 DEF Kept, Alive, Roots, Fresh, Marked, IsWeak, WeakKeys,
                WeakValues
  <1>3. \A S \in SUBSET Objs : Closed(S)' = Closed(S)
    BY <1>1, <1>2 DEF Closed
  <1>4. Marked(o) \subseteq Alive
    <2>1. o \in Kept /\ Kept \subseteq Alive
      BY <1>1 DEF IInv, Marking, Marks, Gray, Lists, Kept
    <2> QED
      BY <2>1 DEF Marked, IInv, NoDangling
  <1>5. Alive \subseteq Objs
    BY DEF Alive
  <1>6. mark' \in [Objs -> {"W", "G", "B"}]
    BY <1>1 DEF fklVMgcToGray, IInv, TypeOK
  <1>7. Black' = Black \cup {o}
    BY <1>1, <1>6 DEF fklVMgcToGray, Black, IInv, TypeOK
  <1>8. Marks' = Marks \cup Marked(o)
    BY <1>1, <1>4, <1>5 DEF fklVMgcToGray, Marks, Black, Gray, IInv, TypeOK
  <1>9. TypeOK'
    BY <1>1, <1>6 DEF IInv, TypeOK
  <1>10. Lists' /\ Shape' /\ NoDangling' /\ WeakUpdated' /\ Interned'
    BY <1>1, <1>2 DEF IInv, Lists, Shape, NoDangling, WeakUpdated, Interned, IsWeak
  <1>11. Marking'
    <2>1. Marks' \subseteq Alive'
      BY <1>2, <1>4, <1>8 DEF IInv, Marking
    <2>2. Roots' \subseteq Marks'
      BY <1>1, <1>2, <1>8 DEF IInv, Marking
    <2>3. \A p \in Black' : Marked(p)' \subseteq Marks'
      BY <1>1, <1>2, <1>7, <1>8 DEF IInv, Marking, Black
    <2>4. \A S \in SUBSET Objs : Closed(S)' => Marks' \subseteq S
      <3>1. o \in Marks
        BY <1>1 DEF Marks, Gray
      <3> QED
        BY <1>1, <1>3, <1>8, <3>1 DEF IInv, Marking, Closed
    <2> QED
      BY <1>1, <2>1, <2>2, <2>3, <2>4 DEF Marking
  <1> QED
    BY <1>9, <1>10, <1>11 DEF IInv

LEMMA UpdateWeakRefsIInv ==
  ASSUME IInv, fklVMgcUpdateWeakRefs
  PROVE  IInv'
  <1>1. /\ phase = "PROPAGATE" /\ phase' = "COLLECT" /\ Gray = {}
        /\ entries' = [w \in Objs |->
                         IF IsWeak(w) /\ mark[w] = "B"
                         THEN {e \in entries[w] : ~Dead(w, e)} ELSE entries[w]]
        /\ obarray' = LiveSymbols
        /\ UNCHANGED <<kind, refs, name, roots, fresh, head, white, mark>>
    BY DEF fklVMgcUpdateWeakRefs, Gray
  <1>2. /\ Kept' = Kept /\ Alive' = Alive /\ Roots' = Roots /\ Fresh' = Fresh
        /\ Gray' = Gray /\ Black' = Black /\ Marks' = Marks
    BY <1>1 DEF Kept, Alive, Roots, Fresh, Gray, Black, Marks
  <1>3. \A w \in Objs : entries'[w] \subseteq entries[w]
    BY <1>1
  <1>4. \A w \in Objs : Marked(w)' \subseteq Marked(w)
    BY <1>1, <1>3 DEF Marked, IsWeak, WeakKeys, WeakValues, Modes
  <1>5. \A n \in Names : obarray'[n] \in {obarray[n], NoObj}
    BY <1>1 DEF LiveSymbols
  <1>6. TypeOK'
    <2>1. entries' \in [Objs -> SUBSET (Objs \X Objs)]
      BY <1>1, <1>3 DEF IInv, TypeOK
    <2>2. obarray' \in [Names -> Objs \cup {NoObj}]
      BY <1>1 DEF LiveSymbols, IInv, TypeOK
    <2> QED
      BY <1>1, <2>1, <2>2 DEF IInv, TypeOK
  <1>7. Lists'
    BY <1>1, <1>2 DEF IInv, Lists
  <1>8. Shape'
    BY <1>1, <1>3 DEF IInv, Shape, IsWeak
  <1>9. NoDangling'
    BY <1>1, <1>2, <1>3, <1>5 DEF IInv, NoDangling, Kept, Alive
  <1>10. Marking'
    BY <1>1, <1>2, <1>4 DEF IInv, Marking, Black
  <1>11. WeakUpdated'
    <2>1. ASSUME NEW w \in Black, NEW e \in entries'[w]
          PROVE  e[1] \in Black /\ e[2] \in Black
      <3>1. w \in Objs /\ mark[w] = "B" /\ IsWeak(w)
        BY <1>3, <2>1 DEF Black, IInv, Shape
      <3>2. e \in entries[w] /\ ~Dead(w, e) /\ e[1] \in Objs /\ e[2] \in Objs
        BY <1>1, <3>1, <2>1 DEF IInv, TypeOK
      <3>3. Marked(w) \subseteq Black
        BY <1>1, <2>1 DEF IInv, Marking, Marks
      <3>4. ~WeakKeys(w) => e[1] \in Marked(w)
        BY <3>1, <3>2 DEF Marked
      <3>5. ~WeakValues(w) => e[2] \in Marked(w)
        BY <3>1, <3>2 DEF Marked
      <3>6. \A p \in Objs : mark[p] = "W" \/ p \in Black
        BY <1>1 DEF Gray, Black, IInv, TypeOK
      <3> QED
        BY <3>2, <3>3, <3>4, <3>5, <3>6 DEF Dead
    <2>2. ASSUME NEW n \in Names
          PROVE  obarray'[n] \in Black \cup {NoObj}
      BY <1>1 DEF LiveSymbols, Gray, Black, IInv, TypeOK
    <2> QED
      BY <1>1, <1>2, <2>1, <2>2 DEF WeakUpdated
  <1>12. Interned'
    <2>1. SUFFICES ASSUME NEW p \in Kept, kind[p] = "sym", p \in Black
                   PROVE  obarray'[name[p]] = p
      BY <1>1, <1>2 DEF Interned
    <2>2. obarray[name[p]] = p /\ name[p] \in Names /\ mark[p] = "B"
      BY <1>1, <2>1 DEF IInv, Interned, Shape, Black
    <2> QED
      BY <1>1, <2>2 DEF LiveSymbols
  <1> QED
    BY <1>6, <1>7, <1>8, <1>9, <1>10, <1>11, <1>12 DEF IInv

LEMMA CollectIInv ==
  ASSUME IInv, fklVMgcCollect
  PROVE  IInv'
  <1>1. /\ phase = "COLLECT" /\ phase' = "SWEEPING"
        /\ white' = {o \in head : mark[o] = "W"}
        /\ head' = {o \in head : mark[o] # "W"}
        /\ mark' = [o \in Objs |-> IF o \in head THEN "W" ELSE mark[o]]
        /\ UNCHANGED <<kind, refs, entries, name, obarray, roots, fresh>>
    BY DEF fklVMgcCollect, heapVars
  <1>2. Alive' = Alive /\ Roots' = Roots /\ Fresh' = Fresh
    BY <1>1 DEF Alive, Roots, Fresh
  <1>3. Alive = head /\ Fresh = {} /\ white = {}
    BY <1>1 DEF IInv, Lists, Fresh
  <1>4. Gray = {} /\ Marks = Black
    BY <1>1 DEF IInv, WeakUpdated, Marks
  <1>5. head' = Black /\ Kept' = Black /\ Black \subseteq Kept
    BY <1>1, <1>2, <1>3, <1>4 DEF Kept, Black, Gray, IInv, Marking, TypeOK
  <1>6. TypeOK'
    BY <1>1 DEF IInv, TypeOK
  <1>7. Lists'
    BY <1>1, <1>2, <1>3 DEF IInv, Lists
  <1>8. Shape'
    BY <1>1 DEF IInv, Shape, IsWeak
  <1>9. NoDangling'
    <2>1. Roots' \subseteq Black
      BY <1>1, <1>2, <1>4 DEF IInv, Marking
    <2>2. \A o \in Black : Marked(o) \subseteq Black
      BY <1>1, <1>4 DEF IInv, Marking
    <2>3. \A o \in Black : refs[o] \subseteq Black
      BY <2>2 DEF Marked, IInv, Shape, Black, IsWeak, WeakKeys, WeakValues, Modes
    <2>4. \A o \in Black : \A e \in entries[o] : e[1] \in Black /\ e[2] \in Black
      BY <1>1 DEF IInv, WeakUpdated
    <2>5. \A n \in Names : obarray[n] \in Black \cup {NoObj}
      BY <1>1 DEF IInv, WeakUpdated
    <2> QED
      BY <1>1, <1>5, <2>1, <2>3, <2>4, <2>5 DEF NoDangling
  <1>10. Marking'
    <2>1. \A o \in Objs : mark'[o] = "W"
      BY <1>1, <1>3 DEF IInv, Marking, Marks, Gray, Black, TypeOK
    <2>2. Marks' = {}
      BY <2>1 DEF Marks, Gray, Black
    <2> QED
      BY <1>1, <2>2 DEF Marking
  <1>11. WeakUpdated'
    BY <1>1 DEF WeakUpdated
  <1>12. Interned'
    BY <1>1, <1>5 DEF IInv, Interned
  <1> QED
    BY <1>6, <1>7, <1>8, <1>9, <1>10, <1>11, <1>12 DEF IInv

LEMMA SweepIInv ==
  ASSUME IInv, NEW o \in Objs, fklVMgcSweep(o)
  PROVE  IInv'
  <1>1. /\ phase = "SWEEPING" /\ o \in white /\ white' = white \ {o}
        /\ kind' = [kind EXCEPT ![o] = "free"]
        /\ refs' = [refs EXCEPT ![o] = {}]
        /\ entries' = [entries EXCEPT ![o] = {}]
        /\ name' = [name EXCEPT ![o] = NoObj]
        /\ UNCHANGED <<obarray, roots, fresh, head, mark, phase>>
    BY DEF fklVMgcSweep
  <1>2. Alive' = Alive \ {o} /\ Roots' = Roots /\ Fresh' = Fresh
    BY <1>1 DEF Alive, Roots, Fresh, IInv, TypeOK
  <1>3. Fresh = {}
    BY <1>1 DEF IInv, Lists, Fresh
  <1>4. Kept' = Kept /\ o \notin Kept
    BY <1>1, <1>2 DEF Kept
  <1>5. TypeOK'
    BY <1>1 DEF IInv, TypeOK
  <1>6. Lists'
    BY <1>1, <1>2, <1>3 DEF IInv, Lists
  <1>7. Shape'
    BY <1>1 DEF IInv, Shape, TypeOK, IsWeak, Modes
  <1>8. NoDangling'
    BY <1>1, <1>2, <1>4 DEF IInv, NoDangling, TypeOK
  <1>9. Marking' /\ WeakUpdated'
    BY <1>1, <1>2 DEF IInv, Marking, WeakUpdated, Marks, Gray, Black
  <1>10. Interned'
    BY <1>1, <1>4 DEF IInv, Interned, Kept, Alive, TypeOK
  <1> QED
    BY <1>5, <1>6, <1>7, <1>8, <1>9, <1>10 DEF IInv

LEMMA DoneIInv ==
  ASSUME IInv, Done
  PROVE  IInv'
  <1>1. /\ phase = "SWEEPING" /\ phase' = "NONE" /\ white = {}
        /\ UNCHANGED <<kind, refs, entries, name, obarray, roots, fresh, head,
                       white, mark>>
    BY DEF Done, heapVars
  <1>2. Kept' = Kept /\ Alive' = Alive /\ Roots' = Roots /\ Fresh' = Fresh
    BY <1>1 DEF Kept, Alive, Roots, Fresh
  <1>3. TypeOK' /\ Lists' /\ Shape' /\ NoDangling'
    BY <1>1, <1>2 DEF IInv, TypeOK, Lists, Shape, NoDangling, IsWeak, Modes
  <1>4. Marking' /\ WeakUpdated' /\ Interned'
    BY <1>1, <1>2 DEF IInv, Marking, WeakUpdated, Interned, Marks, Gray, Black
  <1> QED
    BY <1>3, <1>4 DEF IInv

LEMMA StutterIInv ==
  ASSUME IInv, UNCHANGED vars
  PROVE  IInv'
  <1>1. UNCHANGED <<kind, refs, entries, name, obarray, roots, fresh, head,
                    white, mark, phase>>
    BY DEF vars, heapVars
  <1>2. /\ Kept' = Kept /\ Alive' = Alive /\ Roots' = Roots /\ Fresh' = Fresh
        /\ Gray' = Gray /\ Black' = Black /\ Marks' = Marks
        /\ \A o \in Objs : Marked(o)' = Marked(o)
    BY <1>1 DEF Kept, Alive, Roots, Fresh, Gray, Black, Marks, Marked, IsWeak,
                WeakKeys, WeakValues
  <1>3. \A S \in SUBSET Objs : Closed(S)' = Closed(S)
    BY <1>2 DEF Closed
  <1>4. TypeOK' /\ Lists' /\ Shape' /\ NoDangling' /\ WeakUpdated' /\ Interned'
    BY <1>1, <1>2 DEF IInv, TypeOK, Lists, Shape, NoDangling, WeakUpdated,
                      Interned, IsWeak
  <1>5. Marking'
    BY <1>1, <1>2, <1>3 DEF IInv, Marking, Black
  <1> QED
    BY <1>4, <1>5 DEF IInv

LEMMA NextIInv == IInv /\ [Next]_vars => IInv'
  <1> SUFFICES ASSUME IInv, [Next]_vars
               PROVE  IInv'
    OBVIOUS
  <1>1. ASSUME NEW v \in VMs, Mutate(v)
        PROVE  IInv'
    BY <1>1, WeakModesAssumption, CreateIInv, LoadIInv, DropIInv, InternNewIInv,
       MakeSymbolIInv, AddSymbolValueIInv, LinkIInv, WeakGetIInv, WeakPutIInv,
       InternFoundIInv
       DEF Mutate
  <1>2. CASE fklVMgcMarkAllRootToGray
    BY <1>2, MarkRootsIInv
  <1>3. CASE \E o \in Objs : fklVMgcPropagate(o) \/ fklVMgcSweep(o)
    BY <1>3, PropagateIInv, SweepIInv
  <1>4. CASE fklVMgcUpdateWeakRefs \/ fklVMgcCollect \/ Done
    BY <1>4, UpdateWeakRefsIInv, CollectIInv, DoneIInv
  <1>5. CASE UNCHANGED vars
    BY <1>5, StutterIInv
  <1> QED
    BY <1>1, <1>2, <1>3, <1>4, <1>5 DEF Next

LEMMA Invariance == Spec => []IInv
  BY InitIInv, NextIInv, PTL DEF Spec

-----------------------------------------------------------------------------
\* The variables of the collector keep their types.
THEOREM TypeCorrect == Spec => []TypeOK
  <1>1. IInv => TypeOK
    BY DEF IInv
  <1> QED
    BY <1>1, Invariance, PTL

\* The collector never frees what a VM, a kept object, a kept weak table or the
\* obarray still refers to, however the objects are linked and shared.
THEOREM CollectorSafe == Spec => []NoDangling
  <1>1. IInv => NoDangling
    BY DEF IInv
  <1> QED
    BY <1>1, Invariance, PTL

\* fklVMgcPropagate marks exactly what is in every set that holds the roots and
\* is closed under marking.
THEOREM MarkingExact == Spec => []MarksReachable
  <1>1. IInv => MarksReachable
    <2> SUFFICES ASSUME IInv, phase = "PROPAGATE"
                 PROVE  /\ \A S \in SUBSET Objs :
                              Closed(S) => Gray \cup Black \subseteq S
                        /\ Gray = {} => Closed(Black)
      BY DEF MarksReachable
    <2>1. \A S \in SUBSET Objs : Closed(S) => Gray \cup Black \subseteq S
      BY DEF IInv, Marking, Marks
    <2>2. Gray = {} => Closed(Black)
      BY DEF IInv, Marking, Marks, Closed
    <2> QED
      BY <2>1, <2>2
  <1> QED
    BY <1>1, Invariance, PTL

\* Between collections every object is white and on a list.
THEOREM NothingForgotten == Spec => []AllWhite
  <1>1. IInv => AllWhite
    BY DEF IInv, AllWhite, Lists, Marking, Marks, Gray, Black, TypeOK
  <1> QED
    BY <1>1, Invariance, PTL

\* Two interned symbols of one name are one object.
THEOREM SymbolIdentity == Spec => []SymbolsUnique
  <1>1. IInv => SymbolsUnique
    BY DEF IInv, SymbolsUnique, Interned
  <1> QED
    BY <1>1, Invariance, PTL

\* fklVMgcUpdateWeakRefs removes from a reachable weak table exactly the entries
\* a weak half of which is unreachable.
THEOREM WeakTablesExact == Spec => WeakEntriesKept
  <1> DEFINE Exact ==
        phase' = "COLLECT" /\ phase # "COLLECT" =>
            \A w \in Reachable :
                entries'[w] =
                    {e \in entries[w] :
                        /\ WeakKeys(w) => e[1] \in Reachable
                        /\ WeakValues(w) => e[2] \in Reachable}
  <1>1. IInv /\ [Next]_vars => Exact
    <2> SUFFICES ASSUME IInv, [Next]_vars, phase' = "COLLECT",
                        phase # "COLLECT",
                        NEW w \in Reachable
                 PROVE  entries'[w] =
                          {e \in entries[w] :
                              /\ WeakKeys(w) => e[1] \in Reachable
                              /\ WeakValues(w) => e[2] \in Reachable}
      OBVIOUS
    <2>1. fklVMgcUpdateWeakRefs
      <3>1. ASSUME NEW v \in VMs, Mutate(v)
            PROVE  phase' = phase
        BY <3>1 DEF Mutate, Create, Load, Drop, InternNew, MakeSymbol,
                    fklVMaddSymbolValue, Link, WeakGet, WeakPut, InternFound
      <3>2. ASSUME NEW o \in Objs, fklVMgcPropagate(o) \/ fklVMgcSweep(o)
            PROVE  phase' = phase
        BY <3>2 DEF fklVMgcPropagate, fklVMgcSweep
      <3>3. fklVMgcMarkAllRootToGray \/ fklVMgcCollect \/ Done
            => phase' # "COLLECT"
        BY DEF fklVMgcMarkAllRootToGray, fklVMgcCollect, Done
      <3>4. UNCHANGED vars => phase' = phase
        BY DEF vars
      <3> QED
        BY <3>1, <3>2, <3>3, <3>4 DEF Next
    <2>2. /\ Gray = {} /\ phase = "PROPAGATE"
          /\ entries' = [x \in Objs |->
                           IF IsWeak(x) /\ mark[x] = "B"
                           THEN {e \in entries[x] : ~Dead(x, e)} ELSE entries[x]]
      BY <2>1 DEF fklVMgcUpdateWeakRefs, Gray
    <2>3. Reachable = Black
      <3>1. Closed(Black) /\ Black \in SUBSET Objs
        BY <2>2 DEF IInv, Marking, Marks, Closed, Black
      <3>2. \A S \in SUBSET Objs : Closed(S) => Black \subseteq S
        BY <2>2 DEF IInv, Marking, Marks
      <3> QED
        BY <3>1, <3>2 DEF Reachable
    <2>4. w \in Objs /\ mark[w] = "B"
      BY <2>3 DEF Black
    <2>5. \A p \in Objs : mark[p] = "W" <=> p \notin Black
      BY <2>2 DEF Gray, Black, IInv, TypeOK
    <2>6. CASE IsWeak(w)
      <3>1. \A e \in entries[w] : e[1] \in Objs /\ e[2] \in Objs
        BY <2>4 DEF IInv, TypeOK
      <3> QED
        BY <2>2, <2>3, <2>4, <2>5, <2>6, <3>1 DEF Dead
    <2>7. CASE ~IsWeak(w)
      BY <2>2, <2>4, <2>7 DEF IInv, Shape
    <2> QED
      BY <2>6, <2>7
  <1> QED
    BY <1>1, Invariance, PTL DEF Spec, WeakEntriesKept
=============================================================================
