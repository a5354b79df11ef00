-------------------------------- MODULE VMgc --------------------------------
(***************************************************************************)
(* The mark-and-sweep collector of fakeLisp, the weak hash tables and the  *)
(* table of interned symbols (the obarray), which holds its symbols weakly.*)
(*                                                                         *)
(* The mutators run while phase is NONE; a collection runs alone (VMsched  *)
(* shows that it does) and is taken apart into the steps of fklVMidleLoop. *)
(* The gray list is the set of gray objects: fklVMgcToGray links an object *)
(* once, when it turns gray, and fklVMgcPropagate may take any of them     *)
(* here.  In the same way any object of the white list may be swept next;  *)
(* the order of the sweep matters to finalizers only.                      *)
(***************************************************************************)
EXTENDS Integers, FiniteSets

CONSTANTS
    VMs,        \* the VMs of the ring
    Objs,       \* heap cells
    Names,      \* the names of symbols
    MaxRefs,    \* bound on what a box refers to, and on the entries of a table
    WeakModes,  \* the modes of weak tables that are made
    NoObj       \* no object, no name

Modes == {"weak_K", "weak_V", "weak_KV"}

ASSUME WeakModesAssumption == WeakModes \subseteq Modes
ASSUME NoObjAssumption == NoObj \notin Objs \cup Names

VARIABLES
    kind,       \* "free", "box", a mode, "sym" (interned) or "usym" (not)
    refs,       \* what o->tp_->atomic, fklAtomicVMpair, ... mark from o
    entries,    \* the key-value pairs of a weak table
    name,       \* the name of a symbol; NoObj for other objects
    obarray,    \* gc->obarray
    roots,      \* stack, frames, error, ... of each VM
    fresh,      \* vm->obj_head: the objects of each VM
    head,       \* gc->head: the objects of the collector
    white,      \* what fklVMgcCollect has put on its white list
    mark,       \* o->mark_
    phase       \* gc->running

heapVars == <<kind, refs, entries, name>>
vars == <<heapVars, obarray, roots, fresh, head, white, mark, phase>>

Init ==
    /\ kind = [o \in Objs |-> "free"]
    /\ refs = [o \in Objs |-> {}]
    /\ entries = [o \in Objs |-> {}]
    /\ name = [o \in Objs |-> NoObj]
    /\ obarray = [n \in Names |-> NoObj]
    /\ roots = [v \in VMs |-> {}]
    /\ fresh = [v \in VMs |-> {}]
    /\ head = {}
    /\ white = {}
    /\ mark = [o \in Objs |-> "W"]
    /\ phase = "NONE"

IsWeak(o) == kind[o] \in Modes
WeakKeys(o) == kind[o] \in {"weak_K", "weak_KV"}
WeakValues(o) == kind[o] \in {"weak_V", "weak_KV"}

Alive == {o \in Objs : kind[o] # "free"}
Roots == UNION {roots[v] : v \in VMs}
Fresh == UNION {fresh[v] : v \in VMs}

-----------------------------------------------------------------------------
(* The mutators. *)

\* fklAddToGC: a new object goes to the list of the VM that makes it.
fklAddToGC(v, o, k) ==
    /\ kind[o] = "free"
    /\ kind' = [kind EXCEPT ![o] = k]
    /\ fresh' = [fresh EXCEPT ![v] = @ \cup {o}]
    /\ roots' = [roots EXCEPT ![v] = @ \cup {o}]

\* A box, pair, vector, ... or a weak table.
Create(v, o, k) ==
    /\ phase = "NONE"
    /\ fklAddToGC(v, o, k)
    /\ UNCHANGED <<refs, entries, name, obarray, head, white, mark, phase>>

\* o refers to p from now on, or no longer.
Link(v, o, p) ==
    /\ phase = "NONE"
    /\ {o, p} \subseteq roots[v]
    /\ kind[o] = "box"
    /\ refs' = [refs EXCEPT ![o] = IF p \in @ THEN @ \ {p} ELSE @ \cup {p}]
    /\ Cardinality(refs'[o]) <= MaxRefs
    /\ UNCHANGED <<kind, entries, name, obarray, roots, fresh, head, white,
                   mark, phase>>

\* A box stands for every container; p is read from one, or received from another VM.
Load(v, p) ==
    /\ phase = "NONE"
    /\ p \in Roots \cup UNION {refs[o] : o \in roots[v]}
    /\ roots' = [roots EXCEPT ![v] = @ \cup {p}]
    /\ UNCHANGED <<heapVars, obarray, fresh, head, white, mark, phase>>

Drop(v, o) ==
    /\ phase = "NONE"
    /\ o \in roots[v]
    /\ roots' = [roots EXCEPT ![v] = @ \ {o}]
    /\ UNCHANGED <<heapVars, obarray, fresh, head, white, mark, phase>>

\* add_str_to_obarray finds the symbol ...
InternFound(v, n) ==
    /\ phase = "NONE"
    /\ obarray[n] # NoObj
    /\ roots' = [roots EXCEPT ![v] = @ \cup {obarray[n]}]
    /\ UNCHANGED <<heapVars, obarray, fresh, head, white, mark, phase>>

\* Mutant: the symbol is looked up outside of the critical section, so that
\* two of the same name may be made.
Bug_InternAnew(v, n, o) ==
    /\ phase = "NONE"
    /\ fklAddToGC(v, o, "sym")
    /\ name' = [name EXCEPT ![o] = n]
    /\ obarray' = [obarray EXCEPT ![n] = o]
    /\ UNCHANGED <<refs, entries, head, white, mark, phase>>

\* ... or makes it, in one critical section of the obarray.
InternNew(v, n, o) ==
    /\ phase = "NONE"
    /\ obarray[n] = NoObj
    /\ fklAddToGC(v, o, "sym")
    /\ name' = [name EXCEPT ![o] = n]
    /\ obarray' = [obarray EXCEPT ![n] = o]
    /\ UNCHANGED <<refs, entries, head, white, mark, phase>>

\* A symbol that is not interned, as make-symbol returns.
MakeSymbol(v, n, o) ==
    /\ phase = "NONE"
    /\ fklAddToGC(v, o, "usym")
    /\ name' = [name EXCEPT ![o] = n]
    /\ UNCHANGED <<refs, entries, obarray, head, white, mark, phase>>

\* add_symbol_value_unlock: the symbol itself is interned unless there is one
\* of its name.
fklVMaddSymbolValue(v, o) ==
    /\ phase = "NONE"
    /\ o \in roots[v]
    /\ kind[o] = "usym"
    /\ obarray[name[o]] = NoObj
    /\ kind' = [kind EXCEPT ![o] = "sym"]
    /\ obarray' = [obarray EXCEPT ![name[o]] = o]
    /\ UNCHANGED <<refs, entries, name, roots, fresh, head, white, mark, phase>>

\* A weak table maps each key to one value.
WeakPut(v, w, k, x) ==
    /\ phase = "NONE"
    /\ {w, k, x} \subseteq roots[v]
    /\ IsWeak(w)
    /\ entries' = [entries EXCEPT ![w] = {e \in @ : e[1] # k} \cup {<<k, x>>}]
    /\ Cardinality(entries'[w]) <= MaxRefs
    /\ UNCHANGED <<kind, refs, name, obarray, roots, fresh, head, white,
                   mark, phase>>

WeakGet(v, w, k) ==
    /\ phase = "NONE"
    /\ {w, k} \subseteq roots[v]
    /\ \E e \in entries[w] :
          /\ e[1] = k
          /\ roots' = [roots EXCEPT ![v] = @ \cup {e[2]}]
    /\ UNCHANGED <<heapVars, obarray, fresh, head, white, mark, phase>>

Mutate(v) ==
    \/ \E o \in Objs :
          \/ \E k \in {"box"} \cup WeakModes : Create(v, o, k)
          \/ Load(v, o)
          \/ Drop(v, o)
          \/ \E n \in Names : InternNew(v, n, o) \/ MakeSymbol(v, n, o)
          \/ fklVMaddSymbolValue(v, o)
          \/ \E p \in Objs : Link(v, o, p) \/ WeakGet(v, o, p)
          \/ \E p, x \in Objs : WeakPut(v, o, p, x)
    \/ \E n \in Names : InternFound(v, n)

-----------------------------------------------------------------------------
(* A collection. *)

\* fklVMgcToGray for every object of S.
fklVMgcToGray(m, S) ==
    [o \in Objs |-> IF o \in S /\ m[o] = "W" THEN "G" ELSE m[o]]

\* weak_hash_eq_atomic marks the strong half of each entry, the other types
\* mark all they refer to.
Marked(o) ==
    IF IsWeak(o)
    THEN (IF WeakKeys(o) THEN {} ELSE {e[1] : e \in entries[o]})
         \cup (IF WeakValues(o) THEN {} ELSE {e[2] : e \in entries[o]})
    ELSE refs[o]

\* move_all_thread_objects_to_gc, then fklVMgcMarkAllRootToGray.
fklVMgcMarkAllRootToGray ==
    /\ phase = "NONE"
    /\ head' = head \cup Fresh
    /\ fresh' = [v \in VMs |-> {}]
    /\ mark' = fklVMgcToGray(mark, Roots)
    /\ phase' = "PROPAGATE"
    /\ UNCHANGED <<heapVars, obarray, roots, white>>

\* Mutant: the object turns black without its children turning gray.
Bug_NoChildren(o) ==
    /\ phase = "PROPAGATE"
    /\ mark[o] = "G"
    /\ mark' = [mark EXCEPT ![o] = "B"]
    /\ UNCHANGED <<heapVars, obarray, roots, fresh, head, white, phase>>

fklVMgcPropagate(o) ==
    /\ phase = "PROPAGATE"
    /\ mark[o] = "G"
    /\ mark' = fklVMgcToGray([mark EXCEPT ![o] = "B"], Marked(o))
    /\ UNCHANGED <<heapVars, obarray, roots, fresh, head, white, phase>>

\* Mutant: an entry is kept unless both halves are dead.
Bug_Dead(w, e) == mark[e[1]] = "W" /\ mark[e[2]] = "W"

Dead(w, e) ==
    \/ WeakKeys(w) /\ mark[e[1]] = "W"
    \/ WeakValues(w) /\ mark[e[2]] = "W"

\* Mutant: the obarray keeps its dead symbols.
Bug_KeepSymbols == obarray

LiveSymbols ==
    [n \in Names |-> IF obarray[n] # NoObj /\ mark[obarray[n]] = "W"
                     THEN NoObj ELSE obarray[n]]

\* The weak references of what was marked, and the obarray, which is a root.
fklVMgcUpdateWeakRefs ==
    /\ phase = "PROPAGATE"
    /\ \A o \in Objs : mark[o] # "G"
    /\ entries' = [w \in Objs |->
                     IF IsWeak(w) /\ mark[w] = "B"
                     THEN {e \in entries[w] : ~Dead(w, e)} ELSE entries[w]]
    /\ obarray' = LiveSymbols
    /\ phase' = "COLLECT"
    /\ UNCHANGED <<kind, refs, name, roots, fresh, head, white, mark>>

\* White objects go to the white list, the others turn white again.
fklVMgcCollect ==
    /\ phase = "COLLECT"
    /\ white' = {o \in head : mark[o] = "W"}
    /\ head' = {o \in head : mark[o] # "W"}
    /\ mark' = [o \in Objs |-> IF o \in head THEN "W" ELSE mark[o]]
    /\ phase' = "SWEEPING"
    /\ UNCHANGED <<heapVars, obarray, roots, fresh>>

\* destroy_vm_value of one object.  FKL_VM_UD_FINALIZE_DELAY, which only the
\* finalizers of the fuv module return, is left out.
fklVMgcSweep(o) ==
    /\ phase = "SWEEPING"
    /\ o \in white
    /\ white' = white \ {o}
    /\ kind' = [kind EXCEPT ![o] = "free"]
    /\ refs' = [refs EXCEPT ![o] = {}]
    /\ entries' = [entries EXCEPT ![o] = {}]
    /\ name' = [name EXCEPT ![o] = NoObj]
    /\ UNCHANGED <<obarray, roots, fresh, head, mark, phase>>

Done ==
    /\ phase = "SWEEPING"
    /\ white = {}
    /\ phase' = "NONE"
    /\ UNCHANGED <<heapVars, obarray, roots, fresh, head, white, mark>>

Next ==
    \/ \E v \in VMs : Mutate(v)
    \/ fklVMgcMarkAllRootToGray
    \/ \E o \in Objs : fklVMgcPropagate(o) \/ fklVMgcSweep(o)
    \/ fklVMgcUpdateWeakRefs
    \/ fklVMgcCollect
    \/ Done

Spec == Init /\ [][Next]_vars

-----------------------------------------------------------------------------
(* Properties. *)

\* The type invariant.
TypeOK ==
    /\ kind \in [Objs -> Modes \cup {"free", "box", "sym", "usym"}]
    /\ refs \in [Objs -> SUBSET Objs]
    /\ entries \in [Objs -> SUBSET (Objs \X Objs)]
    /\ name \in [Objs -> Names \cup {NoObj}]
    /\ obarray \in [Names -> Objs \cup {NoObj}]
    /\ roots \in [VMs -> SUBSET Objs]
    /\ fresh \in [VMs -> SUBSET Objs]
    /\ head \subseteq Objs
    /\ white \subseteq Objs
    /\ mark \in [Objs -> {"W", "G", "B"}]
    /\ phase \in {"NONE", "PROPAGATE", "COLLECT", "SWEEPING"}

\* The objects that are allocated and not about to be freed.
Kept == Alive \ white


\* Nothing that can still be reached is freed: what a VM holds, what a kept
\* object or weak table refers to, and what the obarray would find, is
\* allocated and not on the white list of fklVMgcSweep.
NoDangling ==
    /\ Roots \subseteq Kept
    /\ \A o \in Kept :
          /\ refs[o] \subseteq Kept
          /\ \A e \in entries[o] : e[1] \in Kept /\ e[2] \in Kept
    /\ \A n \in Names : obarray[n] \in Kept \cup {NoObj}

\* S holds the roots and what the objects of S mark.
Closed(S) == Roots \subseteq S /\ \A o \in S : Marked(o) \subseteq S

\* The reference definition: what lies in every closed set.
Reachable == {o \in Objs : \A S \in SUBSET Objs : Closed(S) => o \in S}

Gray == {o \in Objs : mark[o] = "G"}
Black == {o \in Objs : mark[o] = "B"}

\* fklVMgcPropagate marks reachable objects only, and all of them by the time
\* the gray list is empty.
MarksReachable ==
    phase = "PROPAGATE" =>
        /\ \A S \in SUBSET Objs : Closed(S) => Gray \cup Black \subseteq S
        /\ Gray = {} => Closed(Black)

\* Between collections every object is white and on the list of the collector
\* or of one VM, so that the next collection finds it and traces it.
AllWhite ==
    phase = "NONE" =>
        /\ \A o \in Objs : mark[o] = "W"
        /\ Alive = head \cup Fresh

\* Symbols are compared by address: two interned symbols of one name are one
\* object, although dead symbols leave the obarray and are made again.
SymbolsUnique ==
    phase # "COLLECT" =>
        \A o, p \in Kept :
            /\ kind[o] = "sym"
            /\ kind[p] = "sym"
            /\ name[o] = name[p]
            => o = p

\* A collection leaves in a reachable weak table the entries whose weak halves
\* are reachable without it, and no other.
WeakEntriesKept ==
    [][phase' = "COLLECT" /\ phase # "COLLECT" =>
          \A w \in Reachable :
              entries'[w] =
                  {e \in entries[w] :
                      /\ WeakKeys(w) => e[1] \in Reachable
                      /\ WeakValues(w) => e[2] \in Reachable}]_vars
=============================================================================
