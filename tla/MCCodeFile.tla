----------------------------- MODULE MCCodeFile -----------------------------
(***************************************************************************)
(* A program whose constants macros made is compiled to a file and loaded *)
(* again.                                                                  *)
(***************************************************************************)
EXTENDS CodeFile, TLC

VARIABLES
    heap,      \* the constants "r" and "a" and what they are made of
    prog,      \* the program
    tabs,      \* the tables of the writer
    file,      \* what is written
    loaded,    \* what the loader made of it
    phase

vars == <<heap, prog, tabs, file, loaded, phase>>

Leaf == [kind |-> "leaf", kids |-> <<>>]
Node(kind, kids) == [kind |-> kind, kids |-> kids]
Names == {"file", "path", "name", "one"}
Targets == {"r", "a", "b", "c", "one", "empty", "fn"}

\* Two macros return r and a; empty is a vector without members, fn a procedure.
HeapOf(r, a, b, c) ==
    [v \in Names |-> Leaf] @@ ("r" :> r) @@ ("a" :> a) @@ ("b" :> b) @@ ("c" :> c)
    @@ ("empty" :> Node("vec", <<>>)) @@ ("fn" :> Node("opaque", <<>>))
Heaps ==
    {HeapOf(Node("vec", <<r1, r2>>), Node("pair", <<a1, a2>>), Node("box", <<b>>), Node("box", <<c>>)) :
       r1, r2, a1, a2, b, c \in Targets}
SmallHeaps ==
    {HeapOf(Node("vec", <<r1, r2>>), Node("pair", <<"b", "one">>), Node("hash", <<"one", "c">>), Node("box", <<"one">>)) :
       r1, r2 \in Targets}

Proto(konsts, children, libs) ==
    [defs |-> <<"name", "file">>, konsts |-> konsts, children |-> children, libs |-> libs]
Proc(n) == [proto |-> n, lnt |-> <<"file">>, code |-> n]
ScriptLib(n) == [name |-> "path", names |-> <<"name">>, type |-> "script", proc |-> n]
DllLib == [name |-> "path", names |-> <<"name", "one">>, type |-> "dll", proc |-> "path"]

ProgOf(protos, libs) ==
    [protos |-> protos, libs |-> libs,
     procs |-> [n \in {"main", "l1", "l2"} \cap DOMAIN protos |-> Proc(n)]]

Plain == ProgOf([n \in {"main"} |-> Proto(<<"r", "a">>, <<>>, <<>>)], <<>>)

\* main and its procedure p use up to two libraries, and the first may use the
\* second, which is a script or a dll.
WithLibs ==
    {ProgOf([main |-> Proto(<<"r">>, <<"p", "q">>, m), p |-> Proto(<<"a", "r">>, <<"p2">>, p),
             q |-> Proto(<<>>, <<>>, <<>>), p2 |-> Proto(<<"a">>, <<>>, p2),
             l1 |-> Proto(<<"r">>, <<"l1p">>, l), l1p |-> Proto(<<>>, <<>>, l),
             l2 |-> Proto(<<"a">>, <<>>, <<>>)],
            [l1 |-> ScriptLib("l1"), l2 |-> second]) :
       m, p, p2 \in {<<>>, <<"l1">>, <<"l2">>, <<"l1", "l2">>},
       l \in {<<>>, <<"l2">>}, second \in {ScriptLib("l2"), DllLib}}

Init ==
    /\ \/ heap \in Heaps /\ prog = Plain
       \/ heap \in SmallHeaps /\ prog \in WithLibs
    /\ tabs = <<>> /\ file = <<>> /\ loaded = <<>>
    /\ phase = "macro"

Constants == {"r", "a"}

\* The result of a macro is accepted, or an error.
CheckResult ==
    /\ phase = "macro"
    /\ phase' = IF \A v \in Constants : fklIsSerializableToByteCodeFile(heap, v)
                THEN "compiled" ELSE "rejected"
    /\ UNCHANGED <<heap, prog, tabs, file, loaded>>

MakeTables ==
    /\ phase = "compiled"
    /\ tabs' = traverse_writing_obj(heap, prog, "main")
    /\ phase' = "tables"
    /\ UNCHANGED <<heap, prog, file, loaded>>

WriteFile ==
    /\ phase = "tables"
    /\ file' = fklWriteCodeFile(heap, prog, tabs, "main")
    /\ phase' = IF AssertedOrder(file'.values) THEN "written" ELSE "aborted"
    /\ UNCHANGED <<heap, prog, tabs, loaded>>

Load(to, r, new) ==
    /\ loaded' = new
    /\ phase' = IF r.ok THEN to ELSE "aborted"
    /\ UNCHANGED <<heap, prog, tabs, file>>

LoadValues ==
    /\ phase = "written"
    /\ LET r == load_value_table(file.values) IN Load("values", r, [values |-> r.values])

LoadProtos ==
    /\ phase = "values"
    /\ LET r == load_proto_table(file.protos, loaded.values)
       IN  Load("protos", r, loaded @@ [protos |-> r.protos])

LoadLibs ==
    /\ phase = "protos"
    /\ LET r == load_lib_table(file.libs, loaded.values, loaded.protos)
       IN  Load("libs", r, loaded @@ [libs |-> r.libs])

FixupLibs ==
    /\ phase = "libs"
    /\ LET r == fixup_proto_lib_refs(loaded.protos, loaded.libs)
       IN  Load("fixed", r, [loaded EXCEPT !.protos = r.protos])

LoadMain ==
    /\ phase = "fixed"
    /\ Load("loaded", [ok |-> LoadedProc(file.main, loaded.values, loaded.protos)],
            loaded @@ [main |-> file.main])

Next == \/ CheckResult \/ MakeTables \/ WriteFile
        \/ LoadValues \/ LoadProtos \/ LoadLibs \/ FixupLibs \/ LoadMain
Spec == Init /\ [][Next]_vars

-----------------------------------------------------------------------------
(* What the file should hold. *)

RECURSIVE ReachedFrom(_, _)
ReachedFrom(h, vs) ==
    LET next == vs \cup UNION {ToSet(h[v].kids) : v \in vs}
    IN  IF next = vs THEN vs ELSE ReachedFrom(h, next)
IsCyclic(h) == \E u \in ReachedFrom(h, Constants) : u \in ReachedFrom(h, ToSet(h[u].kids))
Unwritable(h) == IsCyclic(h) \/ "fn" \in ReachedFrom(h, Constants)

\* The depths at which u is met on the way from v.
RECURSIVE Depths(_, _, _)
Depths(h, v, u) ==
    (IF u = v THEN {0} ELSE {}) \cup
    {d + 1 : d \in UNION {Depths(h, w, u) : w \in ToSet(h[v].kids)}}

\* A value that has compound parts and is met at several depths of one constant:
\* its parts may be numbered after it.
SharedAtDepths ==
    \E root \in Constants : \E v \in ReachedFrom(heap, {root}) :
       /\ \E w \in ToSet(heap[v].kids) : ~is_serializable_leaf_node(heap, w)
       /\ Cardinality(Depths(heap, root, v)) > 1

\* The object id stands for the value (or prototype, library) of that number.
SameIds(t, ids, vs) == Len(ids) = Len(vs) /\ \A k \in 1 .. Len(vs) : t[ids[k]] = vs[k]
SameValues ==
    \A id \in DOMAIN loaded.values :
       LET was == heap[tabs.values[id]]
       IN  loaded.values[id].op = was.kind /\ SameIds(tabs.values, loaded.values[id].args, was.kids)
SameProc(p, n) ==
    /\ tabs.protos[p.proto] = prog.procs[n].proto
    /\ SameIds(tabs.values, p.lnt, prog.procs[n].lnt)
    /\ p.code = prog.procs[n].code
SameProtos ==
    \A id \in DOMAIN loaded.protos :
       LET is == loaded.protos[id]
           was == prog.protos[tabs.protos[id]]
       IN  /\ SameIds(tabs.values, is.defs \o is.konsts, was.defs \o was.konsts)
           /\ SameIds(tabs.protos, is.children, was.children)
           /\ \A k \in DOMAIN is.libs : is.libs[k].t = "lib"
           /\ SameIds(tabs.libs, [k \in DOMAIN is.libs |-> is.libs[k].n], was.libs)
SameLibs ==
    \A id \in DOMAIN loaded.libs :
       LET is == loaded.libs[id]
           was == prog.libs[tabs.libs[id]]
       IN  /\ SameIds(tabs.values, <<is.name>> \o is.names, <<was.name>> \o was.names)
           /\ is.type = was.type
           /\ IF is.type = "dll" THEN tabs.values[is.proc.path] = was.proc
              ELSE SameProc(is.proc, was.proc)

\* Exactly the constants without a cycle or a procedure are accepted.  A program that is written
\* is loaded, no assertion of the writer or the loader failing, and what is
\* loaded is the program with its constants, what they share included.
LoadsWhatWasWritten ==
    /\ phase = "rejected" => Unwritable(heap)
    /\ phase # "rejected" /\ phase # "macro" => ~Unwritable(heap)
    /\ phase = "aborted" => SharedAtDepths
    /\ phase = "loaded" => SameValues /\ SameProtos /\ SameLibs /\ SameProc(loaded.main, "main")
=============================================================================
