------------------------------ MODULE CodeFile ------------------------------
(***************************************************************************)
(* src/code_lw.c and src/vmutils.c: byte code files, and the values they   *)
(* hold.                                                                   *)
(*                                                                         *)
(* A heap h maps a value to its kind and to the values it refers to; what  *)
(* a leaf (number, string, symbol, ...) is made of is left out.  A program *)
(* holds procedures, prototypes and libraries, the procedure "main" among  *)
(* them.  A table is the sequence of its members, the index being the id.  *)
(* The file is what the writer puts into each of its sections, in the      *)
(* order of the writes; the numbers in it are ids.  What the same          *)
(* functions do for pre-compiled libraries only (is_writting_pre_compile)  *)
(* is left out.                                                            *)
(***************************************************************************)
EXTENDS Integers, Sequences, FiniteSets, SequencesExt

is_serializable_leaf_node(h, v) == h[v].kind = "leaf"

\* Procedures, channels, files, ... ("opaque") have no form in a file.
is_serializable_to_bytecode_value(h, v) == h[v].kind # "opaque"

\* 0 if v is not in the table.
fklValueTableGet(t, v) == SelectInSeq(t, LAMBDA u : u = v)
fklValueTableAdd(t, v) == IF fklValueTableGet(t, v) # 0 THEN t ELSE Append(t, v)

-----------------------------------------------------------------------------
(* Walks over a value.  Every value is listed as often as it is met, what  *)
(* it refers to only the first time.                                       *)

RECURSIVE traverse_value_bfs(_, _, _, _)
traverse_value_bfs(h, queue, seen, met) ==
    IF queue = <<>> THEN met
    ELSE LET v == Head(queue)
         IN  traverse_value_bfs(h,
                 Tail(queue) \o (IF v \in seen THEN <<>> ELSE Reverse(h[v].kids)),
                 seen \cup {v}, Append(met, v))

RECURSIVE traverse_value_dfs(_, _, _, _)
traverse_value_dfs(h, stack, seen, met) ==
    IF stack = <<>> THEN met
    ELSE LET v == Last(stack)
         IN  traverse_value_dfs(h,
                 Front(stack) \o (IF v \in seen THEN <<>> ELSE Reverse(h[v].kids)),
                 seen \cup {v}, Append(met, v))

Occurrences(s, v) == Len(SelectSeq(s, LAMBDA u : u = v))

\* Values nothing refers to leave the table and take their references along.
RECURSIVE reduce_degrees(_, _)
reduce_degrees(h, degree) ==
    LET free == {v \in DOMAIN degree : degree[v] = 0}
        gone(v) == FoldLeft(LAMBDA n, u : n + Occurrences(h[u].kids, v), 0, SetToSeq(free))
    IN  IF free = {} THEN degree
        ELSE reduce_degrees(h, [v \in DOMAIN degree \ free |-> degree[v] - gone(v)])

\* The result of a macro may hold nothing opaque and no cycle.
fklIsSerializableToByteCodeFile(h, v) ==
    LET met == traverse_value_dfs(h, <<v>>, {}, <<>>)
        compound == SelectSeq(met, LAMBDA u : ~is_serializable_leaf_node(h, u))
        degree == [u \in ToSet(compound) |-> Occurrences(compound, u) - (IF u = v THEN 1 ELSE 0)]
    IN  /\ \A k \in DOMAIN met : is_serializable_to_bytecode_value(h, met[k])
        /\ DOMAIN reduce_degrees(h, degree) = {}

\* The values of v in the order they were met.
Bug_InOrderMet(h, t, v) ==
    LET met == traverse_value_bfs(h, <<v>>, {}, <<>>)
        leaf(u) == is_serializable_leaf_node(h, u)
    IN  FoldLeft(fklValueTableAdd, t,
                 SelectSeq(met, leaf) \o SelectSeq(met, LAMBDA u : ~leaf(u)))

\* The leaves of v enter the table first, then the other values from the last
\* met to the first.
fklTraverseSerializableValue(h, t, v) ==
    LET met == traverse_value_bfs(h, <<v>>, {}, <<>>)
        leaf(u) == is_serializable_leaf_node(h, u)
    IN  FoldLeft(fklValueTableAdd, t,
                 SelectSeq(met, leaf) \o Reverse(SelectSeq(met, LAMBDA u : ~leaf(u))))

AddAll(h, t, vs) == FoldLeft(LAMBDA s, v : fklTraverseSerializableValue(h, s, v), t, vs)

-----------------------------------------------------------------------------
(* The tables of a program. *)

Ref(t, n) == [t |-> t, n |-> n]

traverse_prototype(h, prog, tabs, n) ==
    LET pt == prog.protos[n]
    IN  [values |-> AddAll(h, tabs.values, pt.defs \o pt.konsts),
         protos |-> Append(tabs.protos, n),
         libs |-> tabs.libs,
         pending |-> tabs.pending \o [k \in 1 .. Len(pt.children) |-> Ref("proto", pt.children[k])]
                                  \o [k \in 1 .. Len(pt.libs) |-> Ref("lib", pt.libs[k])]]

traverse_vm_lib(prog, tabs, n) ==
    LET l == prog.libs[n]
    IN  [values |-> FoldLeft(fklValueTableAdd, tabs.values,
                        <<l.name>> \o l.names \o (IF l.type = "dll" THEN <<l.proc>> ELSE <<>>)),
         protos |-> tabs.protos,
         libs |-> Append(tabs.libs, n),
         pending |-> IF l.type = "dll" THEN tabs.pending ELSE Append(tabs.pending, Ref("proc", l.proc))]

traverse_proc(h, prog, tabs, n) ==
    [tabs EXCEPT !.values = AddAll(h, @, prog.procs[n].lnt),
                 !.pending = Append(@, Ref("proto", prog.procs[n].proto))]

\* What is on top of the pending objects enters the tables, unless it is there.
traverse_writing_cb(h, prog, tabs) ==
    LET v == Last(tabs.pending)
        rest == [tabs EXCEPT !.pending = Front(@)]
    IN  CASE v.t = "proc" -> traverse_proc(h, prog, rest, v.n)
          [] v.t = "proto" -> IF Contains(tabs.protos, v.n) THEN rest
                              ELSE traverse_prototype(h, prog, rest, v.n)
          [] v.t = "lib" -> IF Contains(tabs.libs, v.n) THEN rest
                            ELSE traverse_vm_lib(prog, rest, v.n)

RECURSIVE traverse_obj(_, _, _)
traverse_obj(h, prog, tabs) ==
    IF tabs.pending = <<>> THEN tabs
    ELSE traverse_obj(h, prog, traverse_writing_cb(h, prog, tabs))

traverse_writing_obj(h, prog, main) ==
    traverse_obj(h, prog, [values |-> <<>>, protos |-> <<>>, libs |-> <<>>,
                           pending |-> <<Ref("proc", main)>>])

-----------------------------------------------------------------------------
(* Writing. *)

Ids(t, vs) == [k \in 1 .. Len(vs) |-> fklValueTableGet(t, vs[k])]

write_value_create_instructions(h, t, id) ==
    [op |-> h[t[id]].kind, args |-> Ids(t, h[t[id]].kids)]

\* A value refers to no value that is written after it (write_value_id).
AssertedOrder(values) ==
    \A id \in 1 .. Len(values) : \A k \in DOMAIN values[id].args :
       values[id].args[k] \in 1 .. id

fklWriteValueTable(h, t) ==
    [id \in 1 .. Len(t) |-> write_value_create_instructions(h, t, id)]

write_prototype(prog, tabs, n) ==
    LET pt == prog.protos[n]
    IN  [defs |-> Ids(tabs.values, pt.defs), konsts |-> Ids(tabs.values, pt.konsts),
         children |-> Ids(tabs.protos, pt.children), libs |-> Ids(tabs.libs, pt.libs)]

\* From the last prototype to the first.
write_prototype_table(prog, tabs) ==
    Reverse([k \in 1 .. Len(tabs.protos) |-> write_prototype(prog, tabs, tabs.protos[k])])

write_proc(prog, tabs, n) ==
    LET proc == prog.procs[n]
    IN  [proto |-> fklValueTableGet(tabs.protos, proc.proto),
         lnt |-> Ids(tabs.values, proc.lnt), code |-> proc.code]

write_vm_lib(prog, tabs, n) ==
    LET l == prog.libs[n]
    IN  [name |-> fklValueTableGet(tabs.values, l.name), names |-> Ids(tabs.values, l.names),
         type |-> l.type,
         proc |-> IF l.type = "dll" THEN [path |-> fklValueTableGet(tabs.values, l.proc)]
                  ELSE write_proc(prog, tabs, l.proc)]

\* From the last library to the first.
write_lib_table(prog, tabs) ==
    Reverse([k \in 1 .. Len(tabs.libs) |-> write_vm_lib(prog, tabs, tabs.libs[k])])

fklWriteCodeFile(h, prog, tabs, main) ==
    [values |-> fklWriteValueTable(h, tabs.values),
     protos |-> write_prototype_table(prog, tabs),
     libs |-> write_lib_table(prog, tabs),
     main |-> write_proc(prog, tabs, main)]

-----------------------------------------------------------------------------
(* Loading.  An object that is loaded is named by its id. *)

\* Every id stands for an object that is there.
Loaded(ids, there) == \A k \in DOMAIN ids : ids[k] \in there

\* The values are made one after the other; a compound one is in its place before
\* its parts are looked up.
load_value_table(values) ==
    [ok |-> \A id \in 1 .. Len(values) : Loaded(values[id].args, 1 .. id),
     values |-> values]

\* The prototype read k-th of count gets the id count - k + 1.
load_prototype(pt, count, k, values) ==
    [ok |-> /\ Loaded(pt.defs \o pt.konsts, DOMAIN values)
            /\ Loaded(pt.children, count - k + 2 .. count),
     proto |-> [pt EXCEPT !.libs = [j \in DOMAIN @ |-> Ref("placeholder", @[j])]]]

load_proto_table(protos, values) ==
    LET load(k) == load_prototype(protos[k], Len(protos), k, values)
    IN  [ok |-> \A k \in 1 .. Len(protos) : load(k).ok,
         protos |-> [id \in 1 .. Len(protos) |-> load(Len(protos) - id + 1).proto]]

LoadedProc(proc, values, protos) ==
    proc.proto \in DOMAIN protos /\ Loaded(proc.lnt, DOMAIN values)

load_vm_lib(l, values, protos) ==
    [ok |-> /\ Loaded(<<l.name>> \o l.names, DOMAIN values)
            /\ IF l.type = "dll" THEN l.proc.path \in DOMAIN values
               ELSE LoadedProc(l.proc, values, protos),
     lib |-> l]

load_lib_table(libs, values, protos) ==
    [ok |-> \A k \in DOMAIN libs : load_vm_lib(libs[k], values, protos).ok,
     libs |-> [id \in DOMAIN libs |-> load_vm_lib(libs[Len(libs) - id + 1], values, protos).lib]]

\* The placeholders in the prototypes are replaced by the libraries.
fixup_proto_lib_refs(protos, libs) ==
    [ok |-> \A id \in DOMAIN protos : \A k \in DOMAIN protos[id].libs :
               protos[id].libs[k].n \in DOMAIN libs,
     protos |-> [id \in DOMAIN protos |->
                   [protos[id] EXCEPT !.libs = [k \in DOMAIN @ |-> Ref("lib", @[k].n)]]]]
=============================================================================
