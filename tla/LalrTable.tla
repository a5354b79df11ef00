----------------------------- MODULE LalrTable ------------------------------
(***************************************************************************)
(* src/grammer.c: lookaheads and the actions of the states.                *)
(*                                                                         *)
(* A lookahead item is an item with one symbol la that may follow it.  The *)
(* actions of a state are tried in their order: shift and reduce on a      *)
(* string or a composite, "ign" to skip ignored text, and "eof", which     *)
(* matches always.                                                         *)
(***************************************************************************)
EXTENDS Grammer

Item(p, idx, la) == [p |-> p, idx |-> idx, la |-> la]

\* What may follow the nonterminal behind the dot of the item.
get_la_first_set(g, firsts, i) ==
    LET beta == i.idx + (IF is_at_delim_sym(g, i) THEN 2 ELSE 1)
    IN  get_first_from_syms(firsts, SubSeq(g[i.p].syms, beta + 1, Len(g[i.p].syms)))

\* The items that one round of the closure adds for the item.
closure_of_item(g, firsts, i) ==
    LET next == get_item_next(g, i)
        beta == get_la_first_set(g, firsts, i)
    IN  IF next.t # "nt" THEN {}
        ELSE {Item(p, 0, la) : p \in ToSet(Productions(g, next.v[1])),
                               la \in beta.first \cup (IF beta.eps THEN {i.la} ELSE {})}

RECURSIVE closure_from(_, _, _, _)
closure_from(g, firsts, items, processing) ==
    LET new == UNION {closure_of_item(g, firsts, i) : i \in processing} \ items
    IN  IF new = {} THEN items ELSE closure_from(g, firsts, items \cup new, new)

lr1_item_set_closure(g, firsts, items) == closure_from(g, firsts, items, items)

-----------------------------------------------------------------------------
(* Lookaheads the item sets generate for each other and hand on. *)

\* The link x is taken over by the item i, which the closure of the kernel item
\* of the production p made.
link_applies(g, x, self, i, p) ==
    LET s == get_item_next(g, i)
    IN  /\ x.dst # self
        /\ s = x.sym
        /\ \/ s.t # "nt"
           \/ x.allow_ignore = is_at_delim_sym(g, i)
           \/ p # i.p

\* Every [src, item, dst, to]: a lookahead of the item in the set src is one of
\* to in the set dst, where to.la is not NONE only if it is generated there.
check_lookahead_self_generated_and_spread(g, firsts, lr0, n) ==
    UNION {
      {[src |-> n, item |-> k, dst |-> lr0.links[n][x].dst, to |-> get_item_advance(g, i)] :
         <<i, x>> \in
           {<<j, y>> \in lr1_item_set_closure(g, firsts, {Item(k.p, k.idx, NONE)})
                         \X (1 .. Len(lr0.links[n])) :
              link_applies(g, lr0.links[n][y], n, j, k.p)}} :
      k \in ToSet(lr0.sets[n])}

\* las[n]: the items of set n with their lookaheads.
init_lalr_lookahead(edges, count) ==
    [n \in 1 .. count |->
        {e.to : e \in {f \in edges : f.dst = n /\ f.to.la # NONE}}
          \cup (IF n = 1 THEN {Item(1, 0, EOF)} ELSE {})]

lookahead_spread(edges, las, n) ==
    {Item(e.to.p, e.to.idx, i.la) :
       <<e, i>> \in {<<f, j>> \in UNION {{f} \X las[f.src] : f \in {h \in edges : h.dst = n}} :
                       f.to.la = NONE /\ f.item.p = j.p /\ f.item.idx = j.idx}}

RECURSIVE spread_all(_, _)
spread_all(edges, las) ==
    LET next == [n \in DOMAIN las |-> las[n] \cup lookahead_spread(edges, las, n)]
    IN  IF next = las THEN las ELSE spread_all(edges, next)

lalr_items(g, firsts, las) ==
    [n \in DOMAIN las |-> lr1_item_set_closure(g, firsts, las[n])]

spread_edges(g, firsts, lr0) ==
    UNION {check_lookahead_self_generated_and_spread(g, firsts, lr0, n) :
              n \in 1 .. Len(lr0.sets)}

fklLr0ToLalrItems(g, firsts, lr0) ==
    LET edges == spread_edges(g, firsts, lr0)
    IN  lalr_items(g, firsts, spread_all(edges, init_lalr_lookahead(edges, Len(lr0.sets))))

-----------------------------------------------------------------------------
(* The actions of one state. *)

\* actions with a put before the first action, among those of its type, at which
\* stop is true.
insert_action(actions, a, stop(_)) ==
    LET of == SelectInSeq(actions, LAMBDA c : c.match.t = a.match.t)
        from == IF of = 0 THEN Len(actions) + 1 ELSE of
        ends == {k \in from .. Len(actions) : actions[k].match.t # a.match.t \/ stop(actions[k])}
        at == IF ends = {} THEN Len(actions) + 1 ELSE CHOOSE k \in ends : \A m \in ends : k <= m
    IN  SubSeq(actions, 1, at - 1) \o <<a>> \o SubSeq(actions, at, Len(actions))

\* Longer terminals first; without ignored text before with it.
add_shift_action(actions, link) ==
    insert_action(actions,
        [action |-> "shift", match |-> link.sym, allow_ignore |-> link.allow_ignore, to |-> link.dst],
        LAMBDA c : \/ ~link.allow_ignore /\ c.allow_ignore
                   \/ Len(link.sym.v) > Len(c.match.v))

check_reduce_conflict(actions, la) ==
    \E k \in 1 .. Len(actions) : actions[k].match = la

add_reduce_action(g, actions, p, la) ==
    insert_action(actions,
        [action |-> IF g[p].left = Sq THEN "accept" ELSE "reduce",
         match |-> la, allow_ignore |-> FALSE, to |-> p],
        LAMBDA c : la.t = "comp" \/ Len(la.v) > Len(c.match.v))

IgnoreAction == [action |-> "ignore", match |-> Ign, allow_ignore |-> FALSE, to |-> 0]

is_only_single_way_to_reduce(links, items) ==
    /\ \A k \in 1 .. Len(links) : links[k].sym.t = "nt"
    /\ Cardinality({i.p : i \in items}) = 1
    /\ \E i \in items : i.la = EOF

\* The actions of type t are added: what the links shift, then what the
\* complete items reduce.
Conflict == <<[action |-> "conflict", match |-> NONE, allow_ignore |-> FALSE, to |-> 0]>>
add_actions_of_type(g, actions, links, items, single, t) ==
    LET shifted == FoldLeft(add_shift_action, actions, SelectSeq(links, LAMBDA x : x.sym.t = t))
        complete == IF single THEN {}
                    ELSE {i \in items : get_item_next(g, i) = NONE /\ i.la.t = t}
        reduce(as, i) == IF as = Conflict \/ check_reduce_conflict(as, i.la) THEN Conflict
                         ELSE add_reduce_action(g, as, i.p, i.la)
    IN  FoldLeft(reduce, shifted, SetToSeq(complete))

\* Gotos that do not allow ignored text come first.
state_gotos(links) ==
    LET gotos(allow) == SelectSeq(Reverse(links), LAMBDA x : x.sym.t = "nt" /\ x.allow_ignore = allow)
    IN  gotos(FALSE) \o gotos(TRUE)

state_actions(g, n, links, items, single) ==
    LET comps == add_actions_of_type(g, <<>>, links, items, single, "comp")
        strs == add_actions_of_type(g, comps, links, items, single, "str")
        ignores == ~single /\ \E i \in items : get_item_next(g, i) = NONE /\ i.la = Ign
    IN  IF comps = Conflict \/ strs = Conflict THEN Conflict
        ELSE IF single THEN add_reduce_action(g, strs, (CHOOSE i \in items : TRUE).p, EOF)
        ELSE IF ignores \/ n = 1 THEN Append(strs, IgnoreAction) ELSE strs

fklGenerateLalrAnalyzeTable(g, lr0, lalr) ==
    [n \in 1 .. Len(lr0.sets) |->
       [action |-> state_actions(g, n, lr0.links[n], lalr[n],
                                 is_only_single_way_to_reduce(lr0.links[n], lalr[n])),
        gt |-> state_gotos(lr0.links[n])]]

HasConflict(table) == \E n \in DOMAIN table : table[n].action = Conflict
=============================================================================
