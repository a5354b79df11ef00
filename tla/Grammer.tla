------------------------------- MODULE Grammer ------------------------------
(***************************************************************************)
(* src/grammer.c: how the reader's tables are made from a grammar.         *)
(*                                                                         *)
(* A grammar is a sequence of productions, the first of which is the       *)
(* production S' of fklAddExtraProdToGrammer.  The symbols of a production *)
(* are nonterminals, strings, composites (strings that ".." joins) and, in *)
(* every place where ignored text may stand, the symbol "ign".  Regular    *)
(* expressions, keywords and builtin terminals are handled like strings.   *)
(* A word is a sequence of characters.                                     *)
(***************************************************************************)
EXTENDS Integers, Sequences, FiniteSets, SequencesExt

Nt(n) == [t |-> "nt", v |-> <<n>>]
Str(s) == [t |-> "str", v |-> s]
Ign == [t |-> "ign", v |-> <<>>]
EOF == [t |-> "eof", v |-> <<>>]
NONE == [t |-> "none", v |-> <<>>]

IsTerminal(s) == s.t \in {"str", "comp"}
Sq == "S'"

-----------------------------------------------------------------------------
(* Productions. *)

\* One chain of symbols joined by "..": terminals are folded into a composite.
fklGraFoldConcatChains(chain) ==
    IF Len(chain) >= 2 /\ \A k \in 1 .. Len(chain) : IsTerminal(chain[k])
    THEN <<[t |-> "comp", v |-> FlattenSeq([k \in 1 .. Len(chain) |-> chain[k].v])]>>
    ELSE chain

\* Ignored text may stand between the chains of the right part.
Production(left, chains) ==
    [left |-> left,
     syms |-> FlattenSeq([k \in 1 .. Len(chains) |->
                 (IF k = 1 THEN <<>> ELSE <<Ign>>) \o fklGraFoldConcatChains(chains[k])])]

create_extra_production(start) == [left |-> Sq, syms |-> <<Ign, Nt(start)>>]

\* Ignored text counted as a symbol.
Bug_CountsIgnored(g, p) ==
    FoldLeft(LAMBDA n, s : n + (IF s.t = "comp" THEN Len(s.v) ELSE 1), 0, g[p].syms)

\* How many symbols of the stacks a production stands for.
fklComputeProdActualLen(g, p) ==
    FoldLeft(LAMBDA n, s : n + (CASE s.t = "ign" -> 0 [] s.t = "comp" -> Len(s.v) [] OTHER -> 1),
             0, g[p].syms)

Nonterms(g) == {g[p].left : p \in DOMAIN g}
Productions(g, n) == SelectSeq([p \in DOMAIN g |-> p], LAMBDA p : g[p].left = n)

-----------------------------------------------------------------------------
(* First sets. *)

\* What a sequence of symbols may begin with, and whether it may be empty.
get_first_from_syms(firsts, syms) ==
    LET step(r, s) ==
          CASE ~r.eps -> r
            [] r.eps /\ s.t = "ign" -> [r EXCEPT !.first = @ \cup {s}]
            [] r.eps /\ s.t = "nt" -> [first |-> r.first \cup firsts[s.v[1]].first, eps |-> firsts[s.v[1]].eps]
            [] OTHER -> [first |-> r.first \cup {s}, eps |-> FALSE]
    IN  FoldLeft(step, [first |-> {}, eps |-> TRUE], syms)

\* One round over the productions of n: a production that cannot be empty ends it.
first_of_productions(g, firsts, n) ==
    LET of(p) == get_first_from_syms(firsts, g[p].syms)
        step(r, p) == IF r.done THEN r
                      ELSE [first |-> r.first \cup of(p).first,
                            eps |-> r.eps \/ of(p).eps,
                            done |-> ~of(p).eps]
        all == FoldLeft(step, [first |-> {}, eps |-> FALSE, done |-> FALSE], Productions(g, n))
    IN  [first |-> all.first, eps |-> all.eps]

RECURSIVE first_fixpoint(_, _)
first_fixpoint(g, firsts) ==
    LET next == [n \in DOMAIN firsts |-> first_of_productions(g, firsts, n)]
    IN  IF next = firsts THEN firsts ELSE first_fixpoint(g, next)

compute_all_first_set(g) ==
    first_fixpoint(g, [n \in Nonterms(g) \ {Sq} |-> [first |-> {}, eps |-> FALSE]])

-----------------------------------------------------------------------------
(* Items: the production p with its dot before the symbol idx (from 0). *)

is_at_delim_sym(g, i) ==
    /\ i.idx < Len(g[i.p].syms) - 1
    /\ g[i.p].syms[i.idx + 1].t = "ign"

get_item_next(g, i) ==
    IF i.idx >= Len(g[i.p].syms) THEN NONE
    ELSE g[i.p].syms[i.idx + (IF is_at_delim_sym(g, i) THEN 2 ELSE 1)]

get_item_advance(g, i) ==
    [i EXCEPT !.idx = @ + (IF is_at_delim_sym(g, i) THEN 2 ELSE 1)]

\* The nonterminals the items wait for that are not in seen, in their order.
pending_nonterms(g, items, seen) ==
    FoldLeft(LAMBDA r, i : LET s == get_item_next(g, i)
                           IN  IF s.t = "nt" /\ s.v[1] \notin seen /\ ~Contains(r, s.v[1])
                               THEN Append(r, s.v[1]) ELSE r,
             <<>>, items)

RECURSIVE lr0_item_set_closure(_, _, _)
lr0_item_set_closure(g, items, seen) ==
    LET new == pending_nonterms(g, items, seen)
        added == FlattenSeq([k \in 1 .. Len(new) |-> Productions(g, new[k])])
    IN  IF new = <<>> THEN items
        ELSE lr0_item_set_closure(g,
                 items \o [k \in 1 .. Len(added) |-> [p |-> added[k], idx |-> 0]],
                 seen \cup ToSet(new))

\* Items are sorted by the address of their left side, long productions first.
\* (nonterm_lt and nonterm_gt both compare with >, so that qsort is given no
\* order; rank stands for the order it comes to.)
lalr_item_set_sort(g, rank, items) ==
    LET key(i) == <<rank[g[i.p].left], -Len(g[i.p].syms), i.p, i.idx>>
        less(i, j) == \E k \in 1 .. 4 : /\ key(i)[k] < key(j)[k]
                                        /\ \A m \in 1 .. k - 1 : key(i)[m] = key(j)[m]
    IN  SortSeq(items, less)

-----------------------------------------------------------------------------
(* Item sets.  A link sym is a symbol the items wait for, whether ignored   *)
(* text may precede it (allow_ignore) and whether it stands behind "ign".   *)

is_gra_link_sym_allow_ignore(checked, left) ==
    \E k \in 1 .. Len(checked) : checked[k].sym = Nt(left) /\ checked[k].allow_ignore

put_link_sym(checked, ss) == IF Contains(checked, ss) THEN checked ELSE Append(checked, ss)

add_gra_link_syms(g, items) ==
    LET link(checked, i, inherits) ==
          put_link_sym(checked,
              [sym |-> get_item_next(g, i),
               allow_ignore |-> \/ inherits /\ is_gra_link_sym_allow_ignore(checked, g[i.p].left)
                                \/ is_at_delim_sym(g, i),
               is_at_delim |-> is_at_delim_sym(g, i)])
        nonterms == SelectSeq(items, LAMBDA i : get_item_next(g, i).t = "nt")
        terms == SelectSeq(items, LAMBDA i : IsTerminal(get_item_next(g, i)))
        first == FoldLeft(LAMBDA c, i : link(c, i, TRUE), <<>>, nonterms)
    IN  FoldLeft(LAMBDA c, i : link(c, i, i.idx = 0), first, terms)

\* The items reached from items over the link sym.
item_set_over(g, items, ss) ==
    LET over == SelectSeq(items, LAMBDA i : /\ get_item_next(g, i) = ss.sym
                                            /\ is_at_delim_sym(g, i) = ss.is_at_delim)
    IN  [k \in 1 .. Len(over) |-> get_item_advance(g, over[k])]

index_of_set(sets, items) ==
    SelectInSeq([k \in 1 .. Len(sets) |-> ToSet(sets[k])], LAMBDA s : s = ToSet(items))

\* lr0.sets are the item sets found, lr0.links the links of those already done.
add_link(lr0, items, ss) ==
    LET known == index_of_set(lr0.sets, items)
        sets == IF known = 0 THEN Append(lr0.sets, items) ELSE lr0.sets
        dst == IF known = 0 THEN Len(sets) ELSE known
    IN  [sets |-> sets, links |-> lr0.links,
         cur |-> <<[sym |-> ss.sym, allow_ignore |-> ss.allow_ignore, dst |-> dst]>> \o lr0.cur]

lr0_item_set_goto(g, rank, lr0) ==
    LET items == lr0_item_set_closure(g, lr0.sets[Len(lr0.links) + 1], {})
        sorted == lalr_item_set_sort(g, rank, items)
        done == FoldLeft(LAMBDA r, ss : add_link(r, item_set_over(g, sorted, ss), ss),
                         [sets |-> lr0.sets, links |-> lr0.links, cur |-> <<>>],
                         add_gra_link_syms(g, items))
    IN  [sets |-> done.sets, links |-> Append(done.links, done.cur)]

RECURSIVE lr0_from(_, _, _)
lr0_from(g, rank, lr0) ==
    IF Len(lr0.links) = Len(lr0.sets) THEN lr0
    ELSE lr0_from(g, rank, lr0_item_set_goto(g, rank, lr0))

fklGenerateLr0Items(g, rank) ==
    lr0_from(g, rank, [sets |-> <<<<[p |-> 1, idx |-> 0]>>>>, links |-> <<>>])
=============================================================================
