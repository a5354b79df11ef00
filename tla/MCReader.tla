------------------------------ MODULE MCReader ------------------------------
(***************************************************************************)
(* The tables and the parser of every small grammar against the language   *)
(* the grammar describes.                                                  *)
(***************************************************************************)
EXTENDS Parser, TLC

CONSTANT MaxWord   \* the length of the longest text read

VARIABLES g, rank, firsts, lr0, lalr, table, phase

vars == <<g, rank, firsts, lr0, lalr, table, phase>>

x == Str(<<"x">>)
y == Str(<<"y">>)
S == Nt("S")
A == Nt("A")

\* The right parts of S, and the right parts A may have one or two of.
Starts ==
    {<< <<<<A>>, <<x>>>> >>,                    \* A "x"
     << <<<<x>>, <<A>>, <<y>>>> >>,             \* "x" A "y"
     << <<<<A>>, <<A>>>> >>,                    \* A A
     << <<<<A, y>>>> >>,                        \* A .. "y"
     << <<<<x, A>>>>, <<<<x>>, <<A>>>> >>,      \* "x" .. A or "x" A
     << <<<<y>>, <<S>>>>, <<<<A>>>> >>}         \* "y" S or A
Parts ==
    {<<>>, <<<<x>>, <<A>>, <<y>>>>}
      \cup {<<<<a>>>> : a \in {A, x, y}}
      \cup {<<<<a>>, <<b>>>> : a, b \in {A, x, y}}
      \cup {<<<<a, b>>>> : a, b \in {A, x, y}}
PartLists == {<<a>> : a \in Parts} \cup {c \in Parts \X Parts : c[1] # c[2]}

ProductionsFor(left, parts) == [k \in 1 .. Len(parts) |-> Production(left, parts[k])]
Grammars ==
    {<<create_extra_production("S")>> \o ProductionsFor("S", s) \o ProductionsFor("A", a) :
        s \in Starts, a \in PartLists}

Init ==
    /\ g \in Grammars
    /\ rank \in {[n \in {Sq, "S", "A"} |-> CASE n = Sq -> 0 [] n = first -> 1 [] OTHER -> 2] :
                    first \in {"S", "A"}}
    /\ firsts = <<>> /\ lr0 = <<>> /\ lalr = <<>> /\ table = <<>>
    /\ phase = "grammar"

MakeItems ==
    /\ phase = "grammar"
    /\ firsts' = compute_all_first_set(g)
    /\ lr0' = fklGenerateLr0Items(g, rank)
    /\ phase' = "lr0"
    /\ UNCHANGED <<g, rank, lalr, table>>

MakeLookaheads ==
    /\ phase = "lr0"
    /\ lalr' = fklLr0ToLalrItems(g, firsts, lr0)
    /\ phase' = "lalr"
    /\ UNCHANGED <<g, rank, firsts, lr0, table>>

MakeTable ==
    /\ phase = "lalr"
    /\ table' = fklGenerateLalrAnalyzeTable(g, lr0, lalr)
    /\ phase' = "table"
    /\ UNCHANGED <<g, rank, firsts, lr0, lalr>>

Next == MakeItems \/ MakeLookaheads \/ MakeTable
Spec == Init /\ [][Next]_vars

-----------------------------------------------------------------------------
(* The language of a grammar, among the words that are read. *)

Words == UNION {[1 .. n -> {"x", "y", Blank}] : n \in 0 .. MaxWord}
Squeeze(w) == SelectSeq(w, LAMBDA c : c # Blank)
Blanks == {w \in Words : Squeeze(w) = <<>>}

WordsOf(lang, syms) ==
    LET of(s) == CASE s.t = "ign" -> Blanks
                   [] s.t = "nt" -> lang[s.v[1]]
                   [] OTHER -> {s.v}
    IN  FoldLeft(LAMBDA l, s : {u \o v : u \in l, v \in of(s)} \cap Words, {<<>>}, syms)

RECURSIVE LanguagesFrom(_, _)
LanguagesFrom(gr, lang) ==
    LET next == [n \in DOMAIN lang |->
                    UNION {WordsOf(lang, gr[p].syms) : p \in ToSet(Productions(gr, n))}]
    IN  IF next = lang THEN lang ELSE LanguagesFrom(gr, next)
Language(gr) == LanguagesFrom(gr, [n \in Nonterms(gr) |-> {}])[Sq]

-----------------------------------------------------------------------------
(* Lookaheads by the book: every production counts for the first set of its *)
(* left side, and an item set hands lookaheads on to itself as well.        *)

RECURSIVE FirstsFrom(_, _)
FirstsFrom(gr, f) ==
    LET of(n) == {get_first_from_syms(f, gr[p].syms) : p \in ToSet(Productions(gr, n))}
        next == [n \in DOMAIN f |-> [first |-> UNION {r.first : r \in of(n)},
                                     eps |-> \E r \in of(n) : r.eps]]
    IN  IF next = f THEN f ELSE FirstsFrom(gr, next)

EdgesWithSelf(gr, f) ==
    UNION {{[src |-> n, item |-> k, dst |-> lr0.links[n][l].dst, to |-> get_item_advance(gr, i)] :
              <<i, l>> \in {<<j, m>> \in lr1_item_set_closure(gr, f, {Item(k.p, k.idx, NONE)})
                                         \X (1 .. Len(lr0.links[n])) :
                              link_applies(gr, lr0.links[n][m], 0, j, k.p)}} :
             <<n, k>> \in UNION {{n} \X ToSet(lr0.sets[n]) : n \in 1 .. Len(lr0.sets)}}

FullLookaheads(f, edges) ==
    lalr_items(g, f, spread_all(edges, init_lalr_lookahead(edges, Len(lr0.sets))))

-----------------------------------------------------------------------------
(* What the code is known to get wrong. *)

\* compute_all_first_set leaves a nonterminal at its first production that is
\* not empty, and check_lookahead_self_generated_and_spread passes over the links
\* of an item set to itself.
LosesLookahead ==
    LET f == FirstsFrom(g, firsts)
    IN  lalr # FullLookaheads(f, EdgesWithSelf(g, f))

\* check_lookahead_self_generated_and_spread does not ask whether a link stands
\* behind ignored text, and puts items into sets they do not belong to.
MixesItems ==
    \E n \in DOMAIN lalr : \E i \in lalr[n] :
       [p |-> i.p, idx |-> i.idx] \notin ToSet(lr0_item_set_closure(g, lr0.sets[n], {}))

\* The end of the text is no lookahead of a state with more than one way.
IgnoresEnd ==
    \E n \in DOMAIN lalr :
       /\ ~is_only_single_way_to_reduce(lr0.links[n], lalr[n])
       /\ \E i \in lalr[n] : i.la = EOF /\ get_item_next(g, i) = NONE

\* Ignored text is skipped where ".." forbids it: a state that skips it for the
\* sake of one item waits for another, or for what ".." puts behind a nonterminal.
SkipsTooMuch ==
    \/ \E p \in DOMAIN g : \E k \in 1 .. Len(g[p].syms) - 1 :
          g[p].syms[k].t = "nt" /\ g[p].syms[k + 1].t # "ign"
    \/ \E n \in DOMAIN table :
          /\ Contains(table[n].action, IgnoreAction)
          /\ \E k \in DOMAIN table[n].action :
                table[n].action[k].action = "shift" /\ ~table[n].action[k].allow_ignore

\* A state takes a composite before a shorter terminal the composite begins with,
\* whatever follows; this is no conflict.
PrefersLonger ==
    \E n \in DOMAIN table : \E j, k \in DOMAIN table[n].action :
       LET a == table[n].action[j].match
           b == table[n].action[k].match
       IN  IsTerminal(a) /\ IsTerminal(b) /\ IsStrictPrefix(a.v, b.v)

\* Whether the text may go on behind a blank is asked of the action tried last,
\* although an action before it would have skipped the blank.
AsksLastAction ==
    \E n \in DOMAIN table :
       /\ \E k \in DOMAIN table[n].action : table[n].action[k].allow_ignore
       /\ ~Last(table[n].action).allow_ignore
       /\ ~Contains(table[n].action, IgnoreAction)

-----------------------------------------------------------------------------

Ready == phase = "table" /\ ~HasConflict(table)
Parsed(w) == fklParseWithTableForCharBuf2(g, table, Start(w), 4 * Len(w) + 20)
Consumed(c, w) == SubSeq(w, 1, Len(w) - Len(c.rest))

\* The text read is a word of the language, but for ignored text behind it.
IsRead(u, lang, loose) ==
    \E k \in 0 .. Len(u) :
       /\ Squeeze(Drop(u, k)) = <<>>
       /\ \/ SubSeq(u, 1, k) \in lang
          \/ loose /\ Squeeze(u) \in {Squeeze(v) : v \in lang}

\* A table without conflict describes the language of its grammar: the parser
\* comes to an end, what it accepts is a word of the language, and it accepts
\* every word of it.
ReadsTheLanguage ==
    Ready /\ ~MixesItems =>
        LET lang == Language(g)
            loose == SkipsTooMuch
            results == [w \in Words |-> Parsed(w)]
        IN  /\ \A w \in Words :
                  /\ results[w].status \notin {"run", "stack empty"}
                  /\ results[w].status = "accept" => IsRead(Consumed(results[w], w), lang, loose)
            /\ ~LosesLookahead /\ ~IgnoresEnd /\ ~PrefersLonger =>
                  \A w \in lang : (loose => Squeeze(w) = w) => results[w].status = "accept"

\* It makes no difference to what is read, and to what is left to be read, that
\* the reader hands its text to the parser one line at a time.
LinesDoNotMatter ==
    Ready /\ ~MixesItems /\ ~AsksLastAction =>
        \A w \in Words :
           LET whole == Parsed(w)
               lines == fklReadWithAnalysisTable(g, table, w)
           IN  /\ (whole.status = "accept") = (lines.status = "accept")
               /\ whole.status = "accept" => whole.rest = lines.rest
=============================================================================
