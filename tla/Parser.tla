------------------------------- MODULE Parser -------------------------------
(***************************************************************************)
(* src/parse.h and src/parser.c: the parser that the tables drive, and the *)
(* reader that feeds it a stream line by line.                             *)
(*                                                                         *)
(* A configuration holds the stack of states, for each symbol on the       *)
(* symbol stack whether ignored text preceded it (start_with_ignore), and  *)
(* the characters not yet consumed.  The values of the symbols are left    *)
(* out.                                                                    *)
(***************************************************************************)
EXTENDS LalrTable

Blank == "\n"

\* How many characters at the beginning of the word are ignored.
match_ignore(word) ==
    LET solid == {k \in 1 .. Len(word) : word[k] # Blank}
    IN  IF solid = {} THEN Len(word) ELSE (CHOOSE k \in solid : \A m \in solid : k <= m) - 1

Drop(word, n) == SubSeq(word, n + 1, Len(word))

\* What the action skips and consumes if it matches; len = -1 if it does not.
fklIsStateActionMatch(a, word) ==
    LET skip == match_ignore(word)
        tried == IF a.allow_ignore /\ skip > 0 THEN skip ELSE 0
    IN  CASE a.match.t = "eof" -> [skip |-> 0, len |-> 1]
          [] a.match.t = "ign" -> [skip |-> 0, len |-> IF skip > 0 THEN skip ELSE -1]
          [] a.match.t \notin {"eof", "ign"} /\ IsPrefix(a.match.v, word) ->
               [skip |-> 0, len |-> Len(a.match.v)]
          [] a.match.t \notin {"eof", "ign"} /\ ~IsPrefix(a.match.v, word) ->
               [skip |-> tried,
                len |-> IF tried > 0 /\ IsPrefix(a.match.v, Drop(word, tried))
                        THEN Len(a.match.v) ELSE -1]

-----------------------------------------------------------------------------

Start(word) == [states |-> <<1>>, syms |-> <<>>, rest |-> word, status |-> "run"]

Shift(c, a, m) ==
    LET n == Len(a.match.v)
    IN  [c EXCEPT !.states = @ \o [k \in 1 .. n |-> a.to],
                  !.syms = @ \o [k \in 1 .. n |-> k = 1 /\ m.skip > 0],
                  !.rest = Drop(@, m.skip + m.len)]

\* The production len symbols long is replaced by its left side.  A stack that
\* holds less than the production is the end of the program.
do_reduce_action(g, table, c, p, len) ==
    LET states == SubSeq(c.states, 1, Len(c.states) - len)
        syms == SubSeq(c.syms, 1, Len(c.syms) - len)
        ignored == len > 0 /\ c.syms[Len(syms) + 1]
        gotos == SelectSeq(table[Last(states)].gt,
                           LAMBDA x : (x.allow_ignore \/ ~ignored) /\ x.sym = Nt(g[p].left))
    IN  CASE states = <<>> -> [c EXCEPT !.status = "stack empty"]
          [] states # <<>> /\ gotos = <<>> -> [c EXCEPT !.status = "reduce failed"]
          [] OTHER -> [c EXCEPT !.states = Append(states, gotos[1].dst),
                                !.syms = Append(syms, ignored)]

\* A line that ends in ignored text never waits for the next.
Bug_NeverWaits(c, actions) == [c EXCEPT !.status = "match failed"]

\* No action matches: the text may go on, or it is wrong.
no_action(c, actions) ==
    LET tried == IF actions = <<>> THEN 0 ELSE fklIsStateActionMatch(Last(actions), c.rest).skip
    IN  [c EXCEPT !.status = IF c.rest # <<>> /\ tried = Len(c.rest)
                             THEN "waiting" ELSE "match failed"]

parse_step(g, table, c) ==
    LET actions == table[Last(c.states)].action
        at == SelectInSeq(actions, LAMBDA a : fklIsStateActionMatch(a, c.rest).len >= 0)
        a == actions[at]
        m == fklIsStateActionMatch(a, c.rest)
    IN  CASE at = 0 -> no_action(c, actions)
          [] at > 0 /\ a.action = "ignore" -> [c EXCEPT !.rest = Drop(@, m.len)]
          [] at > 0 /\ a.action = "shift" -> Shift(c, a, m)
          [] at > 0 /\ a.action = "accept" -> [c EXCEPT !.status = "accept"]
          [] at > 0 /\ a.action = "reduce" ->
               do_reduce_action(g, table, c, a.to, fklComputeProdActualLen(g, a.to))

\* The parser runs until it accepts or fails, or for steps steps.
RECURSIVE fklParseWithTableForCharBuf2(_, _, _, _)
fklParseWithTableForCharBuf2(g, table, c, steps) ==
    IF c.status # "run" \/ steps = 0 THEN c
    ELSE fklParseWithTableForCharBuf2(g, table, parse_step(g, table, c), steps - 1)

-----------------------------------------------------------------------------
(* Reading a stream. *)

\* The first line of the text with its end.
fklGetDelim(text) ==
    LET ends == {k \in 1 .. Len(text) : text[k] = Blank}
    IN  IF ends = {} THEN text
        ELSE SubSeq(text, 1, CHOOSE k \in ends : \A m \in ends : k <= m)

\* c is what the parser made of the lines read so far, text the lines to come.
\* End of file is seen when a read has reached it.
RECURSIVE read_lines(_, _, _, _, _)
read_lines(g, table, c, text, eof) ==
    LET line == fklGetDelim(text)
        more == read_lines(g, table,
                    fklParseWithTableForCharBuf2(g, table,
                        [c EXCEPT !.rest = @ \o line, !.status = "run"], 4 * Len(text) + 20),
                    Drop(text, Len(line)),
                    line = <<>> \/ Last(line) # Blank)
    IN  CASE c.status = "accept" -> [c EXCEPT !.rest = @ \o text]
          [] c.status = "waiting" -> IF eof THEN [c EXCEPT !.status = "match failed"] ELSE more
          [] c.status = "match failed" -> IF c.rest # <<>> \/ eof THEN c ELSE more
          [] OTHER -> c

\* The reader starts on an empty buffer.
fklReadWithAnalysisTable(g, table, text) ==
    read_lines(g, table, fklParseWithTableForCharBuf2(g, table, Start(<<>>), 20), text, FALSE)
=============================================================================
