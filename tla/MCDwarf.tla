------------------------------ MODULE MCDwarf -------------------------------
(***************************************************************************)
(* Programs for Dwarf: a compiler that encodes trees of functions and line *)
(* tables in the forms producers choose between, and what an address has   *)
(* to be resolved to, taken from the trees and the tables.                 *)
(***************************************************************************)
EXTENDS Dwarf

VARIABLE src  \* what the first module was compiled from

\* A function: its range, its calls that were inlined.  Its name and the
\* line it was called from are numbers that tell functions apart.
Fn(low, high, kids) == [low |-> low, high |-> high, kids |-> kids]
Name(depth, f) == 100 * depth + 10 * f.low + f.high
CallLine(depth, f) == 1000 + Name(depth, f)

Intervals(l, h) == {i \in (l..h) \X (l..h) : i[1] < i[2]}
Leaves(l, h) == {Fn(i[1], i[2], <<>>) : i \in Intervals(l, h)}
Chains(l, h) == {Fn(i[1], i[2], <<k>>) : i \in Intervals(l, h), k \in Leaves(l, h)}
Nested == {f \in Chains(0, 4) : f.low <= f.kids[1].low /\ f.kids[1].high <= f.high}
Forests ==
  {<<Fn(0, 4, <<>>)>>, <<Fn(0, 2, <<>>), Fn(2, 4, <<>>)>>, <<Fn(1, 3, <<>>)>>}
    \cup {<<Fn(0, 4, <<k>>)>> : k \in Leaves(0, 4) \cup Nested}
    \cup {<<Fn(0, 2, <<k>>), Fn(2, 4, <<l>>)>> : k \in Leaves(0, 2), l \in Leaves(2, 4)}
    \cup {<<Fn(0, 4, <<k, l, m>>)>> : k \in Leaves(0, 1), l \in Leaves(1, 3), m \in Leaves(3, 4)}

\* A line table: sequences of instructions as rows <<pc, line, file>>.
Repeats == << <<<<1, 7, 1>>, <<1, 8, 1>>, <<2, 8, 1>>, <<3, 7, 2>>>> >>
Tables == {Repeats,
  << <<<<0, 7, 1>>, <<2, 8, 1>>, <<3, 9, 2>>>> >>,
  << <<<<2, 7, 1>>, <<3, 8, 2>>>>, <<<<0, 5, 1>>, <<1, 6, 1>>>> >>,
  << <<<<0, 3, 2>>, <<2, 2, 1>>>>, <<<<3, 2, 1>>>> >> }

\* The forms a producer writes.
Styles == [codes : {<<1, 2, 3, 4>>, <<4, 3, 2, 1>>, <<2, 5, 7, 9>>},
           high : {"addr", "udata"}, unit : {"pcs", "ranges", "none"},
           name : {"name", "linkage", "origin", "specification"}, rows : {"special", "advance"}]
\* Bound: each form with the first of the others, and a few mixtures.
Plain == [codes |-> <<1, 2, 3, 4>>, high |-> "addr", unit |-> "pcs", name |-> "name", rows |-> "special"]
Used == {s \in Styles : Cardinality({k \in DOMAIN Plain : s[k] # Plain[k]}) <= 1}
          \cup {[codes |-> <<2, 5, 7, 9>>, high |-> "udata", unit |-> "none",
                 name |-> n, rows |-> "advance"] : n \in {"linkage", "origin"}}

NameAttr(s) == CASE s.name = "name" -> <<<<"name", "strp">>>>
                 [] s.name = "linkage" -> <<<<"linkage_name", "strp">>, <<"name", "string">>>>
                 [] s.name = "origin" -> <<<<"abstract_origin", "ref">>, <<"name", "string">>>>
                 [] s.name = "specification" -> <<<<"specification", "ref">>>>
Abbrevs(s) ==
  LET pcs == <<<<"low_pc", "addr">>, <<"high_pc", s.high>>>>
      A(i, tag, kids, attrs) == [code |-> s.codes[i], tag |-> tag, kids |-> kids, attrs |-> attrs]
  IN  <<A(1, "compile_unit", TRUE, <<<<"name", "string">>, <<"stmt_list", "sec_offset">>, <<"comp_dir", "strp">>>>
            \o CASE s.unit = "pcs" -> pcs
                 [] s.unit = "ranges" -> <<<<"low_pc", "addr">>, <<"ranges", "sec_offset">>>>
                 [] s.unit = "none" -> <<>>),
        A(2, "subprogram", TRUE, NameAttr(s) \o pcs),
        A(3, "inlined_subroutine", TRUE, NameAttr(s) \o (IF s.unit = "ranges" THEN <<<<"ranges", "sec_offset">>>> ELSE pcs)
                                                  \o <<<<"call_file", "data">>, <<"call_line", "data">>>>),
        A(4, "subprogram", FALSE, <<<<"name", "string">>, <<"sibling", "ref">>>>)>>

\* Where the declaration with that name stands, when there are any: the
\* first entries below the compile unit.
Names(fns) == LET RECURSIVE Of(_, _)
                  Of(d, fs) == FlattenSeq([i \in DOMAIN fs |-> <<Name(d, fs[i])>> \o Of(d + 1, fs[i].kids)])
              IN  Of(1, fns)
NameVal(s, names, n) ==
  LET at == 1 + SelectInSeq(names, LAMBDA x : x = n)
  IN  CASE s.name = "name" -> <<n>> [] s.name = "linkage" -> <<n, 1>>
        [] s.name = "origin" -> <<at, 1>> [] s.name = "specification" -> <<at>>

Dies(s, u, off, low, high, fns) ==
  LET names == Names(fns)
      HighVal(l, h) == IF s.high = "udata" THEN h - l ELSE h
      RECURSIVE Of(_, _)
      Of(d, fs) == FlattenSeq([i \in DOMAIN fs |->
        LET f == fs[i]
        IN  <<<<s.codes[IF d = 1 THEN 2 ELSE 3],
                NameVal(s, names, Name(d, f))
                  \o (IF d > 1 /\ s.unit = "ranges" THEN <<<<<<f.low, f.low + 1>>, <<f.low + 1, f.high>>>>>>
                      ELSE <<f.low, HighVal(f.low, f.high)>>)
                  \o IF d = 1 THEN <<>> ELSE <<2, CallLine(d, f)>> >>>>
              \o Of(d + 1, f.kids) \o <<<<0, <<>>>>>>])
  IN  <<<<s.codes[1], <<u, off, 9>>
            \o CASE s.unit = "pcs" -> <<low, HighVal(low, high)>>
                 [] s.unit = "ranges" -> <<0, <<<<low, low + 1>>, <<Highest, low + 1>>, <<0, high - low - 1>>>>>>
                 [] s.unit = "none" -> <<>> >>>>
        \o [i \in DOMAIN names |-> <<s.codes[4], <<names[i], 0>>>>]
        \o Of(1, fns) \o <<<<0, <<>>>>>>

Ops(s, table) ==
  LET Row(prev, r) ==
        (IF r[3] = prev[3] THEN <<>> ELSE <<<<"set_file", r[3]>>>>)
          \o IF s.rows = "special" THEN <<<<"special", r[1] - prev[1], r[2] - prev[2]>>>>
             ELSE <<<<"advance_pc", r[1] - prev[1]>>, <<"advance_line", r[2] - prev[2]>>, <<"copy">>>>
      Seq1(q) == <<<<"set_address", q[1][1]>>>>
                   \o FlattenSeq([i \in DOMAIN q |-> Row(IF i = 1 THEN <<q[1][1], 1, 1>> ELSE q[i - 1], q[i])])
                   \o <<<<"end_sequence">>>>
  IN  FlattenSeq([i \in DOMAIN table |-> Seq1(table[i])])
Program(ops) ==
  [version |-> 2, dirs |-> <<8>>, min_insn_len |-> 1, max_ops |-> 1, const_advance |-> 2, ops |-> ops,
   files |-> <<[name |-> 1, dir |-> 0, abs |-> FALSE], [name |-> 2, dir |-> 1, abs |-> FALSE]>>]
Files == <<[dir |-> 9, name |-> 1], [dir |-> 8, name |-> 2]>>

\* A module: the unit with the functions, a unit behind it, and maybe a
\* third over the addresses of the first whose lines cannot be read.
Source(s, fns, table, kind) == [style |-> s, fns |-> fns, table |-> table, kind |-> kind]
Sources == {Source(s, f, Repeats, "fine") : s \in Used, f \in Forests}
             \cup {Source(Plain, f, t, k) : f \in Forests, t \in Tables, k \in {"fine", "useless"}}
             \cup {Source(Plain, f, Repeats, "version") : f \in Forests}
Second == <<Fn(4, 6, <<>>)>>
Compiled(c) ==
  [base |-> 100,
   units |-> <<[version |-> 4, abbrevs |-> Abbrevs(c.style), dies |-> Dies(c.style, 1, 0, 0, 4, c.fns)],
               [version |-> IF c.kind = "version" THEN 5 ELSE 3, abbrevs |-> Abbrevs(Plain),
                dies |-> Dies(Plain, 2, 1, 4, 6, Second)]>>
             \o IF c.kind = "useless"
                THEN <<[version |-> 4, abbrevs |-> Abbrevs(Plain), dies |-> Dies(Plain, 3, 2, 0, 4, <<>>)]>>
                ELSE <<>>,
   lines |-> <<Program(Ops(c.style, c.table)), Program(Ops(Plain, <<<<<<4, 3, 1>>>>>>)),
               Program(<<<<"set_file", 3>>, <<"copy">>>>)>>]
Other == [base |-> 200, lines |-> <<Program(Ops(Plain, <<<<<<0, 4, 1>>>>>>))>>,
          units |-> <<[version |-> 2, abbrevs |-> Abbrevs(Plain),
                       dies |-> Dies(Plain, 1, 0, 0, 4, <<Fn(0, 4, <<>>)>>)]>>]

MCInit == src \in Sources /\ Loading(<<Compiled(src), Other>>)
MCSpec == MCInit /\ [][Next /\ UNCHANGED src]_<<vars, src>>
-----------------------------------------------------------------------------
(* What an address of the first unit is, by the functions and the table.   *)

\* The row for pc: the one with the highest address not above it, and the
\* last of these the program makes.
RowsOf(table, pc) ==
  LET rows == FlattenSeq(table)
      upTo == {i \in DOMAIN rows : rows[i][1] <= pc}
  IN  {rows[i] : i \in {i \in upTo : \A j \in upTo : rows[j][1] < rows[i][1] \/ (rows[j][1] = rows[i][1] /\ j <= i)}}

\* The functions around pc, outermost first.
Around(fns, pc) ==
  LET RECURSIVE Of(_)
      Of(fs) == LET i == SelectInSeq(fs, LAMBDA f : InRange(f, pc))
                IN  IF i = 0 THEN <<>> ELSE <<fs[i]>> \o Of(fs[i].kids)
  IN  Of(fns)

Nothing == Frame(None, 0, None)
Expected(pc) ==
  LET in == Around(src.fns, pc)
      n  == Len(in)
      FrameOf(row, d) == IF d = n THEN Frame(Files[row[3]], row[2], Name(d, in[d]))
                         ELSE Frame(Files[2], CallLine(d + 1, in[d + 1]), Name(d, in[d]))
  IN  IF src.style.unit = "none" /\ n = 0 THEN {<<Nothing>>}
      ELSE IF RowsOf(src.table, pc) = {} THEN {<<Frame(Files[1], 0, None)>>}
      ELSE {IF n = 0 THEN <<Frame(Files[row[3]], row[2], None)>>
            ELSE [i \in 1..n |-> FrameOf(row, n + 1 - i)] : row \in RowsOf(src.table, pc)}

OfFirstUnit(pc) == src.kind # "version" /\ pc \in 100..103

\* An address gets the functions around it, innermost first: the first with
\* the file and line of its row, each other with where it called the one
\* before, whatever forms the entries take and whatever was looked up before.
\* It is found if functions cover it, unless the unit it was first looked for in
\* had to be found useless.  (dwarf.c:1247-1396, 2585-2632, 2639-2855)
FramesOfTree ==
  answer # None /\ OfFirstUnit(answer.pc) /\ (answer.frames # <<Nothing>> \/ src.kind = "fine")
    => answer.frames \in Expected(answer.pc - 100)
=============================================================================
