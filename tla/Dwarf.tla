------------------------------- MODULE Dwarf --------------------------------
(***************************************************************************)
(* How an address of native code gets its function, file and line: dwarf.c *)
(* of libbacktrace, and vmp_resolve_addr of symboltable.c on top of it.    *)
(* DwarfAdd reads the address ranges of the compilation units of a module; *)
(* the line table and the functions of a unit are read when an address in  *)
(* it is first looked up, and kept.                                        *)
(*                                                                         *)
(* Sections are given as what they encode: .debug_info as a sequence of    *)
(* entries <<code, values>> with code 0 where a list of children ends, an  *)
(* abbreviation as [code, tag, kids, attrs] with pairs <<name, form>>, a   *)
(* line program as a sequence of its operations.  Bad stands for an offset *)
(* outside the section or bytes that cannot be read.  Strings are numbers. *)
(* The calls are made under the interpreter's lock, one after the other.   *)
(***************************************************************************)
EXTENDS SortSearch

CONSTANTS
  PCs,      \* addresses that are looked up
  None,     \* NULL
  Bad       \* an offset out of its section, or bytes that make no sense

VARIABLES
  waiting, \* modules dl_iterate_phdr has still to add
  modules, \* state->fileline_data: [base, addrs, units, lines]
  read,    \* what was read of the unit u of module m: None at first
  answer   \* the last address resolved and what came of it
vars == <<waiting, modules, read, answer>>

Highest == 9999   \* the highest address, as a marker and a sentinel
NoFile  == [dir |-> None, name |-> 0]   \* the empty string
Dash    == [dir |-> None, name |-> -1]  \* "-"
DlName  == "dli_sname"                  \* what dladdr says of an address
DlFile  == [dir |-> None, name |-> -2]  \* its dli_fname
-----------------------------------------------------------------------------
(* Abbreviations and attributes.                                           *)

ReadAbbrevs(table) == SortBy(LAMBDA a : <<a.code>>, table)

LookupAbbrev(abbrevs, code) ==
  IF code <= Len(abbrevs) /\ abbrevs[code].code = code THEN abbrevs[code]
  ELSE LET i == BSearch([k \in DOMAIN abbrevs |-> IF code < abbrevs[k].code THEN -1
                            ELSE IF code > abbrevs[k].code THEN 1 ELSE 0])
       IN  IF i = 0 THEN None ELSE abbrevs[i]

Encoding(form) ==
  CASE form = "addr" -> "address"
    [] form \in {"data", "udata", "flag"} -> "uint"
    [] form = "sdata" -> "sint"
    [] form \in {"string", "strp"} -> "string"
    [] form = "ref_addr" -> "ref_info"
    [] form = "ref" -> "ref_unit"
    [] form = "sec_offset" -> "ref_section"
    [] form = "ref_sig8" -> "ref_type"
    [] form \in {"block", "exprloc"} -> "block"

\* An indirect form has the form and the value in the entry.
ReadAttribute(name, form, value) ==
  IF form = "indirect" THEN [at |-> name, form |-> form, enc |-> Encoding(value[1]), val |-> value[2]]
  ELSE [at |-> name, form |-> form, enc |-> Encoding(form), val |-> value]

\* The attributes of an entry, None when its code or one of them is bad.
Attributes(u, entry) ==
  LET ab == LookupAbbrev(u.abbrevs, entry[1])
  IN  IF ab = None \/ (ab # None /\ \E i \in DOMAIN ab.attrs : entry[2][i] = Bad) THEN None
      ELSE [i \in DOMAIN ab.attrs |-> ReadAttribute(ab.attrs[i][1], ab.attrs[i][2], entry[2][i])]

\* The last attribute of that name in one of the encodings the code takes.
Attr(as, name, encs) ==
  LET i == SelectLastInSeq(as, LAMBDA a : a.at = name /\ a.enc \in encs)
  IN  IF i = 0 THEN None ELSE as[i].val

LowPc(as) == Attr(as, "low_pc", {"address"})
\* Mutant of HighPc: an unsigned high_pc is an address.
HighPcAddress(as) == Attr(as, "high_pc", {"address", "uint"})

\* An unsigned high_pc is relative to low_pc.
HighPc(as) ==
  LET i == SelectLastInSeq(as, LAMBDA a : a.at = "high_pc" /\ a.enc \in {"address", "uint"})
  IN  IF i = 0 THEN None ELSE as[i].val + IF as[i].enc = "uint" THEN LowPc(as) ELSE 0
HasPcs(as)  == LowPc(as) # None /\ \E i \in DOMAIN as : as[i].at = "high_pc" /\ as[i].enc \in {"address", "uint"}
RangesAt(as) == Attr(as, "ranges", {"uint", "ref_section"})
OrZero(v)   == IF v = None THEN 0 ELSE v
-----------------------------------------------------------------------------
(* Address ranges of units and of functions.                               *)

\* A range that starts where the last one of the same owner ends extends it.
Merged(vec, low, high, who) ==
  IF vec # <<>> /\ low \in {Last(vec).high, Last(vec).high + 1} /\ Last(vec).who = who
  THEN [vec EXCEPT ![Len(vec)].high = IF high > @ THEN high ELSE @]
  ELSE Append(vec, [low |-> low, high |-> high, who |-> who])

AddUnitAddr(vec, base, low, high, u) == Merged(vec, low + base, high + base, u)
AddFunctionRange(vec, base, low, high, f) == Merged(vec, low + base, high + base, f)

\* Mutant of AddUnitRanges: the marker for a new base is a range.
AddUnitRangesPlain(vec, base, ranges, lowpc, u) ==
  Fold(LAMBDA v, r : AddUnitAddr(v, base, r[1] + lowpc, r[2] + lowpc, u), vec, ranges)

\* .debug_ranges: pairs, relative to a base that a marker changes.
AddUnitRanges(vec, base, ranges, lowpc, u) ==
  Fold(LAMBDA s, r : IF r[1] = Highest THEN [s EXCEPT !.base = r[2]]
                         ELSE [s EXCEPT !.vec = AddUnitAddr(@, base, r[1] + s.base, r[2] + s.base, u)],
           [vec |-> vec, base |-> lowpc], ranges).vec
AddFunctionRanges(vec, base, ranges, lowpc, f) ==
  Fold(LAMBDA s, r : IF r[1] = Highest THEN [s EXCEPT !.base = r[2]]
                         ELSE [s EXCEPT !.vec = AddFunctionRange(@, base, r[1] + s.base, r[2] + s.base, f)],
           [vec |-> vec, base |-> lowpc], ranges).vec

\* The ranges of unit u from the entry at pos on, to the end of the list of
\* children; a compile unit with ranges of its own needs no other entry.
RECURSIVE FindAddressRanges(_, _, _)
FindAddressRanges(u, pos, vec) ==
  IF pos > Len(u.dies) THEN [ok |-> TRUE, pos |-> pos, vec |-> vec]
  ELSE IF u.dies[pos][1] = 0 THEN [ok |-> TRUE, pos |-> pos + 1, vec |-> vec]
  ELSE
  LET ab == LookupAbbrev(u.abbrevs, u.dies[pos][1])
      owns == ab.tag \in {"compile_unit", "subprogram"}
      Found(as) == CASE owns /\ RangesAt(as) # None ->
                          AddUnitRanges(vec, u.base, RangesAt(as), OrZero(LowPc(as)), u.id)
                     [] owns /\ RangesAt(as) = None /\ HasPcs(as) ->
                          AddUnitAddr(vec, u.base, LowPc(as), HighPc(as), u.id)
                     [] OTHER -> vec
      Rest(as, found) ==
        IF ab.tag = "compile_unit" /\ (RangesAt(as) # None \/ HasPcs(as))
        THEN [ok |-> TRUE, pos |-> pos + 1, vec |-> found]
        ELSE IF ~ab.kids THEN FindAddressRanges(u, pos + 1, found)
        ELSE Once(FindAddressRanges(u, pos + 1, found),
                  LAMBDA b : IF b.ok THEN FindAddressRanges(u, b.pos, b.vec) ELSE b)
  IN  Once(Attributes(u, u.dies[pos]),
           LAMBDA as : IF as = None THEN [ok |-> FALSE, pos |-> pos, vec |-> vec]
                       ELSE Once(Found(as), LAMBDA found : Rest(as, found)))

\* What the compile unit says of itself (its entry is the first).
UnitOf(id, base, raw) ==
  LET u  == [id |-> id, base |-> base, dies |-> raw.dies, abbrevs |-> ReadAbbrevs(raw.abbrevs)]
      as == Attributes(u, u.dies[1])
      Of(name, encs, else) == IF as = None \/ (as # None /\ Attr(as, name, encs) = None) THEN else
                              ELSE Attr(as, name, encs)
  IN  u @@ [lineoff  |-> Of("stmt_list", {"uint", "ref_section"}, 0),
            filename |-> Of("name", {"string"}, None),
            comp_dir |-> Of("comp_dir", {"string"}, None)]

\* Every unit of .debug_info in turn; one that cannot be read spoils all.
BuildAddressMap(base, raw) ==
  Fold(LAMBDA s, id :
             IF ~s.ok \/ raw.units[id].version \notin 2..4 \/ raw.units[id].abbrevs = Bad
             THEN [s EXCEPT !.ok = FALSE]
             ELSE Once(UnitOf(id, base, raw.units[id]), LAMBDA u :
                       Once(FindAddressRanges(u, 1, s.vec), LAMBDA r :
                            [ok |-> r.ok, vec |-> r.vec, units |-> Append(s.units, u)])),
           [ok |-> TRUE, vec |-> <<>>, units |-> <<>>], [id \in DOMAIN raw.units |-> id])

\* Sorted by low, the larger first, then by the offset of the lines.
BuildDwarfData(base, raw) ==
  Once(BuildAddressMap(base, raw), LAMBDA map :
       IF ~map.ok THEN None
       ELSE [base |-> base, units |-> map.units, lines |-> raw.lines,
             addrs |-> SortBy(LAMBDA a : <<a.low, - a.high, map.units[a.who].lineoff>>, map.vec)])

DwarfAdd ==
  /\ waiting # <<>>
  /\ waiting' = Tail(waiting)
  /\ \E data \in {BuildDwarfData(Head(waiting).base, Head(waiting))} :
         IF data = None THEN UNCHANGED <<modules, read>>
         ELSE /\ modules' = Append(modules, data)
              /\ read' = Append(read, [u \in DOMAIN data.units |-> None])
  /\ UNCHANGED answer
-----------------------------------------------------------------------------
(* The line table of a unit.                                               *)

\* A file of the header or of define_file, in its directory.
FileName(u, dirs, f) ==
  IF f.abs \/ (f.dir = 0 /\ u.comp_dir = None) THEN [dir |-> None, name |-> f.name]
  ELSE IF f.dir = 0 THEN [dir |-> u.comp_dir, name |-> f.name]
  ELSE IF f.dir <= Len(dirs) THEN [dir |-> dirs[f.dir], name |-> f.name]
  ELSE Bad

ReadLineHeader(u, prog) ==
  LET files == [i \in DOMAIN prog.files |-> FileName(u, prog.dirs, prog.files[i])]
  IN  IF prog.version \notin 2..4 \/ Bad \in Range(files) THEN Bad ELSE files

AddLine(rows, base, pc, file, line) ==
  IF rows # <<>> /\ Last(rows).pc = pc /\ Last(rows).file = file /\ Last(rows).line = line
  THEN rows
  ELSE Append(rows, [pc |-> pc + base, file |-> file, line |-> line, idx |-> Len(rows)])

\* The registers at the start of a sequence of instructions.
Registers(files) ==
  [address |-> 0, op |-> 0, line |-> 1, file |-> IF files = <<>> THEN NoFile ELSE files[1]]

Advanced(prog, s, n) ==
  [s EXCEPT !.address = @ + (prog.min_insn_len * (s.op + n)) \div prog.max_ops,
            !.op = (@ + n) % prog.max_ops]

\* One operation of the program; rows is Bad once it could not be read.
LineStep(u, base, prog, files, s, op) ==
  LET Row(t) == [t EXCEPT !.rows = AddLine(@, base, t.address, t.file, t.line)]
      Fail == [s EXCEPT !.rows = Bad]
  IN  CASE s.rows = Bad -> s
        [] op[1] = "special" ->  \* advance the pc, then the line, then a row
             LET a == Advanced(prog, s, op[2]) IN Row([a EXCEPT !.line = @ + op[3]])
        [] op[1] = "end_sequence" -> [rows |-> s.rows] @@ Registers(files)
        [] op[1] = "set_address"  -> [s EXCEPT !.address = op[2]]
        [] op[1] = "define_file"  ->
             LET f == FileName(u, prog.dirs, op[2]) IN IF f = Bad THEN Fail ELSE [s EXCEPT !.file = f]
        [] op[1] = "copy"         -> Row(s)
        [] op[1] = "advance_pc"   -> Advanced(prog, s, op[2])
        [] op[1] = "const_add_pc" -> Advanced(prog, s, prog.const_advance)
        [] op[1] = "fixed_advance_pc" -> [s EXCEPT !.address = @ + op[2], !.op = 0]
        [] op[1] = "advance_line" -> [s EXCEPT !.line = @ + op[2]]
        [] op[1] = "set_file" ->
             IF op[2] = 0 THEN [s EXCEPT !.file = NoFile]
             ELSE IF op[2] <= Len(files) THEN [s EXCEPT !.file = files[op[2]]] ELSE Fail
        [] OTHER -> s   \* columns, discriminators, isa and unknown operations

ReadLineProgram(u, base, prog, files) ==
  Fold(LAMBDA s, op : LineStep(u, base, prog, files, s, op),
           [rows |-> <<>>] @@ Registers(files), prog.ops).rows

\* Bad when nothing useful could be read: lines is -1 then.
ReadLineInfo(m, u) ==
  IF u.lineoff \notin 0..(Len(m.lines) - 1) THEN Bad
  ELSE LET prog  == m.lines[u.lineoff + 1]
           files == ReadLineHeader(u, prog)
           rows  == IF files = Bad THEN Bad ELSE ReadLineProgram(u, m.base, prog, files)
       IN  IF rows \in {Bad, <<>>} THEN Bad
           ELSE [files |-> files, rows |-> SortBy(LAMBDA r : <<r.pc, r.idx>>, rows)]

\* The row whose pc is at or below pc and the next row's is not.
LineSearch(rows, pc) ==
  LET Next1(i) == IF i = Len(rows) THEN Highest ELSE rows[i + 1].pc
  IN  BSearch([i \in DOMAIN rows |-> IF pc < rows[i].pc THEN -1 ELSE IF pc >= Next1(i) THEN 1 ELSE 0])
-----------------------------------------------------------------------------
(* The functions of a unit, with what is inlined in each.                  *)

LinkageNames == {"linkage_name", "MIPS_linkage_name"}
Refers(a) == a.form \notin {"ref_addr", "ref_sig8"} /\ a.enc \in {"uint", "ref_unit"}

\* The name of the entry an origin or a specification refers to.
RECURSIVE ReadReferencedName(_, _)
ReadReferencedName(u, at) ==
  IF at \notin DOMAIN u.dies \/ (at \in DOMAIN u.dies /\ u.dies[at][1] = 0) THEN None
  ELSE
  LET as == Attributes(u, u.dies[at])
      link == SelectInSeq(as, LAMBDA a : a.at \in LinkageNames /\ a.enc = "string")
      Name(n, a) == CASE a.at = "name" /\ a.enc = "string" -> a.val
                      [] a.at = "specification" /\ Refers(a) ->
                           LET r == ReadReferencedName(u, a.val) IN IF r = None THEN n ELSE r
                      [] OTHER -> n
  IN  IF as = None THEN None ELSE IF link # 0 THEN as[link].val ELSE Fold(Name, None, as)

\* A linkage name before a name of a referenced entry before a name.
FunctionName(u, as) ==
  LET Name(n, a) ==
        CASE a.at \in {"abstract_origin", "specification"} /\ Refers(a) ->
               LET r == ReadReferencedName(u, a.val) IN IF r = None THEN n ELSE r
          [] a.at = "name" /\ a.enc = "string" -> IF n = None THEN a.val ELSE n
          [] a.at \in LinkageNames /\ a.enc = "string" -> a.val
          [] OTHER -> n
  IN  Fold(Name, None, as)

CallFile(files, as) ==
  LET k == Attr(as, "call_file", {"uint"})
  IN  IF k = None THEN None ELSE IF k = 0 THEN NoFile ELSE IF k <= Len(files) THEN files[k] ELSE Bad

FunctionTags == {"subprogram", "entry_point", "inlined_subroutine"}

\* Sorted by low, the larger first, then by name.
SortFunctions(vec, funs) == SortBy(LAMBDA r : <<r.low, - r.high, funs[r.who].name>>, vec)

\* The entries from s.pos to the end of their list and all below: s.fv are
\* the ranges of functions, s.iv of what is inlined in the function above,
\* s.funs the functions by position.  Outside functions both are one vector.
RECURSIVE ReadFunctionEntry(_, _, _, _, _)
ReadFunctionEntry(u, files, one, lowpc, s) ==
  IF s.pos > Len(u.dies) THEN s
  ELSE IF u.dies[s.pos][1] = 0 THEN [s EXCEPT !.pos = @ + 1]
  ELSE
  LET ab == LookupAbbrev(u.abbrevs, u.dies[s.pos][1])
      Start(as) == IF ab.tag = "compile_unit" /\ LowPc(as) # None THEN LowPc(as) ELSE lowpc
      IsFunction(as) == ab.tag \in FunctionTags /\ FunctionName(u, as) # None
                          /\ (RangesAt(as) # None \/ HasPcs(as))
      Function(as) == [name |-> FunctionName(u, as), file |-> CallFile(files, as),
                       line |-> OrZero(Attr(as, "call_line", {"uint"})), inlined |-> <<>>]
      Ranges(as, vec) == IF RangesAt(as) # None
                         THEN AddFunctionRanges(vec, u.base, RangesAt(as), Start(as), s.pos)
                         ELSE AddFunctionRange(vec, u.base, LowPc(as), HighPc(as), s.pos)
      Itself(as) == IF ~IsFunction(as) THEN [s EXCEPT !.pos = @ + 1]
                    ELSE LET t == [s EXCEPT !.pos = @ + 1, !.funs = (s.pos :> Function(as)) @@ @]
                         IN  IF ab.tag = "inlined_subroutine" /\ ~one
                             THEN [t EXCEPT !.iv = Ranges(as, @)] ELSE [t EXCEPT !.fv = Ranges(as, @)]
      Below(as, t) == IF ~ab.kids THEN t
                      ELSE IF ~IsFunction(as) THEN ReadFunctionEntry(u, files, one, Start(as), t)
                      ELSE Once(ReadFunctionEntry(u, files, FALSE, Start(as), [t EXCEPT !.iv = <<>>]), LAMBDA b :
                                IF ~b.ok THEN b
                                ELSE [b EXCEPT !.iv = t.iv, !.funs[s.pos].inlined = SortFunctions(b.iv, b.funs)])
      Rest(as, after) == IF after.ok THEN ReadFunctionEntry(u, files, one, Start(as), after) ELSE after
  IN  Once(Attributes(u, u.dies[s.pos]), LAMBDA as :
           IF as = None \/ (as # None /\ ab.tag \in FunctionTags /\ CallFile(files, as) = Bad)
           THEN [s EXCEPT !.ok = FALSE]
           ELSE Once(Itself(as), LAMBDA t : Once(Below(as, t), LAMBDA after : Rest(as, after))))

\* All of the unit; nothing when some entry of it cannot be read.
RECURSIVE ReadFunctionInfo(_, _, _)
ReadFunctionInfo(u, files, s) ==
  IF s.ok /\ s.pos <= Len(u.dies)
  THEN Once(ReadFunctionEntry(u, files, TRUE, 0, s), LAMBDA t : ReadFunctionInfo(u, files, t))
  ELSE IF ~s.ok THEN [addrs |-> <<>>, funs |-> << >>]
  ELSE [addrs |-> SortFunctions(s.fv, s.funs), funs |-> s.funs]

NoFunctions == [ok |-> TRUE, pos |-> 1, fv |-> <<>>, iv |-> <<>>, funs |-> << >>]
-----------------------------------------------------------------------------
(* Looking an address up.  A frame is what the callback is called with.    *)

Frame(file, line, name) == [file |-> file, line |-> line, name |-> name]

\* The calls inlined at pc in f, innermost first, and from where f's caller
\* has to be told that control left f.
RECURSIVE ReportInlined(_, _, _, _, _)
ReportInlined(funs, f, pc, file, line) ==
  LET i == FindRange(funs[f].inlined, pc)
      g == funs[f].inlined[i].who
  IN  IF i = 0 THEN [frames |-> <<>>, file |-> file, line |-> line]
      ELSE Once(ReportInlined(funs, g, pc, file, line), LAMBDA r :
                [frames |-> Append(r.frames, Frame(r.file, r.line, funs[g].name)),
                 file |-> funs[g].file, line |-> funs[g].line])

\* The last of the ranges with pc, then back over units known to be useless.
UsefulUnit(d, pc, units) ==
  LET last == FindRange(d.addrs, pc)
      Stop(i) == i = 1 \/ ~InRange(d.addrs[i - 1], pc) \/ units[d.addrs[i].who] # Bad
  IN  IF last = 0 THEN 0 ELSE d.addrs[Max({i \in 1..last : Stop(i)})].who

\* What is known of the unit once it was looked at.
ReadUnit(d, u) ==
  Once(ReadLineInfo(d, d.units[u]), LAMBDA info :
       IF info = Bad THEN Bad
       ELSE [rows |-> info.rows] @@ ReadFunctionInfo(d.units[u], info.files, NoFunctions))

AbsFilename(u) ==
  IF u.filename = None THEN None ELSE [dir |-> u.comp_dir, name |-> u.filename]

\* The frames of pc in unit u, given what was read of it.
FramesIn(u, known, pc) ==
  IF known = Bad THEN <<Frame(None, 0, None)>>
  ELSE
  LET r == LineSearch(known.rows, pc)
      f == FindRange(known.addrs, pc)
  IN  IF r = 0 THEN <<Frame(AbsFilename(u), 0, None)>>
      ELSE IF f = 0 THEN <<Frame(known.rows[r].file, known.rows[r].line, None)>>
      ELSE LET g == known.addrs[f].who
               i == ReportInlined(known.funs, g, pc, known.rows[r].file, known.rows[r].line)
           IN  Append(i.frames, Frame(i.file, i.line, known.funs[g].name))

\* dwarf_lookup_pc in module m: the unit, what is known of it, the frames.
LookupPc(m, pc) ==
  LET Known(u) == IF read[m][u] = None THEN ReadUnit(modules[m], u) ELSE read[m][u]
  IN  Once(UsefulUnit(modules[m], pc, read[m]), LAMBDA u :
           IF u = 0 THEN [unit |-> 0]
           ELSE Once(Known(u), LAMBDA known : [unit |-> u, known |-> known,
                                  frames |-> FramesIn(modules[m].units[u], known, pc)]))

\* dwarf_fileline: the first module that has a unit with the address.
DwarfFileline(pc) ==
  LET m == SelectInSeq(modules, LAMBDA d : FindRange(d.addrs, pc) # 0)
  IN  IF m = 0 THEN [module |-> 0, frames |-> <<Frame(None, 0, None)>>]
      ELSE [module |-> m] @@ LookupPc(m, pc)

\* backtrace_full_cb over the frames, from the strings that resolve_addr passes;
\* then what dladdr can still give, which may be nothing.
FullCb(r, frame) ==
  [name |-> IF frame.name # None THEN frame.name ELSE r.name,
   file |-> IF frame.file # None THEN frame.file ELSE r.file,
   line |-> frame.line]
Unknown == [name |-> None, file |-> Dash, line |-> 0]
Resolved(frames) ==
  LET r == Fold(FullCb, Unknown, frames)
  IN  {[r EXCEPT !.name = n, !.file = f] :
         n \in IF r.name = None   THEN {None, DlName}   ELSE {r.name},
         f \in IF r.file = NoFile THEN {NoFile, DlFile} ELSE {r.file}}

ResolveAddr(pc) ==
  /\ waiting = <<>>
  /\ \E l \in {DwarfFileline(pc)} :
         /\ \E result \in Resolved(l.frames) :
              answer' = [pc |-> pc, frames |-> l.frames, result |-> result]
         /\ read' = IF l.module = 0 THEN read ELSE [read EXCEPT ![l.module][l.unit] = l.known]
  /\ UNCHANGED <<waiting, modules>>

\* The modules of the program, in the order they are found.
Loading(infos) ==
  /\ waiting = infos
  /\ modules = <<>> /\ read = <<>> /\ answer = None

Next == DwarfAdd \/ \E pc \in PCs : ResolveAddr(pc)
=============================================================================
