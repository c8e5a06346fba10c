------------------------------- MODULE JitLog -------------------------------
(***************************************************************************)
(* The reader of PyPy's JIT log (src/jitlog): _parse_jitlog takes one      *)
(* record after the other and hands each to its mark parser, which adds to *)
(* the forest: traces, their stages and operations, the links from guards  *)
(* to bridges, the counters, the source lines.  A parser that raises ends  *)
(* the reading, and the forest keeps what was read (forest.exc).           *)
(*                                                                         *)
(* The log is any sequence of records.  Ids, descrs and addresses are      *)
(* small sets, an operation is its name and its descr.  Arguments, results,*)
(* machine code, names of jit drivers, the time and the maps that are only *)
(* written (labels, jumps, redirect_descrs, stitch_points) are left out.   *)
(***************************************************************************)
EXTENDS Integers, Sequences, FiniteSets, SequencesExt

CONSTANTS
  Ids,       \* unique ids of traces
  Descrs,    \* numbers of descrs
  Marks,     \* the stages the log has: noopt, opt, asm
  Addrs,     \* where machine code starts
  Lines,     \* line numbers of merge points, all in one source file
  Wide,      \* the lines with characters of more than one byte
  FileLen,   \* how many lines the source file has
  Gap,       \* the 50 of iter_ranges
  MaxSize    \* bound: records in the log that leave something in the forest

ASSUME JitLogAssumption ==
  /\ Ids \cap Descrs = {} /\ "none" \notin Descrs
  /\ Marks \subseteq {"noopt", "opt", "asm"}
  /\ Lines \subseteq Nat \ {0} /\ Wide \subseteq Lines
  /\ {FileLen, Gap, MaxSize} \subseteq Nat

VARIABLES
  known,    \* forest.resops has the names of the operations
  traces,   \* forest.traces in the order of their start; last_trace is the last
  points,   \* forest.descr_nmr_to_point_in_trace
  addrs,    \* forest.addrs: the trace whose code starts at an address
  stitches, \* forest.stitches: the trace a descr leads to
  source,   \* forest.source_lines of the file, as line numbers
  exc,      \* forest.exc is set
  phase,    \* reading the log, or how many uploads followed
  tags,     \* source tags the uploads appended to the log
  wellFormed \* ghost: every record so far is one PyPy may write at its place
forest == <<known, traces, points, addrs, stitches, source>>
upload == <<phase, tags>>
vars   == <<forest, exc, upload, wellFormed>>

NoDescr == "none"
\* An operation by its name; a label stands for all that count nothing.
Ops == [name : {"label"}, descr : Descrs \cup {NoDescr}]
         \cup [name : {"increment_debug_counter"}, descr : {NoDescr}]
NoMark == "none"
NoInc == 0

Init ==
  /\ known = FALSE /\ traces = <<>> /\ exc = FALSE /\ wellFormed = TRUE
  /\ points = << >> /\ addrs = << >> /\ stitches = << >>
  /\ source = {} /\ phase = 0 /\ tags = <<>>

NewTrace(id, type) ==
  [id |-> id, type |-> type, mark |-> NoMark, stages |-> << >>, counter |-> 0,
   counts |-> << >>, links |-> <<>>, up |-> <<>>, lines |-> <<>>]
NewStage == [ops |-> <<>>, points |-> 0, types |-> "none"]

Put(f, x, y) == [z \in DOMAIN f \cup {x} |-> IF z = x THEN y ELSE f[z]]
AddTo(f, x, n) == Put(f, x, n + IF x \in DOMAIN f THEN f[x] ELSE 0)

Started == traces # <<>>
Current == Last(traces)
\* get_last_stage
HasStage == Started /\ Current.mark # NoMark
Stage    == Current.stages[Current.mark]
IndexOf(id) == CHOOSE i \in DOMAIN traces : traces[i].id = id
Known(id)   == \E i \in DOMAIN traces : traces[i].id = id

SetCurrent(t) == traces' = ReplaceAt(traces, Len(traces), t)
SetStage(s)   == SetCurrent([Current EXCEPT !.stages[Current.mark] = s])

\* What the records read so far left in the forest, for the bound.
TypesSize == [none |-> 0, init |-> 1, prefixed |-> 2]
Size ==
  LET OfStage(t, m) == IF m \notin DOMAIN t.stages THEN 0
        ELSE LET st == t.stages[m] IN 1 + Len(st.ops) + st.points + TypesSize[st.types]
      Of(t) == 1 + FoldSet(LAMBDA m, n : n + OfStage(t, m), 0, Marks)
                 + Len(t.links) + t.counter + SumFunction(t.counts)
  IN  FoldLeft(LAMBDA n, t : n + Of(t), 0, traces)
        + Cardinality(source) + Cardinality(DOMAIN addrs) + Cardinality(DOMAIN stitches)

-----------------------------------------------------------------------------
(* The loop of _parse_jitlog *)

\* One record, and whether PyPy may write it here.
Record(legal) ==
  /\ phase = 0 /\ ~exc /\ Size < MaxSize
  /\ wellFormed' = (wellFormed /\ legal)
  /\ UNCHANGED upload

Raise == exc' = TRUE /\ UNCHANGED forest

\* The parser raises unless ok holds; else it changes the forest.
Parse(ok, change) == IF ok THEN change /\ exc' = FALSE ELSE Raise

\* A marker outside the known range, or a record cut off by the end of the log.
Malformed == Record(FALSE) /\ Raise

ResopMeta ==
  /\ Record(~known)
  /\ Parse(~known,
           known' = TRUE /\ UNCHANGED <<traces, points, addrs, stitches, source>>)

StartTrace(id, type) ==
  /\ Record(~Known(id))
  /\ Parse(~Known(id),
           /\ traces' = Append(traces, NewTrace(id, type))
           /\ UNCHANGED <<known, points, addrs, stitches, source>>)

\* start_mark: TRACE twice in a row is an unrolled loop, and goes on with its stage.
StartMark(mark) ==
  IF mark = "noopt" /\ Current.mark = "noopt"
  THEN UNCHANGED traces
  ELSE SetCurrent([Current EXCEPT !.mark = mark,
         !.stages = IF mark \in DOMAIN @ THEN @ ELSE Put(@, mark, NewStage)])

\* read_trace, read_trace_opt, read_trace_asm
TraceMark(id, mark) ==
  LET ok == Started /\ id = Current.id IN
  /\ Record(ok)
  /\ Parse(ok, StartMark(mark)
               /\ UNCHANGED <<known, points, addrs, stitches, source>>)

-----------------------------------------------------------------------------
(* Operations *)

\* Mutant of Registered: the last one does.
RegisteredLast(op) ==
  IF Current.mark = "asm" /\ op.descr # NoDescr
  THEN Put(points, op.descr,
           [trace |-> Current.id, at |-> Len(Stage.ops) + 1, inc |-> NoInc])
  ELSE points

\* add_instr in the asm stage: the first operation with a descr keeps it.
Registered(op) ==
  IF Current.mark = "asm" /\ op.descr # NoDescr /\ op.descr \notin DOMAIN points
  THEN Put(points, op.descr,
           [trace |-> Current.id, at |-> Len(Stage.ops) + 1, inc |-> NoInc])
  ELSE points

\* A counter operation belongs to the point of the operation before it.
Counted(op, pts) ==
  LET before == Last(Stage.ops).descr IN
  IF op.name = "increment_debug_counter" /\ Stage.ops # <<>>
       /\ before \in DOMAIN pts /\ pts[before].inc = NoInc
  THEN [pts EXCEPT ![before].inc = Len(Stage.ops) + 1]
  ELSE pts

\* read_resop and read_resop_descr: one without a point to count raises at the end.
Resop(op) ==
  LET counts == op.name = "increment_debug_counter" /\ Stage.ops # <<>> IN
  /\ Record(known /\ HasStage /\ (counts => /\ Current.mark = "asm"
                                            /\ Last(Stage.ops).descr # NoDescr))
  /\ IF known /\ HasStage
     THEN LET reg == Registered(op) IN
          /\ SetStage([Stage EXCEPT !.ops = Append(@, op)])
          /\ points' = Counted(op, reg)
          /\ exc' = (counts /\ Last(Stage.ops).descr \notin DOMAIN reg)
          /\ UNCHANGED <<known, addrs, stitches, source>>
     ELSE Raise

\* read_asm: the dump belongs to the last operation, which has to exist.
AsmDump ==
  LET ok == HasStage /\ Stage.ops # <<>> IN
  Record(ok) /\ Parse(ok, UNCHANGED forest)

\* Mutant of AsmAddr: an address that has a trace is refused.
AsmAddrRefused(a) ==
  /\ Record(Started)
  /\ Parse(Started /\ a \notin DOMAIN addrs,
           /\ addrs' = Put(addrs, a, Current.id)
           /\ UNCHANGED <<known, traces, points, stitches, source>>)

\* read_asm_addr: a second trace at an address takes it over.
AsmAddr(a) ==
  /\ Record(Started)
  /\ Parse(Started, /\ addrs' = Put(addrs, a, Current.id)
                    /\ UNCHANGED <<known, traces, points, stitches, source>>)

\* read_init_merge_point
InitMergePoint ==
  /\ Record(HasStage)
  /\ Parse(HasStage, /\ SetStage([Stage EXCEPT !.types = "init"])
                     /\ UNCHANGED <<known, points, addrs, stitches, source>>)

\* read_common_prefix
CommonPrefix ==
  LET ok == HasStage /\ Stage.types # "none" IN
  /\ Record(ok)
  /\ Parse(ok, /\ SetStage([Stage EXCEPT !.types = "prefixed"])
               /\ UNCHANGED <<known, points, addrs, stitches, source>>)

\* read_merge_point: a compressed name needs the prefix of its stage.
MergePoint(line, compressed) ==
  LET ok == HasStage /\ Stage.types # "none" /\ (compressed => Stage.types = "prefixed") IN
  /\ Record(ok)
  /\ Parse(ok, /\ SetCurrent([Current EXCEPT
                     !.stages[Current.mark].points = @ + 1,
                     !.lines = Append(@, line)])
               /\ UNCHANGED <<known, points, addrs, stitches, source>>)

-----------------------------------------------------------------------------
(* Links between traces *)

\* Mutant of Link: the bridge is not told.
LinkDown(d, to) ==
  LET from == IndexOf(points[d].trace) IN
  traces' = [traces EXCEPT ![from].links = Append(@, [descr |-> d, trace |-> to])]

\* link and backward_link
Link(d, to) ==
  LET from == IndexOf(points[d].trace)
      down == [traces EXCEPT ![from].links = Append(@, [descr |-> d, trace |-> to])]
  IN  traces' = [down EXCEPT ![IndexOf(to)].up = Append(@,
                   [trace |-> points[d].trace, at |-> points[d].at])]

\* read_stitch_bridge
StitchBridge(d, a) ==
  /\ Record(a \in DOMAIN addrs)
  /\ Parse(a \in DOMAIN addrs,
           /\ stitches' = Put(stitches, d, addrs[a])
           /\ IF d \in DOMAIN points THEN Link(d, addrs[a]) ELSE UNCHANGED traces
           /\ UNCHANGED <<known, points, addrs, source>>)

\* read_redirect_assembler
RedirectAssembler(d, id) ==
  /\ Record(TRUE)
  /\ stitches' = Put(stitches, d, id)
  /\ IF Known(id) /\ d \in DOMAIN points THEN Link(d, id) ELSE UNCHANGED traces
  /\ UNCHANGED <<known, points, addrs, source>> /\ exc' = FALSE

\* get_parent: the trace of the first link up.
Parent(t) == t.up[1].trace
\* get_failing_guard: the operation of the first link up.
FailingGuard(t) == traces[IndexOf(t.up[1].trace)].stages["asm"].ops[t.up[1].at]

-----------------------------------------------------------------------------
(* Counters and source lines *)

\* read_jitlog_counter: the key is the id of a trace, or else a descr.
JitlogCounter(key, type) ==
  LET p == points[key]
      Bump(i, t) == [traces EXCEPT ![i] = t]
      enter(i) == Bump(i, [traces[i] EXCEPT !.counter = @ + 1])
      label(i) == Bump(i, [traces[i] EXCEPT !.counts = AddTo(@, p.inc, 1)])
  IN
  /\ Record(TRUE) /\ exc' = FALSE
  /\ traces' = IF Known(key) THEN enter(IndexOf(key))
               ELSE IF type = "e" \/ key \notin DOMAIN points THEN traces
               ELSE IF type = "b" THEN enter(IndexOf(p.trace))
               ELSE IF p.inc = NoInc THEN traces ELSE label(IndexOf(p.trace))
  /\ UNCHANGED <<known, points, addrs, stitches, source>>

\* read_abort_trace, and read_tmp_callback, whose map nobody reads.
Skipped == Record(TRUE) /\ exc' = FALSE /\ UNCHANGED forest

\* read_source_code; one line stands for all that a tag may hold.
FirstLine == CHOOSE l \in Lines : \A m \in Lines : l <= m
SourceCode(ls) ==
  /\ Record(TRUE) /\ exc' = FALSE
  /\ source' = source \cup ls
  /\ UNCHANGED <<known, traces, points, addrs, stitches>>

\* iter_ranges over the sorted numbers, as pairs of first and last.
Ranges(numbers) ==
  LET s == SortSeq(numbers, <)
      Step(acc, i) == IF i - acc.first > Gap
                      THEN [out |-> Append(acc.out, <<acc.first, acc.last>>),
                            first |-> i, last |-> i]
                      ELSE [acc EXCEPT !.last = i]
      end == FoldLeft(Step, [out |-> <<>>, first |-> s[1], last |-> s[1]], Tail(s))
  IN  IF s = <<>> THEN <<>> ELSE Append(end.out, <<end.first, end.last>>)

LinesOf(ranges) == UNION {r[1] .. r[2] : r \in ToSet(ranges)}

\* Mutant of Extracted: lines that the log has already are extracted once more.
ExtractedAgain(src) == UNION {LinesOf(Ranges(traces[i].lines)) : i \in DOMAIN traces}

\* extract_source_code_lines: nothing when the forest has source lines already.
Extracted(src) ==
  IF src # {} THEN {}
  ELSE UNION {LinesOf(Ranges(traces[i].lines)) : i \in DOMAIN traces}

\* encode_source_code_lines writes the length of a line in characters and then
\* its bytes, so that only the lines before the first wide one are read back.
InStep(tag) == tag \cap Wide = {}
ReadBack(tag) == IF InStep(tag) THEN tag
                 ELSE {l \in tag : \A w \in tag \cap Wide : l < w}

\* The log with its tags is read to the end, and uploaded; the tags of a log
\* that ends in an exception are never reached.
Upload ==
  /\ phase < 2
  /\ LET reached == IF exc THEN source ELSE source \cup UNION {ReadBack(t) : t \in ToSet(tags)}
         lines == Extracted(reached)
     IN  /\ lines \subseteq 1 .. FileLen    \* else IndexError, and no upload
         /\ tags' = IF lines = {} THEN tags ELSE Append(tags, lines)
  /\ phase' = phase + 1
  /\ UNCHANGED <<forest, exc, wellFormed>>

Next ==
  \/ Malformed \/ ResopMeta \/ AsmDump \/ InitMergePoint \/ CommonPrefix
  \/ Skipped \/ Upload
  \/ \E id \in Ids :
       \/ \E type \in {"loop", "bridge"} : StartTrace(id, type)
       \/ \E mark \in Marks : TraceMark(id, mark)
       \/ \E d \in Descrs : RedirectAssembler(d, id)
  \/ \E op \in Ops : Resop(op)
  \/ \E a \in Addrs : AsmAddr(a)
  \/ \E l \in Lines, c \in BOOLEAN : MergePoint(l, c)
  \/ \E d \in Descrs, a \in Addrs : StitchBridge(d, a)
  \/ \E key \in Ids \cup Descrs, type \in {"e", "b", "l"} : JitlogCounter(key, type)
  \/ SourceCode({FirstLine})

Symmetry == Permutations(Ids) \cup Permutations(Descrs)
Spec == Init /\ [][Next]_vars

-----------------------------------------------------------------------------
(* Properties *)

AsmOps(i) == IF "asm" \in DOMAIN traces[i].stages THEN traces[i].stages["asm"].ops ELSE <<>>

\* The operation at place j of the machine code of trace i has descr d.
Has(i, j, d) == j \in DOMAIN AsmOps(i) /\ AsmOps(i)[j].descr = d

\* Whatever the log, a descr names the first operation that had it in the
\* machine code, over all traces in the order they were recorded: a label is
\* not displaced by the jump to it (add_instr).
PointIsFirst ==
  \A d \in Descrs :
    /\ d \in DOMAIN points
         <=> \E i \in DOMAIN traces : \E j \in DOMAIN AsmOps(i) : Has(i, j, d)
    /\ d \in DOMAIN points =>
         LET i == IndexOf(points[d].trace) IN
         /\ Has(i, points[d].at, d)
         /\ \A k \in DOMAIN traces : \A j \in DOMAIN AsmOps(k) :
              Has(k, j, d) => k > i \/ (k = i /\ j >= points[d].at)

\* How many of the links or back links in s are of the trace id.
Count(s, id) == Cardinality({k \in DOMAIN s : s[k].trace = id})

\* Each link down from a trace has its link up in the trace it leads to, and
\* the guard a bridge is said to fail from is an operation of its parent with
\* the descr of a link that leads to the bridge (stitch_bridge, get_failing_guard).
LinksPaired ==
  /\ \A i, j \in DOMAIN traces :
       Count(traces[i].links, traces[j].id) = Count(traces[j].up, traces[i].id)
  /\ \A i \in DOMAIN traces : traces[i].up # <<>> =>
       \E l \in ToSet(traces[IndexOf(Parent(traces[i]))].links) :
         l.trace = traces[i].id /\ FailingGuard(traces[i]).descr = l.descr

\* The records PyPy writes are read without an exception, whatever traces,
\* operations and links came before (the parsers' assertions).
GoodLogsReadable == wellFormed => ~exc

\* Uploading a good log twice appends its source lines once ("If there is
\* already source code attached, we skip this step").
TaggedOnce == wellFormed => Len(tags) <= 1

=============================================================================
