----------------------------- MODULE StackWalk -----------------------------
(***************************************************************************)
(* One sample, from the walk of the native and the Python stack into a     *)
(* buffer (src/src/vmp_stack.c, _vmprof_sample_stack in vmprof_unix.c) to  *)
(* the record that vmprof/reader.py reads back.                            *)
(*                                                                         *)
(* The buffer is a sequence of machine words; a word is what it stands for *)
(* (a line number, a code object, a native address, the 0 that stands in   *)
(* for the line of a native frame) and the frame it belongs to.            *)
(***************************************************************************)
EXTENDS Integers, Sequences, FiniteSets, SequencesExt

CONSTANTS
  BufWords,   \* MAX_STACK_DEPTH: the words of a buffer after depth
  MaxFrames   \* bound: frames of the native and of the Python stack

ASSUME StackAssumption == /\ BufWords \in Nat /\ BufWords >= 2
                          /\ MaxFrames \in Nat

VARIABLES
  lines,      \* _vmp_profiles_lines
  native,     \* vmp_native_traces_enabled
  rss,        \* get_current_proc_rss() gives a number; only in memory mode
  signal,     \* the unwinder comes to a signal frame
  cstack,     \* the native frames below it, up to where the unwinder ends or
              \* fails: with an address, without, or the interpreter loop
  python,     \* the number of Python frames
  words,      \* result[0 .. depth-1]
  cursor,     \* the next native frame
  frame,      \* the next Python frame
  pc
input == <<lines, rss, signal, cstack, python>>
vars  == <<input, native, words, cursor, frame, pc>>

\* Mutant of MaxDepth: no word is set aside.
MaxDepthWhole == BufWords

MaxDepth == BufWords - 1    \* _vmprof_sample_stack passes MAX_STACK_DEPTH-1

NativeKinds == {"native", "nameless", "eval"}

Init ==
  /\ lines \in BOOLEAN /\ native \in BOOLEAN
  /\ rss \in BOOLEAN /\ signal \in BOOLEAN
  /\ cstack \in UNION {[1..n -> NativeKinds] : n \in 1..MaxFrames}
  /\ python \in 0..MaxFrames
  /\ words = <<>>
  /\ cursor = 1 /\ frame = 1
  /\ pc = "start"

Word(k, f) == [kind |-> k, of |-> f]

\* _per_loop: how many words one frame takes.
PerLoop == IF lines THEN 2 ELSE 1

HasRoom == Len(words) + PerLoop <= MaxDepth

-----------------------------------------------------------------------------
(* vmp_walk_and_record_stack *)

Python == pc' = "python" /\ UNCHANGED <<input, cursor, frame>>

\* get_stack_trace without a frame, and the walk without native profiling.
PythonOnly ==
  /\ pc = "start"
  /\ ~native \/ python = 0
  /\ pc' = IF python = 0 THEN "walked" ELSE "python"
  /\ UNCHANGED <<input, native, words, cursor, frame>>

\* unw_getcontext or unw_init_local fails: native profiling is switched off.
UnwindUnavailable ==
  /\ pc = "start"
  /\ native /\ python > 0
  /\ native' = FALSE
  /\ Python
  /\ UNCHANGED words

\* The frames of the handler itself are skipped, up to the signal frame;
\* without one the sample is dropped.
SkipSignalFrame ==
  /\ pc = "start"
  /\ native /\ python > 0
  /\ pc' = IF signal THEN "native" ELSE "walked"
  /\ UNCHANGED <<input, native, words, cursor, frame>>

\* Mutant of NativeWords: a native frame has no word for a line.
NativeWordsBare(f) ==
  IF lines /\ Len(words) + 2 >= MaxDepth THEN words
  ELSE Append(words, Word("address", f))

\* _write_native_stack: a native frame takes a pair of words in line mode, unless
\* that would be the last pair; a frame without a start address is left out.
NativeWords(f) ==
  IF ~lines THEN Append(words, Word("address", f))
  ELSE IF Len(words) + 2 >= MaxDepth THEN words
  ELSE words \o <<Word("zero", f), Word("address", f)>>

\* The frame of the interpreter loop: the Python frames follow.
FoundEval ==
  /\ pc = "native"
  /\ HasRoom
  /\ cstack[cursor] = "eval"
  /\ Python
  /\ UNCHANGED <<native, words>>

\* Mutant of NativeFrame: a broken or finished walk keeps what it has written.
NativeFrameKeeps ==
  /\ pc = "native"
  /\ HasRoom
  /\ cstack[cursor] # "eval"
  /\ words' = IF cstack[cursor] = "native" THEN NativeWords(cursor) ELSE words
  /\ cursor' = IF cursor < Len(cstack) THEN cursor + 1 ELSE cursor
  /\ pc' = IF cursor < Len(cstack) THEN "native" ELSE "python"
  /\ UNCHANGED <<input, native, frame>>

\* Any other frame, and unw_step to the next; past the last one the native part
\* is removed and only the Python frames are recorded.
NativeFrame ==
  /\ pc = "native"
  /\ HasRoom
  /\ cstack[cursor] # "eval"
  /\ IF cursor < Len(cstack)
     THEN /\ words' = IF cstack[cursor] = "native" THEN NativeWords(cursor) ELSE words
          /\ cursor' = cursor + 1
          /\ UNCHANGED pc
     ELSE /\ words' = <<>>
          /\ pc' = "python"
          /\ UNCHANGED cursor
  /\ UNCHANGED <<input, native, frame>>

\* The buffer is full before an interpreter frame was found: likewise.
NativeFull ==
  /\ pc = "native"
  /\ ~HasRoom
  /\ words' = <<>>
  /\ Python
  /\ UNCHANGED native

\* _write_python_stack_entry
CodeWords(f) ==
  IF lines THEN words \o <<Word("line", f), Word("code", f)>>
           ELSE Append(words, Word("code", f))

\* Mutant of PythonFrame: the walk steps to the caller before it writes.
PythonFrameAhead ==
  /\ pc = "python"
  /\ frame <= python
  /\ HasRoom
  /\ words' = IF frame < python THEN CodeWords(frame + 1) ELSE words
  /\ frame' = frame + 1
  /\ UNCHANGED <<input, native, cursor, pc>>

\* vmp_walk_and_record_python_stack_only
PythonFrame ==
  /\ pc = "python"
  /\ frame <= python
  /\ HasRoom
  /\ words' = CodeWords(frame)
  /\ frame' = frame + 1
  /\ UNCHANGED <<input, native, cursor, pc>>

PythonEnd ==
  /\ pc = "python"
  /\ frame > python \/ ~HasRoom
  /\ pc' = "walked"
  /\ UNCHANGED <<input, native, words, cursor, frame>>

-----------------------------------------------------------------------------
(* _vmprof_sample_stack *)

\* An empty walk cancels the buffer; otherwise the record is made.
SampleStack ==
  /\ pc = "walked"
  /\ pc' = IF words = <<>> THEN "cancelled" ELSE "sampled"
  /\ UNCHANGED <<input, native, words, cursor, frame>>

\* The words of the record: the trace, the thread state, and - when it can be
\* read - the resident set size.
Record == words \o <<Word("thread", 0)>>
                \o (IF rss THEN <<Word("rss", 0)>> ELSE <<>>)

-----------------------------------------------------------------------------
(* vmprof/reader.py: read_all at a stack trace record *)

\* What it takes for the trace: depth addresses, the even ones of them lines in
\* line mode, and the whole reversed.
ReadTrace ==
  LET depth == Len(words)
      Item(k) == IF lines /\ k % 2 = 1 THEN [line |-> Record[k]]
                                       ELSE [addr |-> Record[k]]
  IN  Reverse([k \in 1..depth |-> Item(k)])

-----------------------------------------------------------------------------
Next == \/ PythonOnly \/ UnwindUnavailable \/ SkipSignalFrame
        \/ FoundEval \/ NativeFrame \/ NativeFull
        \/ PythonFrame \/ PythonEnd \/ SampleStack

Spec == Init /\ [][Next]_vars

-----------------------------------------------------------------------------
(* Properties *)

Sampled == pc = "sampled"

Words == [kind : {"line", "code", "address", "zero"}, of : 1..MaxFrames]

InputOK ==
  /\ lines \in BOOLEAN /\ rss \in BOOLEAN /\ signal \in BOOLEAN
  /\ cstack \in Seq(NativeKinds) /\ Len(cstack) <= MaxFrames
  /\ python \in 0..MaxFrames

\* Types; the trace has never more than MAX_STACK_DEPTH-1 words, at no time.
TypeOK ==
  /\ InputOK
  /\ native \in BOOLEAN
  /\ words \in Seq(Words) /\ Len(words) <= MaxDepth
  /\ cursor \in 1..Len(cstack) /\ frame \in 1..python + 1
  /\ pc \in {"start", "native", "python", "walked", "cancelled", "sampled"}

\* The Python frames that were recorded, and where their words begin.
Frames     == frame - 1
NativeSize == Len(words) - PerLoop * Frames

\* A sample ends with the Python frames from the innermost on, each once and in
\* order, all of them or as many as there is room for; before them is no word of
\* any (vmp_walk_and_record_python_stack_only).
PythonPrefix ==
  Sampled => /\ NativeSize >= 0 /\ (lines => NativeSize % 2 = 0)
             /\ \A f \in 1..Frames :
                  /\ words[NativeSize + PerLoop * f] = Word("code", f)
                  /\ lines => words[NativeSize + 2 * f - 1] = Word("line", f)
             /\ \A j \in 1..NativeSize : words[j].kind \notin {"code", "line"}
             /\ frame <= python => ~HasRoom

IsAddress(j) == words[j].kind = "address"
Recorded(k)  == \E j \in 1..Len(words) : words[j] = Word("address", k)

\* The frames that should be there: those with an address, up to the cursor.
Wanted == {k \in 1..cursor : cstack[k] = "native"}
Missing == {k \in Wanted : ~Recorded(k)}

\* Native frames are in a sample only if the interpreter loop was found below
\* them, and then all that have an address, in order - unless they are too many
\* to leave room for one more frame, when the outer ones are missing.  They come
\* before the Python frames (vmp_walk_and_record_stack, _write_native_stack).
NativeComplete ==
  Sampled =>
    /\ \A j \in 1..Len(words) : IsAddress(j) => words[j].of \in Wanted /\ (lines => j % 2 = 0)
    /\ \A j, k \in 1..Len(words) : j < k /\ IsAddress(k) =>
         words[j].kind = "zero" \/ (IsAddress(j) /\ words[j].of < words[k].of)
    /\ (\E j \in 1..Len(words) : IsAddress(j)) => cstack[cursor] = "eval"
    /\ native /\ cstack[cursor] = "eval" =>
         /\ \A j \in Missing, k \in Wanted : j < k => k \in Missing
         /\ Missing = {} \/ PerLoop * (Cardinality(Wanted) + 1) > MaxDepth

\* What the reader has for the i-th frame of the trace.
ReadAs(i, address, line) ==
  LET first == PerLoop * (i - 1) + 1
  IN  /\ ReadTrace[first] = [addr |-> address]
      /\ lines => ReadTrace[first + 1] = [line |-> line]

\* The reader knows a line number from an address only by its place: whatever the
\* walk has written, left out or removed, it takes no line for an address and no
\* native frame for a Python frame, and has the Python frames from the outermost
\* on, each with its own line, before the native ones (the comments "every line
\* number corresponds to the following frame" in read_trace and "we must keep the
\* profile readable" in _write_native_stack).
ReadAsWritten ==
  Sampled =>
    /\ Len(words) % PerLoop = 0
    /\ \A i \in 1..Frames :
         ReadAs(i, Word("code", frame - i), Word("line", frame - i))
    /\ \A i \in Frames + 1..Len(words) \div PerLoop : \E k \in 1..Len(cstack) :
         ReadAs(i, Word("address", k), Word("zero", k))

\* The code must "not write to unknown memory" (vmp_stack.c): the record without
\* a resident set size fits into the buffer ...
RecordFitsWithoutRss == Sampled /\ ~rss => Len(Record) <= BufWords

=============================================================================
