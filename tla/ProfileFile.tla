---------------------------- MODULE ProfileFile ----------------------------
(***************************************************************************)
(* The profile file of one session, from vmprof.enable() to the reader:    *)
(* samples name code objects by their address, and vmprof.disable() reads  *)
(* the file back to find out which addresses need a name                   *)
(* (vmprof/__init__.py, vmprof/reader.py, src/src/_vmprof.c, vmprof_unix.c).*)
(*                                                                         *)
(* The C writer and the reader of disable() use one descriptor, so they    *)
(* share its offset.  Records are whole here and counted, not measured;    *)
(* short writes are the subject of ProfBufs.  A trace is the one id that   *)
(* is looked up.                                                           *)
(***************************************************************************)
EXTENDS Integers, Sequences, FiniteSets, SequencesExt

CONSTANTS
  Addrs,       \* addresses of code objects, which are their ids in samples
  Natives,     \* addresses of native functions
  MaxName,     \* "py:..." strings by their place in the sort order, from 1
  Room,        \* how many names a buffer takes
  MaxSamples,  \* bound: samples taken
  MaxCreated,  \* bound: code objects created after the start
  Contended    \* whether a thread may find the write lock taken

ASSUME ProfileFileAssumption ==
  /\ Addrs \cap Natives = {}
  /\ MaxName \in Nat
  /\ Room \in Nat \ {0} /\ MaxSamples \in Nat /\ MaxCreated \in Nat
  /\ Contended \in BOOLEAN

VARIABLES
  file,     \* its records
  off,      \* the offset of the descriptor, in records
  ready,    \* the records in READY buffers, not yet written
  codes,    \* current_codes; << >> when it is NULL
  phase,    \* where the session is
  at,       \* the name of the code object at each address, or Nobody
  seen,     \* dedup: the ids found by LogReaderDumpNative
  todo,     \* the ids disable() still has to write a record for
  created,  \* how many code objects were created
  taken,    \* ghost: the ids sampled, in order
  missed,   \* ghost: the ids in READY buffers when disable() started to read
  lived,    \* ghost: the names of the code objects that lived at each address
  freed     \* ghost: the code objects freed while the profiler was enabled
memory == <<at, created, lived>>
ghosts == <<taken, missed, freed>>
vars   == <<file, off, ready, codes, phase, seen, todo, memory, ghosts>>

Names  == 1 .. MaxName
Nobody == 0
Symbol == 0   \* any "n:..." string: it sorts before every "py:..."

Header    == [tag |-> "header"]
Trace(x)  == [tag |-> "trace", id |-> x]
Ip(a, n)  == [tag |-> "ip", id |-> a, name |-> n]
Native(x) == [tag |-> "symbol", id |-> x, name |-> Symbol]
Trailer   == [tag |-> "trailer"]
Torn      == [tag |-> "torn"]   \* what is left, if anything, of records written over

Living == {a \in Addrs : at[a] # Nobody}

Init ==
  /\ file = <<>> /\ off = 0
  /\ ready = <<>> /\ codes = <<>>
  /\ phase = "off"
  /\ at \in [Addrs -> Names \cup {Nobody}]
  /\ seen = {} /\ todo = {}
  /\ created = 0
  /\ taken = <<>> /\ missed = {} /\ freed = {}
  /\ lived = [a \in Addrs |-> {at[a]} \ {Nobody}]

-----------------------------------------------------------------------------
(* Writing at the offset of the descriptor *)

Write(records) ==
  /\ file' = IF records = <<>> \/ off = Len(file)
             THEN file \o records
             ELSE SubSeq(file, 1, off) \o records \o <<Torn>>
                    \o SubSeq(file, off + 2, Len(file))
  /\ off' = off + Len(records)

\* The lock is only ever taken by a handler or a registrar of another thread.
LockFree == IF Contended /\ phase = "on" THEN BOOLEAN ELSE {TRUE}

\* vmprof.enable: opened_profile writes the header, the time and the metadata.
Enable ==
  /\ phase = "off"
  /\ phase' = "on"
  /\ Write(<<Header>>)
  /\ UNCHANGED <<ready, codes, seen, todo, memory, ghosts>>

\* Mutant of Sample: the gate stays open while the file is read.
SampleUngated(x) ==
  /\ phase \in {"on", "reading"}
  /\ Len(taken) < MaxSamples
  /\ taken' = Append(taken, x)
  /\ Write(ready \o <<Trace(x)>>) /\ ready' = <<>>
  /\ UNCHANGED <<codes, phase, seen, todo, memory, missed, freed>>

\* A handler reserves a buffer, which writes the READY ones, and commits it.
Sample(x) ==
  /\ phase = "on"
  /\ Len(taken) < MaxSamples
  /\ taken' = Append(taken, x)
  /\ \E free \in LockFree :
       IF free THEN Write(ready \o <<Trace(x)>>) /\ ready' = <<>>
               ELSE ready' = Append(ready, Trace(x)) /\ UNCHANGED <<file, off>>
  /\ UNCHANGED <<codes, phase, seen, todo, memory, missed, freed>>

\* Mutant of Register: a full block is forgotten.
RegisterForgets(record) ==
  IF codes # <<>> /\ Len(codes) < Room
  THEN codes' = Append(codes, record) /\ UNCHANGED <<file, off, ready>>
  ELSE /\ codes' = <<record>>
       /\ Write(ready) /\ ready' = <<>>

\* vmprof_register_virtual_function: into the current block while there is
\* room; else that block is committed and a new one reserved.
Register(record) ==
  IF codes # <<>> /\ Len(codes) < Room
  THEN codes' = Append(codes, record) /\ UNCHANGED <<file, off, ready>>
  ELSE /\ codes' = <<record>>
       /\ \E free \in LockFree :
            IF free THEN Write(codes \o ready) /\ ready' = <<>>
                    ELSE ready' = ready \o codes /\ UNCHANGED <<file, off>>

-----------------------------------------------------------------------------
(* Code objects: other threads run whenever the reader makes a system call *)

Running == {"on", "reading", "dumping", "failed"}

CodeNew(a, n) ==
  /\ phase \in Running
  /\ at[a] = Nobody
  /\ created < MaxCreated
  /\ at' = [at EXCEPT ![a] = n]
  /\ created' = created + 1
  /\ lived' = [lived EXCEPT ![a] = @ \cup {n}]
  /\ UNCHANGED <<file, off, ready, codes, phase, seen, todo, ghosts>>

\* cpyprof_code_dealloc: the name is written before the address is reused.
CodeDealloc(a) ==
  /\ phase \in Running
  /\ at[a] # Nobody
  /\ at' = [at EXCEPT ![a] = Nobody]
  /\ freed' = freed \cup {<<a, at[a]>>}
  /\ Register(Ip(a, at[a]))
  /\ UNCHANGED <<phase, seen, todo, created, lived, taken, missed>>

-----------------------------------------------------------------------------
(* vmprof.disable() *)

\* stop_sampling; then read_all seeks to the start.
StopSampling ==
  /\ phase = "on"
  /\ phase' = "reading"
  /\ off' = 0
  /\ missed' = {r.id : r \in {q \in ToSet(ready) : q.tag = "trace"}}
  /\ UNCHANGED <<file, ready, codes, seen, todo, memory, taken, freed>>

\* One turn of the loop of read_all, with the add_trace of LogReaderDumpNative.
ReadRecord ==
  /\ phase = "reading" /\ off < Len(file)
  /\ file[off + 1] # Torn
  /\ off' = off + 1
  /\ seen' = IF file[off + 1].tag = "trace" THEN seen \cup {file[off + 1].id} ELSE seen
  /\ UNCHANGED <<file, ready, codes, phase, todo, memory, ghosts>>

\* The remains of a record are taken for records of some kind, up to anywhere.
ReadTorn ==
  /\ phase = "reading" /\ off < Len(file)
  /\ file[off + 1] = Torn
  /\ off' \in off + 1 .. Len(file)
  /\ \E ids \in SUBSET (Addrs \cup Natives) : seen' = seen \cup ids
  /\ UNCHANGED <<file, ready, codes, phase, todo, memory, ghosts>>

\* The end of the file, or remains that pass for a trailer:
\* finished_reading_profile seeks to the end, unless there was no sample.
FinishedReading ==
  /\ phase = "reading" /\ (off < Len(file) => file[off + 1] = Torn)
  /\ phase' = "dumping"
  /\ todo' = seen
  /\ off' = IF seen = {} THEN off ELSE Len(file)
  /\ UNCHANGED <<file, ready, codes, seen, memory, ghosts>>

\* Every id gets a symbol; one that is not native gets a placeholder.
DumpSymbol(x) ==
  /\ phase = "dumping" /\ x \in todo
  /\ todo' = todo \ {x}
  /\ Write(<<Native(x)>>)
  /\ UNCHANGED <<ready, codes, phase, seen, memory, ghosts>>

\* write_all_code_objects holds the GIL: nothing comes between the names.
WriteAllCodes ==
  /\ phase = "dumping" /\ todo = {}
  /\ phase' = "emitting"
  /\ todo' = seen \cap Living
  /\ UNCHANGED <<file, off, ready, codes, seen, memory, ghosts>>

EmitCode(a) ==
  /\ phase = "emitting" /\ a \in todo
  /\ todo' = todo \ {a}
  /\ Register(Ip(a, at[a]))
  /\ UNCHANGED <<phase, seen, memory, ghosts>>

\* Anything on the way raises an exception - the reader, which meets something
\* else than a whole record, a write, a signal: the finally clause is next.
ReadFails ==
  /\ phase \in {"reading", "dumping", "emitting"}
  /\ phase' = "failed"
  /\ todo' = {}
  /\ UNCHANGED <<file, off, ready, codes, seen, memory, ghosts>>

\* vmprof_disable, also in the finally clause: flush_codes, the buffers left
\* READY and the trailer, at the offset the reader has left.
DisableVmprof ==
  /\ \/ phase = "emitting" /\ todo = {} /\ phase' = "closed"
     \/ phase = "failed" /\ phase' = "aborted"
  /\ Write(codes \o ready \o <<Trailer>>)
  /\ codes' = <<>> /\ ready' = <<>>
  /\ UNCHANGED <<seen, todo, memory, ghosts>>

Next ==
  \/ Enable \/ StopSampling \/ ReadRecord \/ ReadTorn \/ FinishedReading
  \/ WriteAllCodes \/ ReadFails \/ DisableVmprof
  \/ \E x \in Living \cup Natives : Sample(x)
  \/ \E x \in Addrs \cup Natives : DumpSymbol(x)
  \/ \E a \in Addrs : CodeDealloc(a) \/ EmitCode(a)
  \/ \E a \in Addrs, n \in Names : CodeNew(a, n)

Spec == Init /\ [][Next]_vars

-----------------------------------------------------------------------------
(* Reading the closed file: LogReader, and the dict of read_profile *)

\* The records before the first trailer.
ReadAll ==
  LET ends == {k \in 1..Len(file) : file[k] = Trailer}
  IN  IF ends = {} THEN file
      ELSE SubSeq(file, 1, (CHOOSE k \in ends : \A l \in ends : k <= l) - 1)

Profiles == SelectSeq(ReadAll, LAMBDA r : r.tag = "trace")

Given(x) == {r.name : r \in {q \in ToSet(ReadAll) : q.tag \in {"ip", "symbol"} /\ q.id = x}}

\* Mutant of AdrDict: the pairs are not sorted, so the last one read wins.
AdrDictUnsorted(x) ==
  ReadAll[CHOOSE k \in 1..Len(ReadAll) :
            /\ ReadAll[k].tag \in {"ip", "symbol"} /\ ReadAll[k].id = x
            /\ \A l \in k + 1..Len(ReadAll) :
                 ~(ReadAll[l].tag \in {"ip", "symbol"} /\ ReadAll[l].id = x)].name

\* virtual_ips is sorted, so dict() keeps the largest name of an id.
AdrDict(x) == CHOOSE n \in Given(x) : \A m \in Given(x) : m <= n

-----------------------------------------------------------------------------
(* Safety *)

\* Nothing in the file was written over.
Whole == Torn \notin ToSet(file)

\* Reading the file back in disable() moves the offset that the writer uses, but
\* in a file that is whole nothing is ever written over - with two exceptions: a
\* code object that dies while the file is read may make the writer put READY
\* buffers and the block of names at the offset of the reader; and when the
\* reading fails half-way whatever comes, the trailer at the latest, goes there.
AppendOnly ==
  [][\/ IsPrefix(file, file') \/ ~Whole
     \/ phase = "reading" /\ at' # at
     \/ phase = "failed" /\ off < Len(file)]_vars

\* Every sampled id ends up with a name: a code object with the name of one
\* that lived at its address and not the placeholder that disable() wrote for
\* it, a native one with its symbol.  The samples that another thread's lock
\* kept in their buffers when disable() read the file may stay nameless, and
\* so may everything once records were written over, or the reading failed.
SampledAreNamed ==
  phase = "closed" /\ Whole =>
    \A k \in 1 .. Len(taken) :
      LET x == taken[k]
      IN  \/ x \in missed \ seen
          \/ Given(x) # {} /\ AdrDict(x) \in IF x \in Addrs THEN lived[x] ELSE {Symbol}

\* The name of a code object freed during the session is in the file that
\* disable() leaves, whatever became of the block it was put into and although
\* the reading may have failed - unless records were written over.
FreedAreNamed ==
  phase \in {"closed", "aborted"} /\ Whole => \A c \in freed : c[2] \in Given(c[1])
=============================================================================
