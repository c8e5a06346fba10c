# vmprof in TLA+

vmprof is a sampling profiler for CPython and PyPy: a timer signal interrupts
the program, the signal handler walks the stack into a buffer, and buffers are
written to a profile file that `vmprof.disable()` completes with the names of
the code objects and that `vmprof.read_profile()` reads. This directory holds a
TLA+ model of that program, the configurations under which TLC checks it, and
proofs for TLAPS. `src/src/...` below is the C code, `src/vmprof/...` the
Python package; where no path is given, the file is in `src/src/`.

    tlc -config Session.cfg Session.tla       # one run
    tlapm ProfBufs_proofs.tla                 # the proofs of one module

## 1. Inventory

| component | state | operations | who calls it |
|---|---|---|---|
| buffer pool (`vmprof_mt.c`) | 20 buffers, each UNUSED, FILLING or READY; a write lock; the index of a half-written buffer | prepare, reserve, commit, cancel, shutdown | signal handlers of all threads, registrars of names, enable and disable |
| code name registry (`vmprof_unix.c`) | `current_codes`, the buffer that names are appended to | register_virtual_function, flush_codes | `emit_code_object` (a code object is freed; disable), PyPy |
| session (`vmprof_unix.c`, `vmprof_common.c`, `_vmprof.c`) | is_enabled, the interval, the descriptor, the timer, the signal action, the gate (`signal_handler_ignore`) and the count of handlers behind it | enable, disable, stop and start sampling, three fork hooks, the handler | the program, the kernel |
| real-time threads (`vmprof_common.c`, `_vmprof.c`) | an array of threads, the spinlock around it | insert, remove, remove all, broadcast | the program; the handler of the main thread |
| stack walk (`vmp_stack.c`, `vmprof_unix.c`) | line and native mode; the sample under way | walk native and Python frames, write the record | the handler, `sample_stack_now` |
| profile file and reader (`vmprof/reader.py`, `vmprof/__init__.py`, `_vmprof.c`, `compat.c`) | the file, its offset, the ids that need names | header, metadata, trailer, reading back in disable, symbols, names; read_profile | disable, readers |
| report (`vmprof/stats.py`, `vmprof/show.py`) | counts per function, call tree | count, fold the profiles into the tree, filter, add up times | users |
| address ranges (`vmp_stack.c`) | array of bounds of the interpreter's own code | collect from /proc/self/maps, bisection | tests, RPython |
| native symbols (`symboltable.c`, `libbacktrace/`) | per module: ranges, units, line tables, functions, read when first needed; the views that are mapped | initialize, add a module, look an address up | disable (`resolve_addr` of every id seen) |
| Windows sampler (`vmprof_win.c`) | a sampling thread, one flag, a mutex made anew by each enable | suspend, snapshot, resume, write | enable and disable on Windows |
| JIT log (`jitlog/`) | forest of traces, stages, links, patches | parse, stitch, query | users, PyPy |
| front end (`cli.py`, `show.py`, `upload.py`, `vmshare/`) | none | parse arguments, print, upload | users |

**How they interact.** The handler passes the gate of the session, reserves a
buffer of the pool, has the stack walk fill it, and commits it; whoever gets
the pool's lock writes to the session's descriptor. `vmprof.disable()` closes
the gate and waits for the handlers, reads the file through the same
descriptor, writes symbols with `os.write` and names through the registry, and
lets the pool flush. Freed code objects go through the registry at any time
while profiling is enabled. In real-time mode the main thread's handler also
walks the thread list under the spinlock.

**What is hard.** A handler runs on top of the code it interrupts, in any
thread, at any instruction, and cannot wait for a lock. `write()` may be short
or fail. fork copies locks and counters whose owners do not exist in the child.
The gate and the spinlock are polled. The reader in `disable()` works on a file
that is still open for writing. Code object ids are addresses and are reused.
The hazards, each at its line, are listed in `PROJECT.json`; section 5 has the rest.

**What makes each component correct.** The pool: one writer at a time, one
owner per buffer, every committed record once and in one piece, no waiting in
handlers. The session: no handler samples without a pool and a file, or while
disable reads, flushes or unmaps; an enabled profiler samples; a disabled one
has no timer. The thread list: one user at a time, broadcasts that miss nobody
but those moved by a removal. The stack walk: samples that are prefixes of the
stack, no line number taken for an address by the reader, inside the buffer. The
file: only appended to, every sampled id named, as long as the reading in disable
is not disturbed. The report: a tree that agrees
with the counts, times that add up. The ranges: bounds written inside the array,
an address found exactly if it was in a mapping. The symbols: the functions and
lines the compiler encoded, whatever was asked before; tables in order, whatever
order they were read in; nothing mapped or open
that is not needed. The JIT log: links that go both ways, points at the labels
themselves, good logs read to their end. Windows: whole records as long as nothing is
written while disable has the offset inside the file, at most one sample after
sampling was stopped, no program left suspended.

## 2. Modules

| module | models | checked by | proved in |
|---|---|---|---|
| `ProfBufs` | pool and name registry | `pool` | `ProfBufs_proofs` |
| `ProfLog` | what the pool promises: an append-only log | `pool` (refinement) | `ProfBufs_proofs` |
| `Session` | enable, disable, the gate, fork | `session` | `Session_proofs` |
| `RealTimeThreads` | the thread list and the spinlock | `realtime`, `realtime_spin` | `RealTimeThreads_proofs` |
| `WinSampler` | sampling on Windows | `windows` | `WinSampler_proofs` |
| `StackWalk` | one sample, from stack to reader | `stack` | `StackWalk_proofs` |
| `ProfileFile` | the file, names, disable's reading, the reader | `file` | `ProfileFile_proofs` |
| `Report` | counts, call tree, flat times | `report` | `Analysis_proofs` |
| `Ranges` | the table of ignored addresses | `addresses` | `Addresses_proofs` |
| `ElfFile` | how libbacktrace opens and reads modules | `elf` | `Addresses_proofs` |
| `Dwarf`, `SortSearch` | from an address to functions and lines; sorting and bisection | `dwarf` | |
| `RangeTable` | one table of `Dwarf`: its sort in place and its search, turn by turn | `addresses` | `Addresses_proofs` |
| `JitLog` | the JIT log's parser and the forest it builds | `jitlog` | `Analysis_proofs` |
| `MCProfBufs`, `MCAddresses` | constant values; `Ranges` and `RangeTable` side by side | | |
| `MCDwarf` | a compiler of small programs for `Dwarf`, and what they should resolve to | `dwarf` | |

Definitions that begin like an operation's name and are introduced as a
*mutant* are defective variants of that operation. No specification uses them;
`PROJECT.json` says which property each of them breaks when it is put in the
operation's place.

### ProfBufs

One step is one access to shared memory: reading a `profbuf_state`, a
compare-and-swap, a `write()`. The contexts are handlers, registrars
(`Coders`) and the closer, which also opens the session. `Victim` says which
normal code a handler interrupts; that code makes no step while the handler is
active, as on a real thread. A record is an identity and a number of chunks,
and `write()` may stop after any chunk (`WriteSome`), or fail (`WriteFails`).
`pc` follows the C functions: `scan...` is `_write_ready_buffers`,
`resv...` the loop of `reserve_buffer`, `pending` to `clearPending` is
`_write_single_ready_buffer`, `k_...` is `vmprof_register_virtual_function`
around `current_codes`, `flush` to `unmap` is `vmprof_disable`.

`SetUnused` and `ResetPending` are two steps, as in the code: between them the
buffer can be reserved again while `profbuf_pending_write` still names it. That
this is harmless is one of the things the invariant shows. The memory is
sequentially consistent here: the code puts a fence before READY becomes
visible, and its other shared accesses are atomic builtins or volatile.

`ProfLog` says what a user of the pool may rely on: records are accepted, each
gets into the file piece by piece, an unfinished one goes first, and the log
closes with nothing waiting. The order is left open, as the comment in
`vmprof_mt.h` does. `ImplementsLog` is the refinement: a record is accepted
when its buffer is committed, and it waits until the last of its chunks is
written.

### Session

One call of the Python API runs at a time (they hold the GIL) and is followed
step by step (`pc`), because handlers interleave with every step (`hpc`).
`Spin` to `ExitSignal` are the steps of `sigprof_handler`, `EnableBegin` to
`EnableSet` those of `vmprof_init` and `vmprof_enable`, `DisableGate` to
`DisableSet` those of `vmprof_disable`. `CanFail` names the calls that may
fail; then the session goes the code's own error path. `ForkChild` follows the
child: the other threads are gone, and what their handlers held stays in its
memory (`strays` counts those that had entered). `EnableNative` and
`DisableNative` are `vmp_native_enable` and `vmp_native_disable` inside those
calls: `lib` says whether libunwind is open, complete or not, `native` whether
native profiling is on, `walks` which handlers are inside its functions
(`WalkNative` to `SampleBody`).

### RealTimeThreads

The kernel gives the real timer's signal to the main thread, whose handler
forwards it under the spinlock. The list is a sequence; removing an element
puts the last one in its place, as the C array does. A call that is
interrupted by a handler of its own thread stands still until that handler
ends. Threads may end while they are listed.

### StackWalk

The inputs are chosen in `Init`: the native frames up to where the unwinder
ends, each with an address, nameless, or the interpreter loop; the number of
Python frames; line and native mode; whether the memory size can be read, as it
may in memory mode. The words of the buffer are what they stand for. `ReadTrace`
is the reader's side: it reads words one by one, and only their place in the
record tells a line number from an address. How many words follow the trace is
not told by the record either: in memory mode the reader takes two, also when the
writer had no memory size to write (section 6).

### ProfileFile

Records are whole here and the offset counts records, since short writes are
the subject of `ProfBufs`. The descriptor's offset is shared by the C writer
and the reader in `disable()`: `StopSampling` moves it to the start, each
`ReadRecord` moves it on, `Write` writes where it is and leaves a `Torn` record of
what was there. `ready` is what waits in
READY buffers, `codes` the block of names. A trace is one id, as names are looked
up one id at a time. Names are numbers in the sort order of the strings: every
`n:...` is 0 and every `py:...` is larger. This matters, because `disable()`
writes a placeholder `n:<native symbol ...>` for *every* id it has seen, Python
code included, and only the sort in the reader makes the real name win. `AdrDict`
is the dictionary `read_profile` builds. A code object may die at any time, also
while `disable()` reads, and what the writer then puts over older records tears
them. The reader takes a torn record for records of some kind, with ids that
nobody sampled (`ReadTorn`), or for a trailer (`FinishedReading`), or raises
(`ReadFails`). It may raise anywhere else too: the `finally` clause then shuts
down all the same, and `DisableVmprof` writes what is in the buffers and the
trailer at the offset the reader has left (the phase `aborted`, where ids may lack
a name). `Whole` says that nothing was torn.

### WinSampler

Two threads: the program (`pc`, and `record` for what it writes), which holds the
GIL in every call, and the
sampling thread (`spc`). `suspended` stops the program between any two of its
steps, also inside `vmp_write_all` while it owns the mutex. A mutex is the number
of the enable that made it; the sampling thread keeps the one it waited for
(`smutex`) and the descriptor it read under it (`sfd`), and `ReleaseMutex` names
the global one. A record takes one or two `_write`s. The file that is followed is
that of the last session. Its descriptor has an offset (`off`), which `disable()`
moves: `DisableStop` clears the flag and waits for nobody, `DetectFileSizes` seeks
to the start, twice, `ReadRecord` moves on, and a sample that is still under way is
written by `Put` where the reader is, over older records, of which something `Torn`
may be left; `mixed` remembers it, and `late` counts such samples. On Windows
`finished_reading_profile` writes no symbols and does not seek to the end, so what
follows goes where the reading has ended or failed. Meanwhile other threads of the
program may run at each system call; all they do here is to write names of code
objects that die (`RegisterName`), and the call of `disable()` stands still until
that is done (`back`). The four kinds of records of the program are the
header, which stands for the time and meta data after it too, a name, the names
`disable()` writes, and the trailer.

### Report

The profiles are chosen in `ReportInit`: those of CPython, of PyPy with frames of
every kind, and those of line mode. One step takes one entry of a profile, first
for `generate_top` (`CountEntry`), then for `get_tree`: assembler, the line of a
frame, a repeated address and a call are an action each, and `MarkLast` is what is
done after the loop, with the `addr` that is then left over. A node of the tree is
the path of addresses that leads to it, so that `add_child` either makes a path or
counts it. Each step of `FilterTop` goes down the heaviest branch, `FlatOf` and
`FlatNoNative` are the two modes of the flat printer. Python's `sum` is `Total`,
the number of pairs of an argument and a number up to its value: sums can then be
compared by what is known of finite sets.

### Ranges

`IgnoredLine` is one turn of the loop over the lines of `/proc/self/maps`, with
the two `_add_to_range` of a mapping and the reallocation they may need; a cell
of the array that was never written has `Garbage`, and bounds are joined where
mappings touch. `Narrow`, `Outside`, `Lower` and `Answer` are the bisection.

### ElfFile

One step reads or maps one thing of one module, and each `mmap`, allocation,
open and close may fail there. `views` holds the views that are mapped, `closes`
how often each descriptor was closed, `syms` and `dwarfs` the modules whose symbols and debug information
were taken. `Names` are the paths tried for the program. `found_sym`, which every
module sets anew, is left out: it decides about `syminfo_fn` only, which nothing
calls.

### Dwarf, SortSearch and MCDwarf

`DwarfAdd` adds a module, `DwarfFileline` looks an address up; all between is
pure: `BuildAddressMap` over the units, `ReadLineProgram` for a line table,
`ReadFunctionEntry` for the functions and their nesting, `LookupPc` for the
answer. `read` keeps what a unit gave when it was first needed, `Bad` where it
could not be read. Encodings (LEB128, strings, sections) are taken as decoded.
`SortSearch` has the quicksort of `sort.c` and `bsearch` as functions, since which
of two overlapping entries a search meets depends on its middles. `MCDwarf`
compiles trees of functions and line tables in the forms producers choose between
(low and high pc, offset or address, lists of ranges with base entries, special
opcodes, inlined calls, references to abstract functions) and states what each
address has to give.

### RangeTable

What `SortSearch` has as recursive functions, with one turn of a loop per step, so
that it can be proved about. `Pivot`, `Partition` and `Recurse` are the body of
`backtrace_qsort` on the slice of `size` entries behind `base`, with its `mid` and
its `i` (`nxt`; positions count from 1). `calls` is the stack: `ReturnFrom` ends a
call, and the caller goes on with the part it has kept (`RestOf`), which is the code's
`goto tail_recurse`. `LookUp` and `Bisect` are `bsearch`, `Onward` and `Back` the two
loops after it in `dwarf_lookup_pc`; the last name of the comparison (the function's
name, the unit's lines) is the number `third`. `useless` are units whose lines could
not be read; it is any set, and fixed during a look-up. `MCAddresses` puts the module
beside `Ranges`, which it has nothing to do with: one moves while the other has not
begun, and one run checks both.

### JitLog

The log is any sequence of records. Each action is one mark parser on one record,
including everything the forest does for it; `Raise` ends the reading as an
exception does. `wellFormed` is a ghost: the log is one PyPy can write, a
counter for a place it has announced, a bridge for a guard it has compiled. Traces
have stages with operations (a name and a descr); `points` are the operations that
descrs lead to; `links` and `up` the links between traces. `Upload` appends the
source lines as the command line does before it sends the log.

## 3. Runs

| run | question | bounds |
|---|---|---|
| `pool` | Do exclusion, ownership, exactly-once and the final flush hold, does the pool implement the log, does a handler return without anyone's help? | 2 buffers, 2 chunks, 3 records, 2 registrars, the handler of one of them |
| `session` | Do the gate, the file, libunwind and the timer fit together in every interleaving, with one fork and the failures listed? Does an enabled profiler sample, does every stop and every handler end? | 2 threads, 2 nested stops, 1 fork, all failures but two of libunwind (section 6) |
| `realtime` | Is the list used by one context at a time, who misses a broadcast, are listed threads signalled for ever, does everyone return? | 3 threads, a list of 2, calls from an unlisted thread |
| `realtime_spin` | the disagreement of section 6 | 3 threads, a list of 3 |
| `windows` | Are records whole unless the reading is disturbed, what comes late, does every call return? | 2 sessions, 2 samples or names besides what a session writes, records of 2 pieces |
| `stack` | What is in a sample, and what does the reader make of it? | 6 words, stacks of up to 4 frames |
| `file` | Which ids get a name, is anything lost or written over, also when the reading fails? | 2 addresses, 1 native function, 2 names, 2 names per buffer, 3 samples, 1 new code object |
| `report` | Does the tree agree with the counts, do the times add up? | 2 profiles of up to 3 entries, 4 functions of 4 kinds, 2 lines |
| `addresses` | Ignored ranges: are the writes inside the array, is exactly what was mapped found? Debug information: is every vector sorted, is the right range found? | 14 mappings, 14 addresses; vectors of up to 5 of 6 ranges, 3 addresses, any useless units |
| `elf` | What stays open or mapped after any failure, and when is debug information used? | the program and 2 libraries or fewer |
| `dwarf` | Is an address resolved to what was compiled? | 2 modules, trees of up to 4 functions, 6 addresses, every order of lookups |
| `jitlog` | Do links and points agree with the operations, are good logs read, are sources tagged once? | 7 records that leave something, 2 traces, 2 descrs, 2 stages |

**Why the bounds are enough.** Two buffers make "all buffers busy" and "one
half-written, another READY" happen; two chunks make a short write; three
records let a buffer be reused while another waits. Two registrars are what a
race for `current_codes` takes; the second one, in another thread, is also what a
handler meets when it fails to get the lock. In `Session` two threads give a
handler that is behind the gate while another one arrives; two stops give
nesting. A list of two is where removal moves a thread. Two sessions on Windows
let a sample straddle an enable, and two samples are one more than may come late.
Six words are full after two frames in line mode. In `ProfileFile` two names fill
a block, three samples fill the queue of records kept back by the lock and leave
one that is written, and one new code object reuses an address. Three entries
recur, two profiles share a part of their path. Six mappings that do not touch
make the array of ranges grow. A program and one library are what decides about
the last module read. Three functions nest, overlap an inlined one and follow one
another. Five entries are the fewest for which a call of the sort makes a call.
Seven records are a trace with a guard, a bridge, and its counter.
`Stops`, `Forks`, `Records`, `Samples`, `Created`, `Frames`, `Sessions`,
`Writes`, `Name`, `MaxEntries`, `Profiles`, `Modules` and `Size` (of a log) after `Max` are bounds of the
model, not of the code (the code's own limits are `NumBufs`, the `MaxSize` of
`ProfBufs`, `BufWords`, `Room`); `MaxList` bounds an array that the code enlarges
without limit. Symmetry is used in `jitlog`, over the ids and descrs, with
invariants only.

Deadlock checking is off where the program may rest for ever: a process without
timer and calls (`session`, `windows`), the same in real-time mode (`realtime`,
where a thread can also hang on the spinlock), and where a computation is
finished or a bound is reached (the other runs but `pool`).

**Fairness.** `HandlerReturns` is about one handler running alone, so that it
assumes nothing of the others. In `Session` threads in handlers go on (weak), a handler
that spins gets the spinlock if it is free again and again (strong: the lock
is held for a handful of instructions), and `WaitHandlers` is strong because
the loop of `vmprof_ignore_signals` sleeps a few microseconds between two
looks while signals are a timer period apart; `EveryoneReturns` further supposes
that the handlers of several threads do not overlap for ever, since the code
does not stop them from doing so. It exempts children of a fork in which the
spinlock or the counter was left behind by a thread that is not there.
`RealTimeThreads` assumes the same of its spinlock, that the timer goes on, and
that signals are delivered. `WinSampler` assumes that both threads are scheduled
and that the program gets the mutex if it is free again and again: the sampling
thread sleeps between two samples. The reader of `disable()` comes to the end of a
file that grows because sampling is off and names are few (`MaxWrites`).

**Types.** The configurations spend their properties on what could go wrong. The
types are part of each inductive invariant (`TypeOK`, `TypeInv`, `ElfType` in the
modules with theorems); those of `Dwarf` are kept by the sets its actions choose
from.

## 4. Proofs

`ProfBufs_proofs` proves, for any number of buffers, any sizes, and any
handlers and registrars, interrupting each other in any way:

* `TypeCorrect`, `WritesExclude` (`WriteExclusion`), `BuffersOwned`
  (`OneOwner`) and `PendingAssertion` (`PendingIsReady`, the `assert` in
  `_write_single_ready_buffer`), all of them from
* `InductiveInvariant`: `Spec => []IInv`.

None of the four is inductive. That a buffer has one owner needs to know who
is *about to* own it (a context after a successful compare-and-swap) and that a
registrar which takes `current_codes` takes the only reference
(`FillingInv`, `LeakInv`); that the write lock excludes needs to know where a
context can be while its `has_write_lock` is set (`HasInv`, `HolderInv`), and
that the closer runs without handlers (`ClosingInv`, `PlaceInv`); that the
half-written buffer is READY needs the interval between `SetUnused` and
`ResetPending`, in which it need not be (`PendingInv`, `WorkInv`). `IInv` is
the conjunction of these named parts; there is a lemma per part, with a step
per action. The assumptions are `SizesAssumption` and `ContextsAssumption` of
`ProfBufs`.

The second half of the module goes on from there to what reaches the file:
`RecordsExactlyOnce` (`ExactlyOnce`), `NothingLeftBehind` (`ShutdownFlushes`)
and `PoolImplementsLog` (`ImplementsLog`, the refinement of `ProfLog`), for any
number of threads (`ThreadsAssumption`: finitely many). `IInv` says who owns a
buffer; `LogInv` adds what buffers and file hold. A record is new when it is
committed and no two buffers hold the same one (`FreshInv`, `DistinctInv`);
what is missing of it in the file is what its buffer still has (`ReadySizeInv`,
`EntryInv`); its end is in the file exactly while its buffer waits for its
release (`WrittenInv`, `KeptInv`); only the buffer of `profbuf_pending_write` is
written in part, and it is the one the file ends in the middle of (`PartInv`,
`TailInv`); behind the index of `shutdown_concurrent_bufs` nothing is READY
(`LoopInv`). `NumberInv` is about the model's bound on records. Each step is
first reduced to its effect on buffers and file (`Effect`); then there is a
lemma per part, with a case per effect, and a lemma per kind of abstract step.

`Session_proofs` proves, for any number of threads and of nested
`stop_sampling` calls, `StoppedIsQuiet` (`StopIsQuiet`: after `stop_sampling` no
handler is inside) however often the process forks. It follows from
`GateInvariant`: `signal_handler_entries` is the number of handlers that have
entered, plus those that a fork left behind (`EntriesCount`, with the
cardinalities of `FiniteSetTheorems`); the gate is shut as often as was asked
for, and once more while `vmprof_disable` works (`IgnoreInv`); and behind a gate
that was shut when nobody was inside, nobody is (`QuietInv`).
`OneForkInvariant` adds what `vmprof_enable` has set up and `vmprof_disable` has
taken down at each step (`StartInv`, `EndInv`), and what holds of the gate, the
timer and the file between the calls (`DisabledInv`, `IntervalInv`, `OpenInv`,
`NoFileInv`, `OnInv`). It gives `HandlersHaveFile` (`HandlerHasFile`, the
assertion of `sigprof_handler`), `TimerInParent` (`TimerOnlyInParent`) and
`SamplingIsOn` (`SamplingOn`), under `MaxForks <= 1`: a second fork, by the
child, arms the timer of a process that has no file (section 6).
`HandlersHaveUnwinder` (`HandlerHasUnwinder`) adds `UnwinderInv`: the library is
opened before the timer runs and closed behind a gate where nobody is inside, so
that no handler has native profiling on without it and none is in it when it is
closed. `UnwinderAssumption` says which failures it does not survive: an
`unw_init_local` that fails (`"context"`), and a missing function (`"symbol"`)
followed by a failed enable or a fork; TLC shows with each of them that the
property fails (section 6).

`RealTimeThreads_proofs` proves, for any set of threads, `ListExcluded`
(`ListExclusion`: the list is used by one context at a time) from `LockInv`: the
spinlock is taken exactly when somebody is inside, and he is alone, handlers on
top of a call of the same thread included. `BroadcastsComplete`
(`BroadcastComplete`) follows from it and `CastInv`: what the loop of the
broadcast has come past without a signal is at most what it has removed, because
a removal moves one thread behind the loop. It holds when the main thread alone
enables and disables (`Enablers \subseteq {Main}`); disabled from another thread,
`remove_threads` empties the list under the broadcast. The assumption is
`RealTimeAssumption`.

`StackWalk_proofs` proves, for every size of the buffer and every pair of
stacks: `WalkInBounds` (the walk stays in its `MAX_STACK_DEPTH-1` words),
`RecordInBuffer` (a record without a memory size fits the buffer), for which
`TypeOK` is inductive as it stands; what a sample contains,
`PythonFramesRecorded` (`PythonPrefix`) and `NativeFramesRecorded`
(`NativeComplete`), from `WalkInv`: the words are native frames and then Python
ones (`PythonTail`), the native ones ascend and are exactly those passed that
count (`NativeOrder`, `NativePhase`, `NativeDone`), and the walk ends early only
when the buffer is full (`Order`); and what the reader has of it,
`TraceReadAsWritten` (`ReadAsWritten`), which also needs that every native frame
has its 0 in front of it and nothing else has (`NativePairs`): `ReadBackwards` says
which word the reader finds at each place of the reversed trace, and as a line or
as an address. The assumption is `StackAssumption`.

`ProfileFile_proofs` proves, for any addresses, number of names, block size and
number of samples, whatever the lock does: `FileIsAppendedTo` (`AppendOnly`),
`TheFreedAreNamed` (`FreedAreNamed`) and `TheSampledAreNamed`
(`SampledAreNamed`). The invariant looks at the records in the file, in READY
buffers and in the block of names as sets. It promises nothing once a record was
torn (`Inv` is `TypeInv /\ (Whole => Right)`), and torn records stay. Until then,
whether or not the reading fails, the names of the freed are kept (`NameInv`); what
was sampled is unread, seen, or was in a buffer (`TakenInv`), and what was seen is
named when the reading has come to its end (`SeenInv`); and outside the reading the
offset is at the end, unless that has failed (`OffsetInv`), which is why the trailer
of an undisturbed `disable()` tears nothing. That the largest name of an id exists (`Largest`) takes the
well-founded order of finite sets. The assumption is `ProfileFileAssumption`.

`WinSampler_proofs` proves, for any number of sessions and writes,
`RecordsAreWhole` (`RecordsWhole`) and `OneSampleIsLate` (`OneLateSample`): the
mutex of the last session belongs to whoever writes under it (`MutexInv`), the
sampling thread of a session that began with it asleep uses that mutex and that
descriptor (`CleanInv`), so nobody writes between the pieces of a record
(`MidstInv`, `FileInv`), as long as every write is at the end of the file, where the
offset is but for the reading of `disable()` and what that has led to (`OffsetInv`);
and while a sample is under way none has come since sampling was stopped
(`LateInv`), wherever the offset is. `PutEffect` reduces a `_write` to a record that
begins or goes on.

`Addresses_proofs` is about the places where addresses are looked up: it extends
`Ranges`, `ElfFile` and `RangeTable`, whose specifications are `ElfSpec` and
`RTSpec` for that reason.

First, for every list of mappings, however long, and every address: `BoundsWritten` (`WrittenInBounds`: no bound is written outside the
array) and `IgnoresExactly` (`IgnoresTheMappings`), from `InductiveInvariant`.
The array is enlarged one write too late for an even cursor; that the cursor is
always odd when it matters is `Parity`. That bounds ascend strictly between
ranges and that what was collected is the union of the mappings (`RangesApart`,
`Collected`) is what makes the bisection right, with `Searched` for the interval
it has left. Assumed is that the lines of `/proc/self/maps` come in ascending
order, as the kernel writes them.

Second, for any number of modules and whatever fails while they are read:
`NothingStaysOpen` (`NothingLeaks`) and `DebugInfoIsUsed` (`DebugInfoUsed`), from
`ElfInv`. A descriptor that is not closed is that of the module being read or of the
program that waits for its first callback (`CloseInv`, `WaitInv`); a view nothing
points into is flagged as valid, so that `fail` finds it, and for each kind it
is fixed up to where that lasts (`ViewInv`, `Until`); the program is read first
and alone decides about failure (`FnInv`). `ElfFileAssumption` says that at least one
module is called back for and that no descriptor or function is NULL.

Third, for a vector of any length, any ranges and any address: `SortIsRight`
(`SortsTheVector`), `SortIsShallow` (`CallsHalve`, the comment of `sort.c:92` on the
stack depth) and `LookUpIsRight` (`FindsTheRange`), from `RTInv`. Two entries that are out of order are both in the
slice at work or both in a part that a waiting call has kept for later (`Ordered`);
the slice at work lies in the part the call has passed on, which is disjoint from the
part it has kept (`Nested`, `Halves`), so an exchange within the slice puts no other
pair out of order (`ShuffledOrdered`); and when a slice is divided, every pair across
the pivot is in order, by the loop's own invariant (`Parting`) and because the
comparison is a strict weak order (`GreaterIsAnOrder`). That no entry is lost or
doubled is a bijection per exchange (`SwappedTimes`). The search drops nothing that
has the address as long as no range that has it sorts before one that ends by it
(`Apart`, `Finding`); the ranges that have it are then next to each other
(`Contiguous`), so the loops after the search stop at the right one. Without `Apart`
the property fails (section 6). `RangeTableAssumption` says that addresses are
integers. That the sort ends is a liveness property and not proved; what it rests on
is: a position no slice has any more keeps its entry, and each call adds that of its
pivot (`PivotsStay`, an action property), so there are no more calls than entries,
and a call's loop ends at `size` (`Parting`).

`Analysis_proofs` is about what is made of what was recorded: it extends `Report`,
whose specification is `ReportSpec` for that reason, and `JitLog`.

First, for any number of profiles of any depth, with any addresses:
`TreesMatchTops` (`TreeMatchesTop`), `MarksAreOfProfiles` (`MarksAddUp`) and
`FlatTimesAddUp` (`FlatAddsUp`), from `ReportInv`. The counts of `generate_top`
and the topmost nodes of a function in the tree are the same number, that of the
profiles that have the function among the entries read so far (`SeenIn`,
`CallsOK`, `TopmostOK`); a function has as many marks as profiles ended in it so
far (`MarksOK`), since `addr` is the last entry with a node and is that of `cur`
(`AddrOK`); and no node has fewer samples than its children together, where
`cur` still lacks the profile that is in it (`SamplesOK`), so that no flat time is
negative. That the flat times add up follows from two partitions of the shown
nodes, by their own address and by that of their caller (`TotalByFiber`). The
lemmas about `Total` (`OneMoreUnit`, `TotalMonotone`, `TotalSplits`,
`TotalOfDifference`) replace the induction over the tree. The assumption is
`ReportAssumption`.

Second, for any sets of ids, descrs and addresses and for logs of any length:
`PointsAreFirst` (`PointIsFirst`), `LinksArePaired` (`LinksPaired`),
`GoodLogsAreReadable` (`GoodLogsReadable`) and `TagsAreAppendedOnce`, which says of
every source file that after a tag that reads back whole no other is appended
(`TaggedOnce` follows where no character is wide, `GoodLogsAreTaggedOnce`; with
wide ones it fails, section 6). The invariant is `ForestInv`: ids are distinct
and what points, addresses and links name is in the forest (`Distinct`,
`KnownInv`); a descr of the machine code is a point, at its first operation
(`FirstInv`); a link up names an operation of the parent with the descr of a link
down to the trace (`LinkInv`), as many ups as downs between any two traces
(`PairInv`, counted with `FiniteSetTheorems`). Each record is first reduced to one
of four effects on the forest (`Keeping`, `Starting`, `Writing`, `Linking`,
`StepCases`); then there is a lemma per effect. `FirstInv` is also why a good log
is read without an exception: the operation a counter follows has a point. The
assumption is `JitLogAssumption`.

**Only model-checked.** All liveness (`HandlerReturns`, `EveryoneReturns` of
`Session`, `ForwardedAgain` and `EveryoneReturns` of `RealTimeThreads`,
`CallsReturn`), which is beyond the prover.
`FramesOfTree` of `MCDwarf`: `SortSearch` and `Dwarf` are
recursive, and what a recursive definition computes needs an induction over data,
which the installed provers cannot instantiate.

## 5. Not modelled

* The front end, machine description, the resident set size, the trampoline (not
  built), `populate_frames.c` and the rest of the vendored code; the reasons are
  with the components in `PROJECT.json`.
* `vmprof_get_traceback`, the other user of libunwind, is called by PyPy only.
* `Session` has one caller of the API at a time, and pairs `start_sampling` with
  `stop_sampling`. An unmatched `start_sampling` takes the counter to -1, and
  the next handlers find it different from 0.
* `StackWalk` has no PyPy JIT frames and takes which native frames are ignored
  as part of its input (`Ranges` decides that for RPython; for CPython nothing in
  the repository calls it).
* `ProfileFile` has one session per file. A second one on the same descriptor
  is written after the first trailer, where the reader stops. The collector is
  taken to know every living code object (the code only "hope[s] to find most of them",
  `_vmprof.c`). The text of a name is not modelled: it is taken to be one that can be
encoded, and a buffer for it to be found in the end (`vmprof_unix.c:448-461` gives up
after many tries). Records are not cut short here, so that a reader which finds half a
record raises at any record instead.
* `WinSampler` has no PyPy loop over threads; other threads of the program only
  write names while `disable()` reads, they do not call the profiler then; and a thread state that is freed
  while the sampling thread holds on to it is undefined behaviour it does not follow.
* `ElfFile` has no lookup in the symbol tables (`backtrace_syminfo` has no
  caller), `Dwarf` no decoding of bytes, `JitLog` no machine code, arguments and
  times: `patch_memory` has no caller. `Report` has no layout.
* A `SIGSEGV` outside the handler's guarded section.

Hazards that no property covers and that `PROJECT.json` does not repeat:

* a function name longer than half the limit is cut and the line and the file
  name follow the cut, so a name may lack fields (`_vmprof.c:94`);
* `insert_thread` does not find a thread at index 0, which is then registered
  twice (`vmprof_common.c:232`); `RealTimeThreads` has the duplicate, and the
  broadcast stays complete with it, but nothing is stated of the count returned;
* one unreadable unit makes `build_address_map` drop every unit of its module
  (`dwarf.c:1462`), and the callback of the lookup may leave a name without a
  terminator (`symboltable.c:200`);
* a counter operation counts for whichever stage the trace is in
  (`objects.py:290`), and a patch at the end of a core dump is cut against two
  different ends (`objects.py:58`);
* on Windows the thread state is read without the GIL (`vmprof_win.c:176`);
* the registrar that finds no buffer retries half a million times; that this
  suffices is a matter of speed (`vmprof_mt.c:127`).

## 6. Where code and comments disagree

`realtime_spin`: insert and remove hold the spinlock with the signal unblocked; the
handler of the same thread spins on it for ever, which `vmprof_mt.h` tells never to
do. TLC finds the behaviour.

Others that the models show when a bound or a property is changed as said:

* `atfork_enable_timer` re-arms the timer in every process that forks, also in a
  forked child whose file is closed. If that child forks, its handler runs with
  descriptor -1 against `assert(fd >= 0)` (`Session` with `MaxForks = 2`).
* In memory mode two words follow the walk, which left room for one
  (`StackWalk`, `Len(Record) <= BufWords` without the condition on `rss`); when
  `/proc/self/status` cannot be read only one follows, and the reader still takes
  two (`reader.py:279-280`), so that it loses its place.
* A handler whose `unw_init_local` fails calls `vmp_native_disable` and closes
  libunwind under the handlers of other threads (`vmp_stack.c:421`); a library that
  lacks a function stays open (`vmp_stack.c:770`), and the next
  `vmp_native_enable` takes it for complete (`HandlerHasUnwinder` with `"context"` or
  `"symbol"` in `CanFail`).
* `encode_source_code_lines` writes the length of a line in characters and then its
  bytes (`objects.py:569-583`), so that a line with wider characters puts the reader
  out of step; uploaded again, the log gets a second tag if the first line was one
  (`TaggedOnce` with `Wide` not empty).
* A code object that dies while `disable()` reads the file makes the registry
  write at the reader's offset, over older records (the exception in `AppendOnly`).
  When the reading raises, the `finally` clause has the names in buffers and the
  trailer written where the reader stopped, possibly in the middle of the file.
* On Windows `stop_sampling` does not wait for the sampling thread, and `disable()`
  reads through the descriptor that thread writes to: a sample under way lands over
  older records, without any failure (`RecordsWhole` without `mixed`).
* When something fails after `elf_add_syminfo_data`, `elf_add` unmaps the string
  table, "we hold on to [it] permanently" (`elf.c:757`), that the symbols it has
  just published point into; a close that fails is tried a second time, on a
  descriptor that may be somebody else's by then (`elf.c:513-517`, `792-793`).
* A unit whose lines cannot be read is kept as such, so that the next lookup does
  not "try again to see if there is a better compilation unit" (`dwarf.c:2766`); one
  unit of a DWARF version not known drops its whole module.
* `bsearch` misses an address that only an outer range has, when it meets an inner
  range that ends by it: with [0, 3) and [0, 1) in a table, 1 is not found
  (`FindsTheRange` without `Apart`). The comments at `dwarf.c:828` and `2667` suppose
  that a range is always hit and that only which one is open.
* On Windows every enable replaces the mutex under a sample that is being written,
  and `start_sampling` or `sample_stack_now` without a session switch sampling on
  for the moment the next header is written (`RecordsWhole` without `clean`).

Read in the code, without a model of their own:

* No fork hook resets `signal_handler_entries`, so a child forked while another
  thread is inside a handler waits for ever in its next stop. After a failed
  `vmprof_disable` the lock stays at 2 and a second `vmprof.disable()` meets the
  assertion of `shutdown_concurrent_bufs`.
* `insert_thread` refuses a thread only if it is found above index 0, so the first
  thread of the list can be inserted twice.
* A sample whose buffer was READY but unwritten when `disable()` read the file may
  keep an unknown code id; with half a record at the end of the file the reader in
  `disable()` raises an error that its caller does not catch.
* The flat printer with `--no-native` counts what a native function calls twice
  (`src/README.md:155-158`), `function_profile` takes line numbers for
  functions (`stats.py:89`), `--prune_level 0` and `--indent 0` mean the default
  (`show.py:73-74`), and `<details>` is not closed in the HTML output (`show.py:173`).
* A unit without a line table is given the one at offset 0; `add_line` compares an
  address without the base of its module with one that has it; `strncpy` leaves a
  name that fills its array without an end (`symboltable.c:200`).
* The comment at `vmp_stack.c:617` says that mappings under site-packages are not
  considered; code and test consider them.
* On Windows `Sleep` takes milliseconds and is given the interval in microseconds
  times 1000 (`vmprof_win.c:172`); the handle of `OpenThread` is never closed.

## 7. Plan

What is left, in the order of what it adds:

1. Short writes in `ProfileFile`: that the reader in `disable()` meets half a record
   comes from `ProfBufs` there (`ReadFails` stands for it), and a cut name may pass
   for a whole one. Lengths of names.
2. A refinement between `Session` and `ProfileFile`: that the reading in
   `disable()` meets a file nobody else writes to is what `StopIsQuiet` says of the
   one and what the other takes for granted.
3. `Dwarf` on the tables of `RangeTable` instead of the functions of `SortSearch`,
   so that "found if covered" (in `FramesOfTree`) follows from `LookUpIsRight` for tables of any length;
   the other definitions of `Dwarf` would have to do without recursion too.
4. Proofs about the allocator of libbacktrace (`mmap.c`), should it be modelled.
