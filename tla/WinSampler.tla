----------------------------- MODULE WinSampler -----------------------------
(***************************************************************************)
(* Sampling on Windows (src/src/vmprof_win.c): a thread of its own sleeps, *)
(* suspends the thread that runs Python, walks its stack, resumes it and   *)
(* writes the sample.  The program calls enable, disable, stop_sampling,   *)
(* start_sampling (sample_stack_now makes a pair of them) and has the      *)
(* names of dead code objects written.  The two share the flag `enabled',  *)
(* the descriptor with its offset, and a mutex that every enable creates   *)
(* anew.  disable() reads the file back through that descriptor, while a   *)
(* sample may still be written.  A write may be short.                     *)
(***************************************************************************)
EXTENDS Integers, Sequences

CONSTANTS
  MaxSessions,  \* bound: calls of enable
  MaxWrites     \* bound: samples and names in all, on top of what a session needs

ASSUME WinAssumption == MaxSessions \in Nat /\ MaxWrites \in Nat

VARIABLES
  enabled,      \* the switch of the sampling thread
  is_enabled,   \* vmprof_is_enabled
  thread_started,
  fd,           \* the session the descriptor belongs to; NoFile; Stdin
  write_mutex,  \* which mutex the global variable holds
  owner,        \* who holds that one
  suspended,    \* the program's thread is suspended
  pc,           \* where the program is
  record, mleft, \* which record it writes, or None, and what is left of it
  back,         \* where it goes on when that is written, or None
  spc, sleft,   \* the sampling thread
  smutex, sfd,  \* the mutex it waits for or holds, the descriptor it read
  session,      \* sessions so far
  file,         \* the records, or parts of one, in the file of the last session
  off,          \* the offset of its descriptor, in these pieces
  clean,        \* ghost: it began with the sampling thread asleep and off
  cut,          \* ghost: a failed write has cut a record of it off
  mixed,        \* ghost: disable() had the offset inside it for a write
  late,         \* ghost: samples begun in it since disable() stopped, -1 before
  writes        \* samples and names so far

flags   == <<enabled, is_enabled, thread_started>>
mutex   == <<write_mutex, owner>>
program == <<pc, record, back, mleft>>
sampler == <<spc, sleft, smutex, sfd>>
log     == <<file, off, mixed>>
ghosts  == <<session, clean>>
vars    == <<flags, fd, mutex, suspended, program, sampler, log, cut, late, ghosts, writes>>

NoFile == -1
Stdin  == 0
None   == "none"
Size   == 2        \* a record takes at least one write and at most two

Init ==
  /\ enabled = FALSE /\ is_enabled = FALSE /\ thread_started = FALSE
  /\ fd = NoFile
  /\ write_mutex = 0 /\ owner = "none"
  /\ suspended = FALSE
  /\ pc = "idle" /\ record = None /\ back = None /\ mleft = 0
  /\ spc = "sleep" /\ sleft = 0 /\ smutex = 0 /\ sfd = NoFile
  /\ session = 0
  /\ file = <<>> /\ off = 0
  /\ clean = FALSE /\ cut = FALSE /\ mixed = FALSE /\ late = -1
  /\ writes = 0

\* disable() reads, or a name is written in the middle of that.
Readings == {"detect", "rewind", "read"}
Reading  == pc \in Readings \/ back \in Readings

Torn == [kind |-> "torn", from |-> Size, upto |-> Size]   \* what is left of records

\* One _write to descriptor f, at its offset: n more words of a record that has
\* rest to go, over what is there.  Only the file of the last session is followed.
Put(f, kind, rest, n) ==
  LET from   == Size - rest
      goesOn == off > 0 /\ from > 0 /\ file[off].kind = kind /\ file[off].upto = from
      before == SubSeq(file, 1, off)
      after  == IF off = Len(file) THEN <<>>
                                   ELSE <<Torn>> \o SubSeq(file, off + 2, Len(file))
  IN  IF f # session THEN UNCHANGED log
      ELSE /\ file' = (IF goesOn THEN [before EXCEPT ![off].upto = from + n]
                       ELSE Append(before, [kind |-> kind, from |-> from, upto |-> from + n]))
                      \o after
           /\ off' = IF goesOn THEN off ELSE off + 1
           /\ mixed' = (mixed \/ (Reading /\ off < Len(file)))

\* A write that fails leaves what it has written so far.
Cut(f, rest) == cut' = (cut \/ (f = session /\ rest < Size))

-----------------------------------------------------------------------------
(* The program's thread; it holds the GIL in all of this. *)

\* What the program writes; the header stands for the time and the meta data that
\* follow it too.
Records == {"header", "name", "codes", "trailer"}

\* vmp_write_all is called for a record k, and has returned from it; the names
\* that disable() has written are followed by the trailer.
Asks(k, p) == pc' = "wait" /\ record' = k /\ back' = p
Returns == IF record = "codes" THEN Asks("trailer", "off")
                               ELSE pc' = back /\ record' = None /\ back' = None

\* enable_vmprof, vmprof_init: a new mutex, whoever holds the old one.
EnableBegin ==
  /\ pc = "idle" /\ ~suspended /\ ~is_enabled
  /\ session < MaxSessions
  /\ session' = session + 1
  /\ write_mutex' = session'
  /\ owner' = "none"
  /\ fd' = session'
  /\ file' = <<>> /\ off' = 0
  /\ cut' = FALSE /\ mixed' = FALSE /\ late' = -1
  /\ clean' = (spc = "sleep" /\ ~enabled)
  /\ Asks("header", "start")
  /\ UNCHANGED <<flags, mleft, suspended, sampler, writes>>

\* Mutant of MainAcquire: WaitForSingleObject is forgotten.
MainAcquireBlind ==
  /\ pc = "wait" /\ ~suspended
  /\ \/ fd = NoFile /\ Returns /\ UNCHANGED <<owner, mleft>>
     \/ /\ fd # NoFile
        /\ owner' = "program"
        /\ mleft' = Size
        /\ pc' = "write" /\ UNCHANGED <<record, back>>
  /\ UNCHANGED <<flags, fd, write_mutex, suspended, sampler, log, cut, late, ghosts, writes>>

\* vmp_write_all: the mutex, then the descriptor.
MainAcquire ==
  /\ pc = "wait" /\ ~suspended
  /\ owner = "none"
  /\ \/ fd = NoFile /\ Returns /\ UNCHANGED <<owner, mleft>>
     \/ /\ fd # NoFile
        /\ owner' = "program"
        /\ mleft' = Size
        /\ pc' = "write" /\ UNCHANGED <<record, back>>
  /\ UNCHANGED <<flags, fd, write_mutex, suspended, sampler, log, cut, late, ghosts, writes>>

MainWrite ==
  /\ pc = "write" /\ ~suspended
  /\ \E n \in 1 .. mleft :
       /\ Put(fd, record, mleft, n)
       /\ mleft' = mleft - n
       /\ IF n = mleft THEN owner' = "none" /\ Returns
                       ELSE UNCHANGED <<owner, pc, record, back>>
  /\ UNCHANGED <<flags, fd, write_mutex, suspended, sampler, cut, late, ghosts, writes>>

\* A failed write gives the mutex back; without a header there is no session,
\* and the descriptor becomes 0.
MainWriteFails ==
  /\ pc = "write" /\ ~suspended
  /\ owner' = "none"
  /\ Cut(fd, mleft)
  /\ IF record = "header" THEN /\ pc' = "idle" /\ record' = None /\ back' = None
                               /\ fd' = Stdin
                          ELSE Returns /\ UNCHANGED fd
  /\ UNCHANGED <<flags, write_mutex, suspended, mleft, sampler, log, late, ghosts, writes>>

\* vmprof_enable: a thread may be refused; then vmprof_set_enabled.
EnableEnd ==
  /\ pc = "start" /\ ~suspended
  /\ \/ /\ enabled' = TRUE /\ is_enabled' = TRUE /\ thread_started' = TRUE
     \/ ~thread_started /\ UNCHANGED flags
  /\ pc' = "idle"
  /\ UNCHANGED <<fd, mutex, suspended, record, back, mleft, sampler, log,
                 cut, late, ghosts, writes>>

\* stop_sampling and start_sampling: two states, no counter and no waiting.
IgnoreSignals ==
  /\ pc = "idle" /\ ~suspended
  /\ enabled' \in BOOLEAN
  /\ UNCHANGED <<is_enabled, thread_started, fd, mutex, suspended, program,
                 sampler, log, cut, late, ghosts, writes>>

\* A code object dies: vmprof_register_virtual_function.  Also while disable()
\* reads, which lets other threads have the GIL at every system call.
RegisterName ==
  /\ pc \in {"idle"} \cup Readings /\ ~suspended /\ is_enabled
  /\ writes < MaxWrites
  /\ writes' = writes + 1
  /\ Asks("name", pc)
  /\ UNCHANGED <<flags, fd, mutex, suspended, mleft, sampler, log, cut, late, ghosts>>

\* vmprof.disable(): stop_sampling, ...
DisableStop ==
  /\ pc = "idle" /\ ~suspended /\ is_enabled
  /\ enabled' = FALSE
  /\ pc' = "detect"
  /\ late' = 0
  /\ UNCHANGED <<is_enabled, thread_started, fd, mutex, suspended, record, back, mleft,
                 sampler, log, cut, ghosts, writes>>

ReadStep == UNCHANGED <<flags, fd, mutex, suspended, mleft, sampler, file, cut, late,
                        ghosts, writes>>

\* ... then the reader, from the start of the file, twice, ...
DetectFileSizes ==
  /\ pc \in {"detect", "rewind"} /\ ~suspended
  /\ off' = 0
  /\ pc' = IF pc = "detect" THEN "rewind" ELSE "read"
  /\ ReadStep /\ UNCHANGED <<record, back, mixed>>

\* ... record after record, a part of one with whatever follows it, ...
ReadRecord ==
  /\ pc = "read" /\ ~suspended /\ off < Len(file)
  /\ \E to \in off + 1 .. Len(file) :
       /\ file[off + 1].from = 0 /\ file[off + 1].upto = Size => to = off + 1
       /\ off' = to
  /\ ReadStep /\ UNCHANGED <<pc, record, back, mixed>>

\* ... to the end, or to something it takes for a trailer; it does not seek to the
\* end on Windows.  Then the names of the ids are written, ...
ReadEnd ==
  /\ pc = "read" /\ ~suspended
  /\ off < Len(file) => file[off + 1].from # 0
  /\ mixed' = (mixed \/ off < Len(file))
  /\ Asks("codes", None)
  /\ ReadStep /\ UNCHANGED off

\* ... unless an exception cuts the reading short: the finally clause is next.
ReadFails ==
  /\ pc \in Readings /\ ~suspended
  /\ mixed' = (mixed \/ off < Len(file))
  /\ Asks("trailer", "off")
  /\ ReadStep /\ UNCHANGED off

\* Last vmprof_disable: the trailer, the flag, the descriptor.
DisableOff ==
  /\ pc = "off" /\ ~suspended
  /\ enabled' = FALSE
  /\ pc' = "close"
  /\ UNCHANGED <<is_enabled, thread_started, fd, mutex, suspended, record, back, mleft,
                 sampler, log, cut, late, ghosts, writes>>

DisableClose ==
  /\ pc = "close" /\ ~suspended
  /\ fd' = NoFile
  /\ is_enabled' = FALSE
  /\ pc' = "idle"
  /\ UNCHANGED <<enabled, thread_started, mutex, suspended, record, back, mleft, sampler,
                 log, cut, late, ghosts, writes>>

-----------------------------------------------------------------------------
(* vmprof_mainloop, the sampling thread *)

Others == <<flags, fd, program, ghosts>>

\* Mutant of Wake: the flag is not looked at.
WakeAnyway ==
  /\ spc = "sleep" /\ thread_started
  /\ writes < MaxWrites
  /\ writes' = writes + 1
  /\ spc' = "suspend"
  /\ UNCHANGED <<Others, mutex, suspended, sleft, smutex, sfd, log, cut, late>>

\* After Sleep, with sampling on and a thread state to be found.
Wake ==
  /\ spc = "sleep" /\ thread_started
  /\ enabled
  /\ writes < MaxWrites
  /\ writes' = writes + 1
  /\ spc' = "suspend"
  /\ UNCHANGED <<Others, mutex, suspended, sleft, smutex, sfd, log, cut, late>>

\* vmprof_snapshot_thread: OpenThread and SuspendThread may fail.
Suspend ==
  /\ spc = "suspend"
  /\ \/ suspended' = TRUE /\ spc' = "walk"
     \/ spc' = "sleep" /\ UNCHANGED suspended
  /\ UNCHANGED <<Others, mutex, sleft, smutex, sfd, log, cut, late, writes>>

\* Mutant of Resume: the thread is resumed after its sample is written.
ResumeLater ==
  /\ spc = "walk"
  /\ spc' = "wait"
  /\ smutex' = write_mutex
  /\ UNCHANGED <<Others, mutex, suspended, sleft, sfd, log, cut, late, writes>>

\* The stack is walked and the thread resumed before vmp_write_all asks for the
\* mutex: the one that write_mutex names at that moment.
Resume ==
  /\ spc = "walk"
  /\ suspended' = FALSE
  /\ spc' = "wait"
  /\ smutex' = write_mutex
  /\ UNCHANGED <<Others, mutex, sleft, sfd, log, cut, late, writes>>

\* A mutex of an earlier session has no other user.
Acquire ==
  /\ spc = "wait"
  /\ IF smutex = write_mutex THEN owner = "none" /\ owner' = "sampler"
                             ELSE UNCHANGED owner
  /\ sfd' = fd
  /\ sleft' = Size
  /\ spc' = "write"
  /\ UNCHANGED <<Others, write_mutex, suspended, smutex, log, cut, late, writes>>

\* ReleaseMutex(write_mutex) fails when that is another one by now.
Release == IF smutex = write_mutex THEN owner' = "none" ELSE UNCHANGED owner

SampleDone == /\ spc' = "sleep"
              /\ Release
              /\ suspended' = FALSE   \* already so, but for ResumeLater

\* No descriptor, or a write that fails.
WriteFails ==
  /\ spc = "write"
  /\ IF sfd = NoFile THEN UNCHANGED cut ELSE Cut(sfd, sleft)
  /\ SampleDone
  /\ UNCHANGED <<Others, write_mutex, sleft, smutex, sfd, log, late, writes>>

Write ==
  /\ spc = "write"
  /\ sfd # NoFile
  /\ \E n \in 1 .. sleft :
       /\ Put(sfd, "sample", sleft, n)
       /\ sleft' = sleft - n
       /\ IF n = sleft THEN SampleDone ELSE UNCHANGED <<spc, owner, suspended>>
  /\ late' = IF late >= 0 /\ sfd = session /\ sleft = Size THEN late + 1 ELSE late
  /\ UNCHANGED <<Others, write_mutex, smutex, sfd, cut, writes>>

-----------------------------------------------------------------------------
CallStep == \/ EnableEnd \/ DetectFileSizes \/ ReadRecord \/ ReadEnd \/ ReadFails
            \/ DisableOff \/ DisableClose
            \/ MainAcquire \/ MainWrite \/ MainWriteFails

SamplerStep == Suspend \/ Resume \/ Acquire \/ WriteFails \/ Write

Next == \/ EnableBegin \/ IgnoreSignals \/ RegisterName \/ DisableStop \/ CallStep
        \/ Wake \/ SamplerStep

Spec == Init /\ [][Next]_vars

\* Both threads are scheduled; the mutex goes to the program if it is free again
\* and again, the sampling thread sleeping between two samples.
FairSpec == /\ Spec
            /\ WF_vars(CallStep) /\ WF_vars(SamplerStep)
            /\ SF_vars(MainAcquire)

-----------------------------------------------------------------------------
(* Properties *)

\* The file of a session begins with its header and every record is in one
\* piece, although the program and the sampling thread both write (the mutex of
\* vmp_write_all) and a write may be short.  Not so when a write fails, or in a
\* session that begins while a sample of the one before is under way or while
\* start_sampling has switched sampling on without one: that sample may use the
\* old mutex and the new file.  And not so when something is written while
\* disable() has the offset inside the file: a late sample or a name while it
\* reads, the trailer when the reading has failed half-way.
RecordsWhole ==
  clean /\ ~cut /\ ~mixed => \A i \in DOMAIN file :
                               /\ file[i].from = 0
                               /\ i < Len(file) => file[i].upto = Size
                               /\ file[i].kind = "header" <=> i = 1

\* disable() does not wait for the sampling thread: one sample may be under way
\* when it stops sampling and get into the file while that is read, or after the
\* trailer, or not at all, but never a second one.
OneLateSample == clean => late <= 1

\* Every call returns: the program is never left suspended, the sampling thread
\* never waits for the mutex while it keeps its holder suspended, and the reader
\* of disable() comes to an end although the file grows.
CallsReturn == pc # "idle" ~> pc = "idle"
=============================================================================
