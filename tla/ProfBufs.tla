------------------------------ MODULE ProfBufs ------------------------------
(***************************************************************************)
(* The pool of sample buffers of src/src/vmprof_mt.c, and the two users of *)
(* it in src/src/vmprof_unix.c: the signal handler, which reserves, fills  *)
(* and commits (or cancels) one buffer, and                                *)
(* vmprof_register_virtual_function, which collects code names in the      *)
(* buffer it keeps attached to current_codes.                              *)
(*                                                                         *)
(* One step is one access to memory that contexts share: a read of         *)
(* profbuf_state, a compare-and-swap, a call to write().  A signal handler *)
(* may interrupt the normal code of its own thread between any two steps;  *)
(* the interrupted code then does not run until the handler returns.       *)
(*                                                                         *)
(* A record is what one buffer holds from reserve to commit; its content   *)
(* is abstracted to an identity and a number of chunks, so that write()    *)
(* may be cut short at any chunk.                                          *)
(***************************************************************************)
EXTENDS Integers, Sequences, FiniteSets

CONSTANTS
  NumBufs,     \* MAX_NUM_BUFFERS
  MaxSize,     \* chunks in a full buffer (SINGLE_BUF_SIZE)
  MaxRecords,  \* bound: how many records one session reserves
  Handlers,    \* one context per thread that can run sigprof_handler
  Coders,      \* one context per caller of vmprof_register_virtual_function
  Closer,      \* the context that runs vmprof_disable
  NoVictim,    \* "the handler's thread runs no modelled code"
  Victim       \* the normal code that shares a thread with a handler

ASSUME SizesAssumption == /\ NumBufs \in Nat \ {0}
                          /\ MaxSize \in Nat \ {0}
                          /\ MaxRecords \in Nat
ASSUME ContextsAssumption == /\ Handlers \cap Coders = {}
                             /\ Closer \notin Handlers \cup Coders
                             /\ Victim \in [Handlers -> Coders \cup {NoVictim}]
                             /\ NoVictim \notin Coders
ASSUME ThreadsAssumption == IsFiniteSet(Handlers) /\ IsFiniteSet(Coders)

VARIABLES
  state,          \* profbuf_state
  rec,            \* identity of the record in a buffer
  off,            \* data_offset, in chunks
  left,           \* data_size, in chunks
  mapped,         \* profbuf_all_buffers # NULL
  write_lock,     \* profbuf_write_lock
  pending,        \* profbuf_pending_write
  current_codes,  \* buffer attached to current_codes, or -1
  ignore,         \* signal_handler_ignore # 0
  pc, idx, wbuf,  \* where a context is, its loop index or buffer, the 'i' of
                  \* _write_single_ready_buffer
  has,            \* has_write_lock
  more,           \* the context still has its sample or code name to store
  nrec,           \* records reserved in this session
  committed,      \* ghost: sizes of the committed records
  file            \* what write() put in the file, one entry per call

pool   == <<state, rec, off, left, mapped>>
locals == <<pc, idx, wbuf, has, more>>
vars   == <<pool, write_lock, pending, current_codes, ignore, locals,
            nrec, committed, file>>

Buf == 0 .. NumBufs - 1
Ctx == Handlers \cup Coders \cup {Closer}

\* Labels of code that runs while the write lock is held.
Section == {"pending", "test", "write", "clear", "clearPending", "unlock"}
Labels  == Section \cup {"idle", "scan", "scanCAS", "resv", "resvCAS", "fill",
                         "commit", "commitCAS", "k_read", "k_take", "k_attach",
                         "flush", "shut", "loop", "unmap"}

\* The normal code of a thread stands still while a handler runs on top of it.
Runs(c) == \A h \in Handlers : Victim[h] = c => pc[h] = "idle"

Idle(S) == \A c \in S : pc[c] = "idle"

\* Contexts that are on their way to a record number: they count against the
\* bound MaxRecords.
Unnumbered == {c \in Ctx : pc[c] \notin {"idle", "flush", "shut", "loop", "unmap"}
                           /\ more[c]}

Goto(c, l) == pc' = [pc EXCEPT ![c] = l]

-----------------------------------------------------------------------------
Init ==
  /\ state = [b \in Buf |-> "UNUSED"]
  /\ rec = [b \in Buf |-> 0]
  /\ off = [b \in Buf |-> 0]
  /\ left = [b \in Buf |-> 0]
  /\ mapped = FALSE
  /\ write_lock = 2
  /\ pending = -1
  /\ current_codes = -1
  /\ ignore = TRUE
  /\ pc = [c \in Ctx |-> "idle"]
  /\ idx = [c \in Ctx |-> 0]
  /\ wbuf = [c \in Ctx |-> 0]
  /\ has = [c \in Ctx |-> FALSE]
  /\ more = [c \in Ctx |-> FALSE]
  /\ nrec = 0
  /\ committed = <<>>
  /\ file = <<>>

\* prepare_concurrent_bufs, called by vmprof_init with a new file, followed by
\* the signal_handler_ignore = 0 that ends vmprof_enable.
Prepare ==
  /\ ~mapped
  /\ Idle(Ctx)
  /\ mapped' = TRUE
  /\ state' = [b \in Buf |-> "UNUSED"]
  /\ write_lock' = 0
  /\ pending' = -1
  /\ ignore' = FALSE
  /\ rec' = [b \in Buf |-> 0]
  /\ off' = [b \in Buf |-> 0]
  /\ left' = [b \in Buf |-> 0]
  /\ nrec' = 0
  /\ committed' = <<>>
  /\ file' = <<>>
  /\ UNCHANGED <<current_codes, locals>>

-----------------------------------------------------------------------------
(* _write_single_ready_buffer(fd, wbuf[c]) *)

\* Mutant of Return: shutdown_concurrent_bufs with 'if' for its inner 'while'.
ReturnIf(c) ==
  /\ wbuf' = [wbuf EXCEPT ![c] = 0]
  /\ Goto(c, IF ~has[c] THEN "unlock" ELSE IF c = Closer THEN "loop" ELSE "scan")
  /\ idx' = IF has[c] THEN [idx EXCEPT ![c] = @ + 1] ELSE idx

\* Where the caller goes on: the loop of _write_ready_buffers (has), the end
\* of commit_buffer (~has), or the loop of shutdown_concurrent_bufs.  A local
\* variable that nobody reads any more goes back to 0, to save states.
Return(c) ==
  /\ wbuf' = [wbuf EXCEPT ![c] = 0]
  /\ Goto(c, IF ~has[c] THEN "unlock" ELSE IF c = Closer THEN "loop" ELSE "scan")
  /\ idx' = IF has[c] /\ c # Closer THEN [idx EXCEPT ![c] = @ + 1] ELSE idx

\* A result below 0 ends the loop of the caller; shutdown_concurrent_bufs
\* returns -1 at once.
ReturnError(c) ==
  /\ wbuf' = [wbuf EXCEPT ![c] = 0]
  /\ IF c = Closer /\ has[c]
     THEN Goto(c, "idle") /\ has' = [has EXCEPT ![c] = FALSE]
     ELSE Goto(c, "unlock") /\ UNCHANGED has

CheckPending(c) ==
  /\ pc[c] = "pending"
  /\ wbuf' = [wbuf EXCEPT ![c] = IF pending >= 0 THEN pending ELSE @]
  /\ Goto(c, "test")
  /\ UNCHANGED <<pool, write_lock, pending, current_codes, ignore, idx, has,
                 more, nrec, committed, file>>

\* Mutant of TestReady: the check that "used to be a race condition".
TestReadyDropped(c) ==
  /\ pc[c] = "test"
  /\ Goto(c, "write")
  /\ UNCHANGED <<pool, write_lock, pending, current_codes, ignore, idx, wbuf,
                 has, more, nrec, committed, file>>

TestReady(c) ==
  /\ pc[c] = "test"
  /\ IF state[wbuf[c]] = "READY" THEN Goto(c, "write") /\ UNCHANGED <<idx, wbuf>>
                                 ELSE Return(c)
  /\ UNCHANGED <<pool, write_lock, pending, current_codes, ignore, has, more,
                 nrec, committed, file>>

\* What one call to write() adds to the file: chunks from+1 .. upto of a record.
Chunk(b, k) == [id |-> rec[b], from |-> off[b], upto |-> off[b] + k,
                size |-> off[b] + left[b]]

WriteAll(c) ==
  /\ pc[c] = "write"
  /\ file' = Append(file, Chunk(wbuf[c], left[wbuf[c]]))
  /\ Goto(c, "clear")
  /\ UNCHANGED <<pool, write_lock, pending, current_codes, ignore, idx, wbuf,
                 has, more, nrec, committed>>

\* Mutant of WriteSome: data_offset is not moved.
WriteSomeAgain(c) ==
  /\ pc[c] = "write"
  /\ \E k \in 1 .. left[wbuf[c]] - 1 :
        /\ file' = Append(file, Chunk(wbuf[c], k))
        /\ left' = [left EXCEPT ![wbuf[c]] = @ - k]
  /\ pending' = wbuf[c]
  /\ Return(c)
  /\ UNCHANGED <<state, rec, off, mapped, write_lock, current_codes, ignore, has,
                 more, nrec, committed>>

WriteSome(c) ==
  /\ pc[c] = "write"
  /\ \E k \in 1 .. left[wbuf[c]] - 1 :
        /\ file' = Append(file, Chunk(wbuf[c], k))
        /\ off' = [off EXCEPT ![wbuf[c]] = @ + k]
        /\ left' = [left EXCEPT ![wbuf[c]] = @ - k]
  /\ pending' = wbuf[c]
  /\ Return(c)
  /\ UNCHANGED <<state, rec, mapped, write_lock, current_codes, ignore, has,
                 more, nrec, committed>>

WriteFailsDropped(c) ==
  /\ pc[c] = "write"
  /\ state' = [state EXCEPT ![wbuf[c]] = "UNUSED"]
  /\ pending' = -1
  /\ ReturnError(c)
  /\ UNCHANGED <<rec, off, left, mapped, write_lock, current_codes, ignore, idx,
                 more, nrec, committed, file>>

WriteFails(c) ==
  /\ pc[c] = "write"
  /\ pending' = wbuf[c]
  /\ ReturnError(c)
  /\ UNCHANGED <<pool, write_lock, current_codes, ignore, idx, more, nrec,
                 committed, file>>

\* The full write: first the buffer is released, then pending_write is reset.
SetUnused(c) ==
  /\ pc[c] = "clear"
  /\ state' = [state EXCEPT ![wbuf[c]] = "UNUSED"]
  /\ Goto(c, "clearPending")
  /\ UNCHANGED <<rec, off, left, mapped, write_lock, pending, current_codes,
                 ignore, idx, wbuf, has, more, nrec, committed, file>>

ResetPending(c) ==
  /\ pc[c] = "clearPending"
  /\ pending' = -1
  /\ Return(c)
  /\ UNCHANGED <<pool, write_lock, current_codes, ignore, has, more, nrec,
                 committed, file>>

-----------------------------------------------------------------------------
(* reserve_buffer, which begins with _write_ready_buffers *)

\* A signal arrives and the gate of vmprof_enter_signal is open.
HandlerBegin(h) ==
  /\ pc[h] = "idle"
  /\ ~ignore
  /\ Cardinality(Unnumbered) + nrec < MaxRecords
  /\ Goto(h, "scan")
  /\ idx' = [idx EXCEPT ![h] = 0]
  /\ more' = [more EXCEPT ![h] = TRUE]
  /\ UNCHANGED <<pool, write_lock, pending, current_codes, ignore, wbuf, has,
                 nrec, committed, file>>

\* One step of the loop that looks for buffers left READY by somebody else.
Scan(c) ==
  /\ pc[c] = "scan"
  /\ IF idx[c] = NumBufs
     THEN IF has[c] THEN Goto(c, "unlock") /\ UNCHANGED <<idx, wbuf>>
                    ELSE /\ Goto(c, "resv")
                         /\ idx' = [idx EXCEPT ![c] = 0]
                         /\ UNCHANGED wbuf
     ELSE IF state[idx[c]] = "READY"
     THEN /\ Goto(c, IF has[c] THEN "pending" ELSE "scanCAS")
          /\ wbuf' = [wbuf EXCEPT ![c] = idx[c]]
          /\ UNCHANGED idx
     ELSE /\ idx' = [idx EXCEPT ![c] = @ + 1]
          /\ UNCHANGED <<pc, wbuf>>
  /\ UNCHANGED <<pool, write_lock, pending, current_codes, ignore, has, more,
                 nrec, committed, file>>

\* Mutant of ScanLock: wait for the lock.
ScanLockSpin(c) ==
  /\ pc[c] = "scanCAS"
  /\ IF write_lock = 0
     THEN /\ write_lock' = 1
          /\ has' = [has EXCEPT ![c] = TRUE]
          /\ Goto(c, "pending")
          /\ UNCHANGED <<pool, pending, current_codes, ignore, idx, wbuf, more,
                         nrec, committed, file>>
     ELSE UNCHANGED vars

\* One attempt at the write lock; whoever holds it, the scan is given up.
ScanLock(c) ==
  /\ pc[c] = "scanCAS"
  /\ IF write_lock = 0
     THEN /\ write_lock' = 1
          /\ has' = [has EXCEPT ![c] = TRUE]
          /\ Goto(c, "pending")
          /\ UNCHANGED idx
     ELSE /\ Goto(c, "resv")
          /\ idx' = [idx EXCEPT ![c] = 0]
          /\ UNCHANGED <<write_lock, has>>
  /\ UNCHANGED <<pool, pending, current_codes, ignore, wbuf, more, nrec,
                 committed, file>>

\* All buffers are busy: the handler drops its sample; the registrar sleeps
\* and tries again, or gives up when its retries are used up.
NoBuffer(c) ==
  \/ Goto(c, "idle") /\ more' = [more EXCEPT ![c] = FALSE]
  \/ c \in Coders /\ Goto(c, "k_read") /\ UNCHANGED more

FindUnused(c) ==
  /\ pc[c] = "resv"
  /\ IF idx[c] = NumBufs
     THEN NoBuffer(c) /\ idx' = [idx EXCEPT ![c] = 0]
     ELSE IF state[idx[c]] = "UNUSED"
     THEN Goto(c, "resvCAS") /\ UNCHANGED <<idx, more>>
     ELSE idx' = [idx EXCEPT ![c] = @ + 1] /\ UNCHANGED <<pc, more>>
  /\ UNCHANGED <<pool, write_lock, pending, current_codes, ignore, wbuf, has,
                 nrec, committed, file>>

Reserve(c) ==
  /\ pc[c] = "resvCAS"
  /\ IF state[idx[c]] = "UNUSED"
     THEN /\ state' = [state EXCEPT ![idx[c]] = "FILLING"]
          /\ rec' = [rec EXCEPT ![idx[c]] = nrec + 1]
          /\ off' = [off EXCEPT ![idx[c]] = 0]
          /\ left' = [left EXCEPT ![idx[c]] = 0]
          /\ nrec' = nrec + 1
          /\ more' = [more EXCEPT ![c] = FALSE]
          /\ Goto(c, "fill")
          /\ UNCHANGED idx
     ELSE /\ idx' = [idx EXCEPT ![c] = @ + 1]
          /\ Goto(c, "resv")
          /\ UNCHANGED <<state, rec, off, left, nrec, more>>
  /\ UNCHANGED <<mapped, write_lock, pending, current_codes, ignore, wbuf, has,
                 committed, file>>

-----------------------------------------------------------------------------
(* The owner of a FILLING buffer *)

\* _vmprof_sample_stack: a stack of some depth, or nothing to record.
FillSample(h) ==
  /\ pc[h] = "fill"
  /\ \E n \in 1 .. MaxSize : left' = [left EXCEPT ![idx[h]] = n]
  /\ Goto(h, "commit")
  /\ UNCHANGED <<state, rec, off, mapped, write_lock, pending, current_codes,
                 ignore, idx, wbuf, has, more, nrec, committed, file>>

\* cancel_buffer
Cancel(h) ==
  /\ pc[h] = "fill"
  /\ state' = [state EXCEPT ![idx[h]] = "UNUSED"]
  /\ Goto(h, "idle")
  /\ idx' = [idx EXCEPT ![h] = 0]
  /\ UNCHANGED <<rec, off, left, mapped, write_lock, pending, current_codes,
                 ignore, wbuf, has, more, nrec, committed, file>>

\* commit_buffer: mark the buffer READY ...
Commit(c) ==
  /\ pc[c] = "commit"
  /\ state' = [state EXCEPT ![idx[c]] = "READY"]
  /\ committed' = [r \in DOMAIN committed \cup {rec[idx[c]]} |->
                     IF r = rec[idx[c]] THEN left[idx[c]] ELSE committed[r]]
  /\ Goto(c, "commitCAS")
  /\ UNCHANGED <<rec, off, left, mapped, write_lock, pending, current_codes,
                 ignore, idx, wbuf, has, more, nrec, file>>

\* Where commit_buffer returns to: vmprof_disable, vmprof_register_virtual_-
\* function with the name it came to store, or out.
AfterCommit(c) == IF c = Closer THEN "shut" ELSE IF more[c] THEN "scan" ELSE "idle"

\* Mutant of CommitLock: the lock is set without looking at it.
CommitLockBlind(c) ==
  /\ pc[c] = "commitCAS"
  /\ write_lock' = 1
  /\ wbuf' = [wbuf EXCEPT ![c] = idx[c]]
  /\ Goto(c, "pending")
  /\ UNCHANGED <<pool, pending, current_codes, ignore, idx, has, more, nrec,
                 committed, file>>

\* ... and try once to get the write lock.
CommitLock(c) ==
  /\ pc[c] = "commitCAS"
  /\ IF write_lock = 0
     THEN /\ write_lock' = 1
          /\ wbuf' = [wbuf EXCEPT ![c] = idx[c]]
          /\ Goto(c, "pending")
          /\ UNCHANGED idx
     ELSE /\ Goto(c, AfterCommit(c))
          /\ idx' = [idx EXCEPT ![c] = 0]
          /\ UNCHANGED <<write_lock, wbuf>>
  /\ UNCHANGED <<pool, pending, current_codes, ignore, has, more, nrec,
                 committed, file>>

Unlock(c) ==
  /\ pc[c] = "unlock"
  /\ write_lock' = 0
  /\ Goto(c, IF has[c] THEN "resv" ELSE AfterCommit(c))
  /\ has' = [has EXCEPT ![c] = FALSE]
  /\ idx' = [idx EXCEPT ![c] = 0]
  /\ UNCHANGED <<pool, pending, current_codes, ignore, wbuf, more, nrec,
                 committed, file>>

-----------------------------------------------------------------------------
(* vmprof_register_virtual_function *)

CoderBegin(m) ==
  /\ pc[m] = "idle"
  /\ mapped
  /\ pc[Closer] = "idle"
  /\ Cardinality(Unnumbered) + nrec < MaxRecords
  /\ Goto(m, "k_read")
  /\ more' = [more EXCEPT ![m] = TRUE]
  /\ UNCHANGED <<pool, write_lock, pending, current_codes, ignore, idx, wbuf,
                 has, nrec, committed, file>>

ReadCodes(m) ==
  /\ pc[m] = "k_read"
  /\ IF current_codes = -1
     THEN Goto(m, "scan") /\ idx' = [idx EXCEPT ![m] = 0]
     ELSE Goto(m, "k_take") /\ idx' = [idx EXCEPT ![m] = current_codes]
  /\ UNCHANGED <<pool, write_lock, pending, current_codes, ignore, wbuf, has,
                 more, nrec, committed, file>>

\* The compare-and-swap that detaches the block; if it has no room left it is
\* committed, and the name goes to a new block.
TakeCodes(m) ==
  /\ pc[m] = "k_take"
  /\ IF current_codes = idx[m]
     THEN /\ current_codes' = -1
          /\ UNCHANGED idx
          /\ IF left[idx[m]] = MaxSize
             THEN Goto(m, "commit") /\ UNCHANGED more
             ELSE Goto(m, "fill") /\ more' = [more EXCEPT ![m] = FALSE]
     ELSE /\ Goto(m, "scan")
          /\ idx' = [idx EXCEPT ![m] = 0]
          /\ UNCHANGED <<current_codes, more>>
  /\ UNCHANGED <<pool, write_lock, pending, ignore, wbuf, has, nrec, committed,
                 file>>

AppendName(m) ==
  /\ pc[m] = "fill"
  /\ left' = [left EXCEPT ![idx[m]] = @ + 1]
  /\ Goto(m, "k_attach")
  /\ UNCHANGED <<state, rec, off, mapped, write_lock, pending, current_codes,
                 ignore, idx, wbuf, has, more, nrec, committed, file>>

AttachCodes(m) ==
  /\ pc[m] = "k_attach"
  /\ IF current_codes = -1
     THEN /\ current_codes' = idx[m]
          /\ idx' = [idx EXCEPT ![m] = 0]
          /\ Goto(m, "idle")
     ELSE UNCHANGED <<current_codes, idx>> /\ Goto(m, "commit")
  /\ UNCHANGED <<pool, write_lock, pending, ignore, wbuf, has, more, nrec,
                 committed, file>>

-----------------------------------------------------------------------------
(* vmprof_disable: flush_codes, then shutdown_concurrent_bufs *)

\* vmprof_ignore_signals(1) has waited for the handlers, and the GIL keeps the
\* registrars out.
CloseBegin ==
  /\ pc[Closer] = "idle"
  /\ mapped
  /\ Idle(Ctx)
  /\ ignore' = TRUE
  /\ Goto(Closer, "flush")
  /\ UNCHANGED <<pool, write_lock, pending, current_codes, idx, wbuf, has, more,
                 nrec, committed, file>>

FlushCodes ==
  /\ pc[Closer] = "flush"
  /\ IF current_codes = -1
     THEN Goto(Closer, "shut") /\ UNCHANGED <<current_codes, idx>>
     ELSE /\ idx' = [idx EXCEPT ![Closer] = current_codes]
          /\ current_codes' = -1
          /\ Goto(Closer, "commit")
  /\ UNCHANGED <<pool, write_lock, pending, ignore, wbuf, has, more, nrec,
                 committed, file>>

ShutLock ==
  /\ pc[Closer] = "shut"
  /\ write_lock' = 2
  /\ has' = [has EXCEPT ![Closer] = TRUE]
  /\ idx' = [idx EXCEPT ![Closer] = 0]
  /\ Goto(Closer, "loop")
  /\ UNCHANGED <<pool, pending, current_codes, ignore, wbuf, more, nrec,
                 committed, file>>

ShutLoop ==
  /\ pc[Closer] = "loop"
  /\ IF idx[Closer] = NumBufs
     THEN Goto(Closer, "unmap") /\ UNCHANGED <<idx, wbuf>>
     ELSE IF state[idx[Closer]] = "READY"
     THEN /\ wbuf' = [wbuf EXCEPT ![Closer] = idx[Closer]]
          /\ Goto(Closer, "pending")
          /\ UNCHANGED idx
     ELSE /\ idx' = [idx EXCEPT ![Closer] = @ + 1]
          /\ UNCHANGED <<pc, wbuf>>
  /\ UNCHANGED <<pool, write_lock, pending, current_codes, ignore, has, more,
                 nrec, committed, file>>

\* unprepare_concurrent_bufs
Unmap ==
  /\ pc[Closer] = "unmap"
  /\ mapped' = FALSE
  /\ has' = [has EXCEPT ![Closer] = FALSE]
  /\ Goto(Closer, "idle")
  /\ UNCHANGED <<state, rec, off, left, write_lock, pending, current_codes,
                 ignore, idx, wbuf, more, nrec, committed, file>>

-----------------------------------------------------------------------------
WriteSingle(c) == \/ CheckPending(c) \/ TestReady(c)
                  \/ WriteAll(c) \/ WriteSome(c) \/ WriteFails(c)
                  \/ SetUnused(c) \/ ResetPending(c)

ReserveStep(c) == Scan(c) \/ ScanLock(c) \/ FindUnused(c) \/ Reserve(c)

CommitStep(c) == Commit(c) \/ CommitLock(c) \/ Unlock(c)

\* What a handler does once it runs, as opposed to the arrival of the signal.
HandlerStep(h) == WriteSingle(h) \/ ReserveStep(h) \/ FillSample(h)
                  \/ Cancel(h) \/ CommitStep(h)

CoderStep(m) == /\ Runs(m)
                /\ \/ WriteSingle(m) \/ ReserveStep(m) \/ CommitStep(m)
                   \/ ReadCodes(m) \/ TakeCodes(m) \/ AppendName(m)
                   \/ AttachCodes(m)

CloserStep == WriteSingle(Closer) \/ CommitStep(Closer)
              \/ FlushCodes \/ ShutLock \/ ShutLoop \/ Unmap

Next ==
  \/ Prepare
  \/ CloseBegin
  \/ CloserStep
  \/ \E h \in Handlers : HandlerBegin(h) \/ HandlerStep(h)
  \/ \E m \in Coders : CoderBegin(m) \/ CoderStep(m)

Spec == Init /\ [][Next]_vars
-----------------------------------------------------------------------------
(* Properties *)

PoolType ==
  /\ state \in [Buf -> {"UNUSED", "FILLING", "READY"}]
  /\ rec \in [Buf -> Nat]
  /\ off \in [Buf -> Nat]
  /\ left \in [Buf -> Nat]
SharedType ==
  /\ mapped \in BOOLEAN
  /\ ignore \in BOOLEAN
  /\ write_lock \in {0, 1, 2}
  /\ pending \in Buf \cup {-1}
  /\ current_codes \in Buf \cup {-1}
LocalType ==
  /\ pc \in [Ctx -> Labels]
  /\ idx \in [Ctx -> 0 .. NumBufs]
  /\ wbuf \in [Ctx -> Buf]
  /\ has \in [Ctx -> BOOLEAN]
  /\ more \in [Ctx -> BOOLEAN]
HistoryType ==
  /\ nrec \in Nat
  /\ \A r \in DOMAIN committed : r \in 1 .. nrec /\ committed[r] \in Nat
  /\ file \in Seq([id : Nat, from : Nat, upto : Nat, size : Nat])

\* The variables keep to their types: in particular no index leaves the pool,
\* data_offset and data_size never go below zero, and only records that were
\* reserved are committed.
TypeOK == PoolType /\ SharedType /\ LocalType /\ HistoryType

\* A context between the moment it gets the write lock and the moment it gives
\* it back: it alone may touch pending and the buffers that are READY.
InSection(c) == pc[c] \in Section \/ has[c]

\* "write() calls should not overlap; only one thread can be currently calling
\* it" (vmprof_mt.h), and shutdown_concurrent_bufs, which takes the lock without
\* a compare-and-swap, does not break in on anybody.
WriteExclusion ==
  \A c, d \in Ctx : InSection(c) /\ InSection(d) => c = d

\* The buffer a context fills, or is about to commit.
Holds(c, b) == pc[c] \in {"fill", "commit", "k_attach"} /\ idx[c] = b

\* A buffer handed out by reserve_buffer has one owner until it is committed or
\* cancelled - a context or current_codes -, is FILLING all that time (the
\* assertions of commit_buffer and cancel_buffer), and is never written out or
\* lost meanwhile.
OneOwner ==
  \A b \in Buf :
    /\ \A c, d \in Ctx : Holds(c, b) /\ Holds(d, b) => c = d
    /\ current_codes = b => \A c \in Ctx : ~Holds(c, b)
    /\ (current_codes = b \/ \E c \in Ctx : Holds(c, b)) <=> state[b] = "FILLING"
    /\ \A c \in Ctx : pc[c] \in {"write", "clear"} /\ wbuf[c] = b
                        => state[b] = "READY"

\* The assertion of _write_single_ready_buffer: a partially written buffer that
\* waits is still READY when the next holder of the lock turns to it.
PendingIsReady ==
  \A c \in Ctx : pc[c] = "pending" /\ pending >= 0 => state[pending] = "READY"

IsWhole(e) == e.upto = e.size

InFile(r) == \E k \in DOMAIN file : file[k].id = r /\ IsWhole(file[k])
InPool(r) == \E b \in Buf : state[b] = "READY" /\ rec[b] = r

\* Somebody has written all of record r but not yet released its buffer.
Releasing(r) == \E c \in Ctx : pc[c] = "clear" /\ rec[wbuf[c]] = r

\* A committed record is in a READY buffer or whole in the file, in one of the
\* two only, and at most once in the file; what was not committed never gets
\* there.
ExactlyOnce ==
  /\ \A r \in DOMAIN committed : IF InFile(r) THEN InPool(r) => Releasing(r)
                                              ELSE InPool(r)
  /\ \A k \in DOMAIN file : /\ file[k].id \in DOMAIN committed
                            /\ file[k].size = committed[file[k].id]
  /\ \A j, k \in DOMAIN file :
       file[j].id = file[k].id /\ IsWhole(file[j]) /\ IsWhole(file[k]) => j = k

\* When the buffers are gone everything committed is in the file, and no code
\* names wait in current_codes: the trailer of close_profile comes last.
ShutdownFlushes ==
  ~mapped => /\ \A r \in DOMAIN committed : InFile(r)
             /\ current_codes = -1
             /\ \A b \in Buf : state[b] = "UNUSED"

\* "It must be written in a wait-free style" (vmprof_mt.h): a handler returns
\* by its own steps alone, whatever the contexts it interrupted or raced with
\* hold, and even if none of them ever takes a step again.
HandlerReturns ==
  \A h \in Handlers : WF_vars(HandlerStep(h)) => (pc[h] # "idle" ~> pc[h] = "idle")

-----------------------------------------------------------------------------
(* The inductive invariant behind these properties *)

\* Buffer indices are in range where the code uses them as such.
IndexInv ==
  \A c \in Ctx :
    /\ pc[c] \in {"scanCAS", "resvCAS", "fill", "commit", "commitCAS", "k_take",
                  "k_attach"} => idx[c] \in Buf
    /\ pc[c] \in Section \ {"unlock"} /\ has[c] => idx[c] \in Buf

\* Where a context can be while has_write_lock is set.
HasInv ==
  \A c \in Ctx : has[c] => IF c = Closer
                           THEN pc[c] \in {"loop", "unmap"} \cup (Section \ {"unlock"})
                           ELSE pc[c] \in {"scan"} \cup Section

\* Which code belongs to vmprof_disable alone, and which it never runs.
PlaceInv ==
  /\ \A c \in Ctx : c # Closer => pc[c] \notin {"flush", "shut", "loop", "unmap"}
  /\ pc[Closer] \notin {"scan", "scanCAS", "resv", "resvCAS", "fill", "k_read",
                        "k_take", "k_attach"}
  /\ pc[Closer] \in {"loop", "unmap"} => has[Closer]

\* vmprof_disable runs alone, and past flush_codes no code names are left.
ClosingInv ==
  /\ pc[Closer] # "idle" => /\ ignore
                            /\ mapped
                            /\ \A c \in Ctx : c # Closer => pc[c] = "idle"
  /\ pc[Closer] \notin {"idle", "flush"} => current_codes = -1

\* Nothing goes on while the buffers are not mapped.
MappedInv ==
  /\ ignore \/ mapped
  /\ ~mapped => Idle(Ctx) /\ current_codes = -1

\* The lock and who is inside.
LockInv ==
  /\ write_lock = 0 => \A c \in Ctx : ~InSection(c)
  /\ \A c, d \in Ctx : InSection(c) /\ InSection(d) => c = d
  /\ has[Closer] => write_lock = 2

\* A buffer is held by one context or attached to current_codes, not both.
HolderInv ==
  \A b \in Buf : \A c \in Ctx :
    Holds(c, b) => current_codes # b /\ \A d \in Ctx : Holds(d, b) => c = d

\* What is held or attached is FILLING ...
FillingInv ==
  \A b \in Buf : current_codes = b \/ (\E c \in Ctx : Holds(c, b))
                   => state[b] = "FILLING"

\* ... and nothing else is.
LeakInv ==
  \A b \in Buf : state[b] = "FILLING"
                   => current_codes = b \/ \E c \in Ctx : Holds(c, b)

\* The record in a buffer has been reserved in this session.
RecordInv == \A b \in Buf : state[b] # "UNUSED" => rec[b] \in 1 .. nrec

\* The holder of the lock writes from a READY buffer.
ReadyInv ==
  \A c \in Ctx : pc[c] \in {"write", "clear"} => state[wbuf[c]] = "READY"

\* What pending_write says is true, but for the moment before it is reset.
PendingInv ==
  pending # -1 => \/ state[pending] = "READY"
                  \/ \E c \in Ctx : pc[c] = "clearPending"

\* A buffer that waits half-written is the one the holder of the lock works on.
WorkInv ==
  \A c \in Ctx : pc[c] \in {"test", "write", "clear"} /\ pending # -1
                   => wbuf[c] = pending

IInv == /\ TypeOK /\ IndexInv /\ HasInv /\ PlaceInv /\ ClosingInv /\ MappedInv
        /\ LockInv /\ HolderInv /\ FillingInv /\ LeakInv /\ RecordInv
        /\ ReadyInv /\ PendingInv /\ WorkInv

-----------------------------------------------------------------------------
(* The pool implements the abstract log: between the call of write() that ends *)
(* a record and the release of its buffer, the record no longer waits.         *)

Waiting == {r \in DOMAIN committed : ~InFile(r)}

Log == INSTANCE ProfLog WITH Record <- 1 .. MaxRecords, Size <- 1 .. MaxSize,
                             open <- mapped, accepted <- committed,
                             waiting <- Waiting

\* Every step of the pool - interleaved, interrupted, with short and failing
\* writes - is a step of the abstract log or invisible in it.
ImplementsLog == Log!LogSpec
=============================================================================
