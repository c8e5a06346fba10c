--------------------------- MODULE ProfBufs_proofs ---------------------------
(***************************************************************************)
(* Proofs about ProfBufs for any number of buffers, handlers, registrars   *)
(* and records.  IInv of ProfBufs is inductive: there is one lemma for each *)
(* of its parts, with one step for each action, and the safety properties  *)
(* follow from it.  The second half shows that ProfBufs implements         *)
(* ProfLog, and what that rests on: every committed record gets into the   *)
(* file once and in one piece, and all of them do before the buffers go.   *)
(***************************************************************************)
EXTENDS ProfBufs, FiniteSetTheorems, TLAPS

\* The actions without the structure of Next, for the case analyses below.
Step(c) ==
  \/ CheckPending(c)
  \/ TestReady(c)
  \/ WriteAll(c)
  \/ WriteSome(c)
  \/ WriteFails(c)
  \/ SetUnused(c)
  \/ ResetPending(c)
  \/ Scan(c)
  \/ ScanLock(c)
  \/ FindUnused(c)
  \/ Reserve(c)
  \/ Commit(c)
  \/ CommitLock(c)
  \/ Unlock(c)
  \/ c \in Handlers /\ HandlerBegin(c)
  \/ c \in Handlers /\ FillSample(c)
  \/ c \in Handlers /\ Cancel(c)
  \/ c \in Coders /\ CoderBegin(c)
  \/ c \in Coders /\ ReadCodes(c)
  \/ c \in Coders /\ TakeCodes(c)
  \/ c \in Coders /\ AppendName(c)
  \/ c \in Coders /\ AttachCodes(c)
  \/ Prepare
  \/ CloseBegin
  \/ FlushCodes
  \/ ShutLock
  \/ ShutLoop
  \/ Unmap

\* vmprof_disable runs in a context of its own.
LEMMA ContextFacts == /\ Closer \in Ctx
                      /\ \A d \in Handlers : d \in Ctx /\ d # Closer
                      /\ \A d \in Coders : d \in Ctx /\ d # Closer
BY ContextsAssumption DEF Ctx

\* The buffers keep their type: a short write never takes more than there is.
LEMMA PoolStep ==
  ASSUME TypeOK, IndexInv, NEW c \in Ctx, Step(c)
  PROVE  PoolType'
<1> USE DEF TypeOK, PoolType, pool
<1>1. CASE \/ CheckPending(c) \/ TestReady(c) \/ WriteAll(c) \/ WriteFails(c)
           \/ ResetPending(c) \/ Scan(c) \/ ScanLock(c) \/ FindUnused(c)
           \/ CommitLock(c) \/ Unlock(c)
           \/ (c \in Handlers /\ HandlerBegin(c))
           \/ (c \in Coders /\ CoderBegin(c))
           \/ (c \in Coders /\ ReadCodes(c))
           \/ (c \in Coders /\ TakeCodes(c))
           \/ (c \in Coders /\ AttachCodes(c)) \/ CloseBegin \/ FlushCodes
           \/ ShutLock \/ ShutLoop \/ Unmap
  BY ContextFacts, <1>1 DEF CheckPending, TestReady, Return, WriteAll, Chunk,
              WriteFails, ReturnError, ResetPending, Scan, ScanLock,
              FindUnused, NoBuffer, CommitLock, AfterCommit, Unlock,
              HandlerBegin, CoderBegin, ReadCodes, TakeCodes,
              AttachCodes, CloseBegin, FlushCodes, ShutLock, ShutLoop,
              Unmap
<1>2. CASE SetUnused(c)
  BY ContextFacts, <1>2 DEF SetUnused
<1>3. CASE WriteSome(c)
  <2>1. PICK k \in 1 .. left[wbuf[c]] - 1 :
              /\ off' = [off EXCEPT ![wbuf[c]] = @ + k]
              /\ left' = [left EXCEPT ![wbuf[c]] = @ - k]
    BY <1>3 DEF WriteSome, Return, Chunk
  <2>2. wbuf[c] \in Buf /\ UNCHANGED <<state, rec>>
    BY <1>3 DEF WriteSome, Return, Chunk, LocalType
  <2>q. QED BY <2>1, <2>2
<1>4. CASE Reserve(c)
  <2>1. nrec + 1 \in Nat
    BY DEF HistoryType
  <2>q. QED BY <2>1, <1>4 DEF Reserve
<1>5. CASE \/ (c \in Handlers /\ Cancel(c)) \/ Commit(c)
  BY ContextFacts, <1>5 DEF Cancel, Commit
<1>6. CASE c \in Handlers /\ FillSample(c)
  <2>1. PICK n \in 1 .. MaxSize : left' = [left EXCEPT ![idx[c]] = n]
    BY <1>6 DEF FillSample
  <2>2. UNCHANGED <<state, rec, off>>
    BY <1>6 DEF FillSample
  <2>3. n \in Nat
    BY SizesAssumption
  <2>q. QED BY <2>1, <2>2, <2>3
<1>7. CASE c \in Coders /\ AppendName(c)
  <2>1. idx[c] \in Buf
    BY ContextFacts, <1>7 DEF AppendName, IndexInv
  <2>2. left' = [left EXCEPT ![idx[c]] = left[idx[c]] + 1] /\ UNCHANGED <<state,
        rec, off>>
    BY <1>7 DEF AppendName
  <2>q. QED BY <2>1, <2>2
<1>8. CASE Prepare
  BY ContextFacts, <1>8 DEF Prepare
<1>q. QED BY <1>1, <1>2, <1>3, <1>4, <1>5, <1>6, <1>7, <1>8 DEF Step

\* The shared scalars keep their type.
LEMMA SharedStep ==
  ASSUME TypeOK, IndexInv, NEW c \in Ctx, Step(c)
  PROVE  SharedType'
<1> USE SizesAssumption DEF TypeOK, PoolType, SharedType, LocalType, IndexInv,
    pool, Buf
<1>1. CASE \/ TestReady(c) \/ WriteAll(c) \/ SetUnused(c) \/ Scan(c)
           \/ FindUnused(c) \/ Reserve(c) \/ Commit(c)
           \/ (c \in Handlers /\ HandlerBegin(c))
           \/ (c \in Handlers /\ FillSample(c))
           \/ (c \in Handlers /\ Cancel(c))
           \/ (c \in Coders /\ CoderBegin(c))
           \/ (c \in Coders /\ ReadCodes(c))
           \/ (c \in Coders /\ AppendName(c)) \/ ShutLoop
  BY ContextFacts, <1>1 DEF TestReady, Return, WriteAll, Chunk, SetUnused,
     Scan,
              FindUnused, NoBuffer, Reserve, Commit, HandlerBegin,
              FillSample, Cancel, CoderBegin, ReadCodes, AppendName,
              ShutLoop
<1>2. CASE CheckPending(c)
  BY ContextFacts, <1>2 DEF CheckPending
<1>3. CASE WriteSome(c)
  BY ContextFacts, <1>3 DEF WriteSome, Return, Chunk
<1>4. CASE WriteFails(c)
  BY ContextFacts, <1>4 DEF WriteFails, ReturnError
<1>5. CASE ResetPending(c)
  BY ContextFacts, <1>5 DEF ResetPending, Return
<1>6. CASE ScanLock(c)
  BY ContextFacts, <1>6 DEF ScanLock
<1>7. CASE \/ CommitLock(c) \/ Unlock(c)
  BY ContextFacts, <1>7 DEF CommitLock, AfterCommit, Unlock
<1>8. CASE \/ (c \in Coders /\ TakeCodes(c))
           \/ (c \in Coders /\ AttachCodes(c))
  BY ContextFacts, <1>8 DEF TakeCodes, AttachCodes
<1>9. CASE \/ Prepare \/ CloseBegin \/ FlushCodes \/ ShutLock \/ Unmap
  BY ContextFacts, <1>9 DEF Prepare, CloseBegin, FlushCodes, ShutLock, Unmap
<1>q. QED BY <1>1, <1>2, <1>3, <1>4, <1>5, <1>6, <1>7, <1>8, <1>9 DEF Step

\* The locals keep their type: no loop index runs past the pool.
LEMMA LocalStep ==
  ASSUME TypeOK, IndexInv, NEW c \in Ctx, Step(c)
  PROVE  LocalType'
<1> USE SizesAssumption DEF TypeOK, LocalType, Labels, Section, Goto, locals
<1>1. CASE \/ WriteAll(c) \/ SetUnused(c)
  BY ContextFacts, <1>1 DEF WriteAll, Chunk, SetUnused
<1>2. CASE CheckPending(c)
  BY <1>2 DEF CheckPending, SharedType, Buf
<1>3. CASE TestReady(c)
  <2>1. has[c] => idx[c] \in 0 .. NumBufs - 1
    BY <1>3 DEF TestReady, Return, IndexInv, Buf
  <2>2. 0 \in Buf
    BY DEF Buf
  <2>3. CASE Goto(c, "write") /\ UNCHANGED <<idx, wbuf, has, more>>
    BY <2>3
  <2>4. CASE Return(c) /\ UNCHANGED <<has, more>>
    BY ContextFacts, <2>1, <2>2, <2>4 DEF Return
  <2>q. QED BY <2>3, <2>4, <1>3 DEF TestReady
<1>4. CASE WriteSome(c)
  <2>1. has[c] => idx[c] \in 0 .. NumBufs - 1
    BY <1>4 DEF WriteSome, Return, Chunk, IndexInv, Buf
  <2>2. 0 \in Buf
    BY DEF Buf
  <2>3. Return(c) /\ UNCHANGED <<has, more>>
    BY <1>4 DEF WriteSome, Return, Chunk
  <2>q. QED BY ContextFacts, <2>1, <2>2, <2>3 DEF Return
<1>5. CASE WriteFails(c)
  <2>1. has[c] => idx[c] \in 0 .. NumBufs - 1
    BY <1>5 DEF WriteFails, ReturnError, IndexInv, Buf
  <2>2. 0 \in Buf
    BY DEF Buf
  <2>3. ReturnError(c) /\ UNCHANGED <<idx, more>>
    BY <1>5 DEF WriteFails, ReturnError
  <2>q. QED BY ContextFacts, <2>1, <2>2, <2>3 DEF ReturnError
<1>6. CASE ResetPending(c)
  <2>1. has[c] => idx[c] \in 0 .. NumBufs - 1
    BY <1>6 DEF ResetPending, Return, IndexInv, Buf
  <2>2. 0 \in Buf
    BY DEF Buf
  <2>3. Return(c) /\ UNCHANGED <<has, more>>
    BY <1>6 DEF ResetPending, Return
  <2>q. QED BY ContextFacts, <2>1, <2>2, <2>3 DEF Return
<1>7. CASE c \in Handlers /\ HandlerBegin(c)
  BY ContextFacts, <1>7 DEF HandlerBegin
<1>8. CASE Scan(c)
  BY ContextFacts, <1>8 DEF Scan, Buf
<1>9. CASE ScanLock(c)
  <2>1. CASE write_lock = 0
    BY ContextFacts, <2>1, <1>9 DEF ScanLock
  <2>2. CASE ~(write_lock = 0)
    BY ContextFacts, <2>2, <1>9 DEF ScanLock
  <2>q. QED BY <2>1, <2>2
<1>10. CASE FindUnused(c)
  <2>1. CASE idx[c] = NumBufs
    <3>1. NoBuffer(c) /\ idx' = [idx EXCEPT ![c] = 0] /\ UNCHANGED <<wbuf,
          has>>
      BY <2>1, <1>10 DEF FindUnused
    <3>2. CASE Goto(c, "idle") /\ more' = [more EXCEPT ![c] = FALSE]
      BY <3>1, <3>2
    <3>3. CASE Goto(c, "k_read") /\ UNCHANGED more
      BY <3>1, <3>3
    <3>q. QED BY <3>1, <3>2, <3>3 DEF NoBuffer
  <2>2. CASE idx[c] # NumBufs
    BY ContextFacts, <2>2, <1>10 DEF FindUnused, NoBuffer
  <2>q. QED BY <2>1, <2>2
<1>11. CASE Reserve(c)
  <2>1. idx[c] \in 0 .. NumBufs - 1
    BY <1>11 DEF Reserve, IndexInv, Buf
  <2>2. CASE state[idx[c]] = "UNUSED"
    BY <2>1, <2>2, <1>11 DEF Reserve
  <2>3. CASE state[idx[c]] # "UNUSED"
    BY <2>1, <2>3, <1>11 DEF Reserve
  <2>q. QED BY <2>2, <2>3
<1>12. CASE c \in Handlers /\ Cancel(c)
  BY ContextFacts, <1>12 DEF Cancel
<1>13. CASE c \in Handlers /\ FillSample(c)
  BY ContextFacts, <1>13 DEF FillSample
<1>14. CASE Commit(c)
  BY ContextFacts, <1>14 DEF Commit
<1>15. CASE CommitLock(c)
  BY ContextFacts, <1>15 DEF CommitLock, AfterCommit, IndexInv
<1>16. CASE Unlock(c)
  BY ContextFacts, <1>16 DEF Unlock, AfterCommit
<1>17. CASE c \in Coders /\ CoderBegin(c)
  BY ContextFacts, <1>17 DEF CoderBegin
<1>18. CASE c \in Coders /\ ReadCodes(c)
  BY ContextFacts, <1>18 DEF ReadCodes, SharedType, Buf
<1>19. CASE c \in Coders /\ TakeCodes(c)
  <2>1. CASE current_codes = idx[c]
    BY ContextFacts, <2>1, <1>19 DEF TakeCodes
  <2>2. CASE ~(current_codes = idx[c])
    BY ContextFacts, <2>2, <1>19 DEF TakeCodes
  <2>q. QED BY <2>1, <2>2
<1>20. CASE c \in Coders /\ AppendName(c)
  BY ContextFacts, <1>20 DEF AppendName
<1>21. CASE c \in Coders /\ AttachCodes(c)
  BY ContextFacts, <1>21 DEF AttachCodes
<1>22. CASE Prepare
  BY ContextFacts, <1>22 DEF Prepare
<1>23. CASE CloseBegin
  BY ContextFacts, <1>23 DEF CloseBegin
<1>24. CASE FlushCodes
  BY ContextFacts, <1>24 DEF FlushCodes, SharedType, Buf
<1>25. CASE ShutLock
  BY ContextFacts, <1>25 DEF ShutLock
<1>26. CASE ShutLoop
  BY ContextFacts, <1>26 DEF ShutLoop, Buf
<1>27. CASE Unmap
  BY ContextFacts, <1>27 DEF Unmap
<1>q. QED BY <1>1, <1>2, <1>3, <1>4, <1>5, <1>6, <1>7, <1>8, <1>9, <1>10,
             <1>11, <1>12, <1>13, <1>14, <1>15, <1>16, <1>17, <1>18, <1>19,
             <1>20, <1>21, <1>22, <1>23, <1>24, <1>25, <1>26, <1>27 DEF Step

\* Whoever uses an index as a buffer has one below NumBufs.
LEMMA IndexStep ==
  ASSUME TypeOK, IndexInv, NEW c \in Ctx, Step(c)
  PROVE  IndexInv'
<1> USE SizesAssumption DEF TypeOK, SharedType, LocalType, IndexInv, Buf,
    Section, Goto, locals
<1>1. CASE \/ CheckPending(c) \/ TestReady(c) \/ WriteAll(c) \/ WriteSome(c)
           \/ WriteFails(c) \/ SetUnused(c) \/ ResetPending(c)
  BY ContextFacts, <1>1 DEF CheckPending, TestReady, Return, WriteAll, Chunk,
              WriteSome, WriteFails, ReturnError, SetUnused,
              ResetPending
<1>2. CASE \/ (c \in Handlers /\ HandlerBegin(c)) \/ Scan(c) \/ ScanLock(c)
           \/ FindUnused(c) \/ Reserve(c)
  BY ContextFacts, <1>2 DEF HandlerBegin, Scan, ScanLock, FindUnused, NoBuffer,
              Reserve
<1>3. CASE \/ (c \in Handlers /\ FillSample(c))
           \/ (c \in Handlers /\ Cancel(c)) \/ Commit(c) \/ CommitLock(c)
           \/ Unlock(c)
  BY ContextFacts, <1>3 DEF FillSample, Cancel, Commit, CommitLock,
     AfterCommit,
              Unlock
<1>4. CASE \/ (c \in Coders /\ CoderBegin(c))
           \/ (c \in Coders /\ ReadCodes(c))
           \/ (c \in Coders /\ TakeCodes(c))
           \/ (c \in Coders /\ AppendName(c))
           \/ (c \in Coders /\ AttachCodes(c))
  BY ContextFacts, <1>4 DEF CoderBegin, ReadCodes, TakeCodes, AppendName,
     AttachCodes
<1>5. CASE \/ CloseBegin \/ FlushCodes \/ ShutLock \/ ShutLoop \/ Unmap
  BY ContextFacts, <1>5 DEF CloseBegin, FlushCodes, ShutLock, ShutLoop, Unmap
<1>6. CASE Prepare
  BY ContextFacts, <1>6 DEF Prepare
<1>q. QED BY <1>1, <1>2, <1>3, <1>4, <1>5, <1>6 DEF Step

\* The history keeps its type; what is committed was reserved.
LEMMA HistoryStep ==
  ASSUME TypeOK, IndexInv, FillingInv, RecordInv, NEW c \in Ctx, Step(c)
  PROVE  HistoryType'
<1> USE DEF TypeOK, HistoryType, pool
<1>1. CASE \/ CheckPending(c) \/ TestReady(c) \/ WriteFails(c)
           \/ SetUnused(c) \/ ResetPending(c) \/ Scan(c) \/ ScanLock(c)
           \/ FindUnused(c) \/ CommitLock(c) \/ Unlock(c)
           \/ (c \in Handlers /\ HandlerBegin(c))
           \/ (c \in Handlers /\ FillSample(c))
           \/ (c \in Handlers /\ Cancel(c))
           \/ (c \in Coders /\ CoderBegin(c))
           \/ (c \in Coders /\ ReadCodes(c))
           \/ (c \in Coders /\ TakeCodes(c))
           \/ (c \in Coders /\ AppendName(c))
           \/ (c \in Coders /\ AttachCodes(c)) \/ CloseBegin \/ FlushCodes
           \/ ShutLock \/ ShutLoop \/ Unmap
  BY ContextFacts, <1>1 DEF CheckPending, TestReady, Return, WriteFails,
     ReturnError,
              SetUnused, ResetPending, Scan, ScanLock, FindUnused,
              NoBuffer, CommitLock, AfterCommit, Unlock, HandlerBegin,
              FillSample, Cancel, CoderBegin, ReadCodes, TakeCodes,
              AppendName, AttachCodes, CloseBegin, FlushCodes,
              ShutLock, ShutLoop, Unmap
<1>2. CASE WriteAll(c)
  <2>1. wbuf[c] \in Buf
    BY DEF LocalType
  <2>2. Chunk(wbuf[c], left[wbuf[c]]) \in [id : Nat, from : Nat, upto : Nat,
        size : Nat]
    BY <2>1 DEF Chunk, PoolType
  <2>q. QED BY <2>2, <1>2 DEF WriteAll, Chunk
<1>3. CASE WriteSome(c)
  <2>1. wbuf[c] \in Buf
    BY DEF LocalType
  <2>2. PICK k \in 1 .. left[wbuf[c]] - 1 : file' = Append(file,
        Chunk(wbuf[c], k))
    BY <1>3 DEF WriteSome
  <2>3. Chunk(wbuf[c], k) \in [id : Nat, from : Nat, upto : Nat, size : Nat]
    BY <2>1 DEF Chunk, PoolType
  <2>4. UNCHANGED <<nrec, committed>>
    BY <1>3 DEF WriteSome
  <2>q. QED BY <2>2, <2>3, <2>4
<1>4. CASE Reserve(c)
  <2>1. \A r \in 1 .. nrec : r \in 1 .. nrec + 1
    OBVIOUS
  <2>q. QED BY <2>1, <1>4 DEF Reserve
<1>5. CASE Commit(c)
  <2>1. idx[c] \in Buf /\ state[idx[c]] = "FILLING"
    BY <1>5 DEF Commit, IndexInv, FillingInv, Holds
  <2>2. rec[idx[c]] \in 1 .. nrec /\ left[idx[c]] \in Nat
    BY <2>1 DEF RecordInv, PoolType
  <2>q. QED BY <2>2, <1>5 DEF Commit
<1>6. CASE Prepare
  BY ContextFacts, <1>6 DEF Prepare
<1>q. QED BY <1>1, <1>2, <1>3, <1>4, <1>5, <1>6 DEF Step

\* has_write_lock is set only where the code holds the lock.
LEMMA HasStep ==
  ASSUME TypeOK, HasInv, PlaceInv, NEW c \in Ctx, Step(c)
  PROVE  HasInv'
<1> USE DEF TypeOK, LocalType, HasInv, PlaceInv, Section, Goto, locals, Idle
<1>1. CASE \/ CheckPending(c) \/ TestReady(c) \/ WriteAll(c) \/ WriteSome(c)
           \/ WriteFails(c) \/ SetUnused(c) \/ ResetPending(c)
  BY ContextFacts, <1>1 DEF CheckPending, TestReady, Return, WriteAll, Chunk,
              WriteSome, WriteFails, ReturnError, SetUnused,
              ResetPending
<1>2. CASE \/ (c \in Handlers /\ HandlerBegin(c)) \/ Scan(c) \/ ScanLock(c)
           \/ FindUnused(c) \/ Reserve(c)
  BY ContextFacts, <1>2 DEF HandlerBegin, Scan, ScanLock, FindUnused, NoBuffer,
              Reserve
<1>3. CASE \/ (c \in Handlers /\ FillSample(c))
           \/ (c \in Handlers /\ Cancel(c)) \/ Commit(c) \/ CommitLock(c)
           \/ Unlock(c)
  BY ContextFacts, <1>3 DEF FillSample, Cancel, Commit, CommitLock,
     AfterCommit,
              Unlock
<1>4. CASE \/ (c \in Coders /\ CoderBegin(c))
           \/ (c \in Coders /\ ReadCodes(c))
           \/ (c \in Coders /\ TakeCodes(c))
           \/ (c \in Coders /\ AppendName(c))
           \/ (c \in Coders /\ AttachCodes(c))
  BY ContextFacts, <1>4 DEF CoderBegin, ReadCodes, TakeCodes, AppendName,
     AttachCodes
<1>5. CASE \/ Prepare \/ CloseBegin \/ FlushCodes \/ ShutLock \/ ShutLoop
           \/ Unmap
  BY ContextFacts, <1>5 DEF Prepare, CloseBegin, FlushCodes, ShutLock,
     ShutLoop, Unmap
<1>q. QED BY <1>1, <1>2, <1>3, <1>4, <1>5 DEF Step

\* vmprof_disable and the other contexts keep to their own code.
LEMMA PlaceStep ==
  ASSUME TypeOK, HasInv, PlaceInv, NEW c \in Ctx, Step(c)
  PROVE  PlaceInv'
<1> USE DEF TypeOK, LocalType, HasInv, PlaceInv, Section, Goto, locals, Idle
<1>1. CASE \/ CheckPending(c) \/ TestReady(c) \/ WriteAll(c) \/ WriteSome(c)
           \/ WriteFails(c) \/ SetUnused(c) \/ ResetPending(c)
  BY ContextFacts, <1>1 DEF CheckPending, TestReady, Return, WriteAll, Chunk,
              WriteSome, WriteFails, ReturnError, SetUnused,
              ResetPending
<1>2. CASE \/ (c \in Handlers /\ HandlerBegin(c)) \/ Scan(c) \/ ScanLock(c)
           \/ FindUnused(c) \/ Reserve(c)
  BY ContextFacts, <1>2 DEF HandlerBegin, Scan, ScanLock, FindUnused, NoBuffer,
              Reserve
<1>3. CASE \/ (c \in Handlers /\ FillSample(c))
           \/ (c \in Handlers /\ Cancel(c)) \/ Commit(c) \/ CommitLock(c)
           \/ Unlock(c)
  BY ContextFacts, <1>3 DEF FillSample, Cancel, Commit, CommitLock,
     AfterCommit,
              Unlock
<1>4. CASE \/ (c \in Coders /\ CoderBegin(c))
           \/ (c \in Coders /\ ReadCodes(c))
           \/ (c \in Coders /\ TakeCodes(c))
           \/ (c \in Coders /\ AppendName(c))
           \/ (c \in Coders /\ AttachCodes(c))
  BY ContextFacts, <1>4 DEF CoderBegin, ReadCodes, TakeCodes, AppendName,
     AttachCodes
<1>5. CASE \/ Prepare \/ CloseBegin \/ FlushCodes \/ ShutLock \/ ShutLoop
           \/ Unmap
  BY ContextFacts, <1>5 DEF Prepare, CloseBegin, FlushCodes, ShutLock,
     ShutLoop, Unmap
<1>q. QED BY <1>1, <1>2, <1>3, <1>4, <1>5 DEF Step

\* vmprof_disable runs alone and leaves current_codes empty.
LEMMA ClosingStep ==
  ASSUME TypeOK, PlaceInv, HasInv, ClosingInv, MappedInv, NEW c \in Ctx,
         Step(c)
  PROVE  ClosingInv'
<1> USE DEF TypeOK, LocalType, PlaceInv, HasInv, ClosingInv, MappedInv, Goto,
    locals, Idle, pool, Section
<1>1. CASE \/ CheckPending(c) \/ TestReady(c) \/ WriteAll(c) \/ WriteSome(c)
           \/ WriteFails(c) \/ SetUnused(c) \/ ResetPending(c)
  BY ContextFacts, <1>1 DEF CheckPending, TestReady, Return, WriteAll, Chunk,
              WriteSome, WriteFails, ReturnError, SetUnused,
              ResetPending
<1>2. CASE \/ (c \in Handlers /\ HandlerBegin(c)) \/ Scan(c) \/ ScanLock(c)
           \/ FindUnused(c) \/ Reserve(c)
  BY ContextFacts, <1>2 DEF HandlerBegin, Scan, ScanLock, FindUnused, NoBuffer,
              Reserve
<1>3. CASE \/ (c \in Handlers /\ FillSample(c))
           \/ (c \in Handlers /\ Cancel(c)) \/ Commit(c) \/ CommitLock(c)
           \/ Unlock(c)
  BY ContextFacts, <1>3 DEF FillSample, Cancel, Commit, CommitLock,
     AfterCommit,
              Unlock
<1>4. CASE \/ (c \in Coders /\ CoderBegin(c))
           \/ (c \in Coders /\ ReadCodes(c))
           \/ (c \in Coders /\ TakeCodes(c))
           \/ (c \in Coders /\ AppendName(c))
           \/ (c \in Coders /\ AttachCodes(c))
  BY ContextFacts, <1>4 DEF CoderBegin, ReadCodes, TakeCodes, AppendName,
     AttachCodes
<1>5. CASE \/ Prepare \/ CloseBegin \/ FlushCodes \/ ShutLock \/ ShutLoop
           \/ Unmap
  BY ContextFacts, <1>5 DEF Prepare, CloseBegin, FlushCodes, ShutLock,
     ShutLoop, Unmap
<1>q. QED BY <1>1, <1>2, <1>3, <1>4, <1>5 DEF Step

\* Without buffers everything is idle.
LEMMA MappedStep ==
  ASSUME TypeOK, PlaceInv, ClosingInv, MappedInv, NEW c \in Ctx, Step(c)
  PROVE  MappedInv'
<1> USE DEF TypeOK, LocalType, PlaceInv, ClosingInv, MappedInv, Goto, locals,
    Idle, pool
<1>1. CASE \/ CheckPending(c) \/ TestReady(c) \/ WriteAll(c) \/ WriteSome(c)
           \/ WriteFails(c) \/ SetUnused(c) \/ ResetPending(c)
  BY ContextFacts, <1>1 DEF CheckPending, TestReady, Return, WriteAll, Chunk,
              WriteSome, WriteFails, ReturnError, SetUnused,
              ResetPending
<1>2. CASE \/ (c \in Handlers /\ HandlerBegin(c)) \/ Scan(c) \/ ScanLock(c)
           \/ FindUnused(c) \/ Reserve(c)
  BY ContextFacts, <1>2 DEF HandlerBegin, Scan, ScanLock, FindUnused, NoBuffer,
              Reserve
<1>3. CASE \/ (c \in Handlers /\ FillSample(c))
           \/ (c \in Handlers /\ Cancel(c)) \/ Commit(c) \/ CommitLock(c)
           \/ Unlock(c)
  BY ContextFacts, <1>3 DEF FillSample, Cancel, Commit, CommitLock,
     AfterCommit,
              Unlock
<1>4. CASE \/ (c \in Coders /\ CoderBegin(c))
           \/ (c \in Coders /\ ReadCodes(c))
           \/ (c \in Coders /\ TakeCodes(c))
           \/ (c \in Coders /\ AppendName(c))
           \/ (c \in Coders /\ AttachCodes(c))
  BY ContextFacts, <1>4 DEF CoderBegin, ReadCodes, TakeCodes, AppendName,
     AttachCodes
<1>5. CASE \/ Prepare \/ CloseBegin \/ FlushCodes \/ ShutLock \/ ShutLoop
           \/ Unmap
  BY ContextFacts, <1>5 DEF Prepare, CloseBegin, FlushCodes, ShutLock,
     ShutLoop, Unmap
<1>q. QED BY <1>1, <1>2, <1>3, <1>4, <1>5 DEF Step

\* One context at most is inside the write lock.
LEMMA LockStep ==
  ASSUME TypeOK, HasInv, PlaceInv, ClosingInv, MappedInv, LockInv,
         NEW c \in Ctx, Step(c)
  PROVE  LockInv'
<1> USE DEF TypeOK, SharedType, LocalType, HasInv, PlaceInv, ClosingInv,
    MappedInv, LockInv, InSection, Section, Goto, Idle, pool, locals
<1>1. CASE \/ CheckPending(c) \/ TestReady(c) \/ WriteAll(c) \/ WriteSome(c)
           \/ WriteFails(c) \/ SetUnused(c) \/ ResetPending(c)
  BY ContextFacts, <1>1 DEF CheckPending, TestReady, Return, WriteAll, Chunk,
              WriteSome, WriteFails, ReturnError, SetUnused,
              ResetPending
<1>2. CASE \/ (c \in Handlers /\ HandlerBegin(c)) \/ Scan(c) \/ ScanLock(c)
           \/ FindUnused(c) \/ Reserve(c)
  BY ContextFacts, <1>2 DEF HandlerBegin, Scan, ScanLock, FindUnused, NoBuffer,
              Reserve
<1>3. CASE \/ (c \in Handlers /\ FillSample(c))
           \/ (c \in Handlers /\ Cancel(c)) \/ Commit(c) \/ CommitLock(c)
           \/ Unlock(c)
  BY ContextFacts, <1>3 DEF FillSample, Cancel, Commit, CommitLock,
     AfterCommit,
              Unlock
<1>4. CASE \/ (c \in Coders /\ CoderBegin(c))
           \/ (c \in Coders /\ ReadCodes(c))
           \/ (c \in Coders /\ TakeCodes(c))
           \/ (c \in Coders /\ AppendName(c))
           \/ (c \in Coders /\ AttachCodes(c))
  BY ContextFacts, <1>4 DEF CoderBegin, ReadCodes, TakeCodes, AppendName,
     AttachCodes
<1>5. CASE \/ CloseBegin \/ FlushCodes \/ ShutLoop
  BY ContextFacts, <1>5 DEF CloseBegin, FlushCodes, ShutLoop
<1>6. CASE Prepare
  BY ContextFacts, <1>6 DEF Prepare
<1>7. CASE ShutLock
  BY ContextFacts, <1>7 DEF ShutLock
<1>8. CASE Unmap
  BY ContextFacts, <1>8 DEF Unmap
<1>q. QED BY <1>1, <1>2, <1>3, <1>4, <1>5, <1>6, <1>7, <1>8 DEF Step

\* A buffer has one holder.
LEMMA HolderStep ==
  ASSUME TypeOK, IndexInv, PlaceInv, MappedInv, HolderInv, FillingInv,
         NEW c \in Ctx, Step(c)
  PROVE  HolderInv'
<1> USE DEF TypeOK, LocalType, IndexInv, MappedInv, HolderInv, FillingInv,
    Holds, Goto, Idle, pool, locals
<1>1. CASE \/ CheckPending(c) \/ TestReady(c) \/ WriteAll(c) \/ WriteSome(c)
           \/ WriteFails(c) \/ SetUnused(c) \/ ResetPending(c)
  BY ContextFacts, <1>1 DEF CheckPending, TestReady, Return, WriteAll, Chunk,
              WriteSome, WriteFails, ReturnError, SetUnused,
              ResetPending
<1>2. CASE \/ (c \in Handlers /\ HandlerBegin(c)) \/ Scan(c) \/ ScanLock(c)
           \/ FindUnused(c) \/ Reserve(c)
  BY ContextFacts, <1>2 DEF HandlerBegin, Scan, ScanLock, FindUnused, NoBuffer,
              Reserve
<1>3. CASE \/ (c \in Handlers /\ FillSample(c))
           \/ (c \in Handlers /\ Cancel(c)) \/ Commit(c) \/ CommitLock(c)
           \/ Unlock(c)
  BY ContextFacts, <1>3 DEF FillSample, Cancel, Commit, CommitLock,
     AfterCommit,
              Unlock
<1>4. CASE \/ (c \in Coders /\ CoderBegin(c))
           \/ (c \in Coders /\ ReadCodes(c))
           \/ (c \in Coders /\ TakeCodes(c))
           \/ (c \in Coders /\ AppendName(c))
           \/ (c \in Coders /\ AttachCodes(c))
  BY ContextFacts, <1>4 DEF CoderBegin, ReadCodes, TakeCodes, AppendName,
     AttachCodes
<1>5. CASE \/ Prepare \/ CloseBegin \/ FlushCodes \/ ShutLock \/ ShutLoop
           \/ Unmap
  BY ContextFacts, <1>5 DEF Prepare, CloseBegin, FlushCodes, ShutLock,
     ShutLoop, Unmap
<1>q. QED BY <1>1, <1>2, <1>3, <1>4, <1>5 DEF Step

\* A held buffer stays FILLING whatever the others do.
LEMMA FillingStep ==
  ASSUME TypeOK, IndexInv, PlaceInv, MappedInv, HolderInv, FillingInv,
         ReadyInv, NEW c \in Ctx, Step(c)
  PROVE  FillingInv'
<1> USE DEF TypeOK, PoolType, LocalType, IndexInv, MappedInv, HolderInv,
    FillingInv, ReadyInv, Holds, Goto, Idle, pool, locals
<1>1. CASE \/ CheckPending(c) \/ WriteAll(c)
  BY ContextFacts, <1>1 DEF CheckPending, WriteAll, Chunk
<1>2. CASE TestReady(c)
  BY ContextFacts, <1>2 DEF TestReady, Return
<1>3. CASE WriteSome(c)
  BY ContextFacts, <1>3 DEF WriteSome, Return, Chunk
<1>4. CASE WriteFails(c)
  BY ContextFacts, <1>4 DEF WriteFails, ReturnError
<1>5. CASE SetUnused(c)
  BY ContextFacts, <1>5 DEF SetUnused
<1>6. CASE ResetPending(c)
  BY ContextFacts, <1>6 DEF ResetPending, Return
<1>7. CASE \/ (c \in Handlers /\ HandlerBegin(c)) \/ Scan(c) \/ ScanLock(c)
           \/ FindUnused(c) \/ Reserve(c)
  BY ContextFacts, <1>7 DEF HandlerBegin, Scan, ScanLock, FindUnused, NoBuffer,
              Reserve
<1>8. CASE \/ (c \in Handlers /\ FillSample(c))
           \/ (c \in Handlers /\ Cancel(c)) \/ Commit(c) \/ CommitLock(c)
           \/ Unlock(c)
  BY ContextFacts, <1>8 DEF FillSample, Cancel, Commit, CommitLock,
     AfterCommit,
              Unlock
<1>9. CASE \/ (c \in Coders /\ CoderBegin(c))
           \/ (c \in Coders /\ ReadCodes(c))
           \/ (c \in Coders /\ AppendName(c))
           \/ (c \in Coders /\ AttachCodes(c))
  BY ContextFacts, <1>9 DEF CoderBegin, ReadCodes, AppendName, AttachCodes
<1>10. CASE c \in Coders /\ TakeCodes(c)
  <2>1. -1 \notin Buf
    BY DEF Buf
  <2>2. CASE current_codes = idx[c]
    BY ContextFacts, <2>1, <2>2, <1>10 DEF TakeCodes
  <2>3. CASE current_codes # idx[c]
    BY ContextFacts, <2>1, <2>3, <1>10 DEF TakeCodes
  <2>q. QED BY <2>2, <2>3
<1>11. CASE \/ CloseBegin \/ ShutLock \/ ShutLoop \/ Unmap
  BY ContextFacts, <1>11 DEF CloseBegin, ShutLock, ShutLoop, Unmap
<1>12. CASE Prepare
  BY ContextFacts, <1>12 DEF Prepare, SharedType, Buf
<1>13. CASE FlushCodes
  <2>1. -1 \notin Buf
    BY DEF Buf
  <2>2. CASE current_codes = -1
    BY ContextFacts, <2>1, <2>2, <1>13 DEF FlushCodes
  <2>3. CASE current_codes # -1
    BY ContextFacts, <2>1, <2>3, <1>13 DEF FlushCodes
  <2>q. QED BY <2>2, <2>3
<1>q. QED BY <1>1, <1>2, <1>3, <1>4, <1>5, <1>6, <1>7, <1>8, <1>9, <1>10,
             <1>11, <1>12, <1>13 DEF Step

\* No step forgets a FILLING buffer.
LEMMA LeakStep ==
  ASSUME TypeOK, IndexInv, PlaceInv, MappedInv, HolderInv, FillingInv,
         LeakInv, NEW c \in Ctx, Step(c)
  PROVE  LeakInv'
<1> USE DEF TypeOK, PoolType, LocalType, IndexInv, PlaceInv, MappedInv,
    HolderInv, FillingInv, LeakInv, Holds, Goto, Idle, pool, locals
<1>1. CASE WriteAll(c)
  BY ContextFacts, <1>1 DEF WriteAll, Chunk
<1>2. CASE CheckPending(c)
  BY ContextFacts, <1>2 DEF CheckPending
<1>3. CASE TestReady(c)
  BY ContextFacts, <1>3 DEF TestReady, Return
<1>4. CASE WriteSome(c)
  BY ContextFacts, <1>4 DEF WriteSome, Return, Chunk
<1>5. CASE WriteFails(c)
  BY ContextFacts, <1>5 DEF WriteFails, ReturnError
<1>6. CASE SetUnused(c)
  BY ContextFacts, <1>6 DEF SetUnused
<1>7. CASE ResetPending(c)
  BY ContextFacts, <1>7 DEF ResetPending, Return
<1>8. CASE \/ (c \in Handlers /\ HandlerBegin(c)) \/ Scan(c) \/ ScanLock(c)
           \/ FindUnused(c) \/ Reserve(c)
  BY ContextFacts, <1>8 DEF HandlerBegin, Scan, ScanLock, FindUnused, NoBuffer,
              Reserve
<1>9. CASE \/ (c \in Handlers /\ FillSample(c))
           \/ (c \in Handlers /\ Cancel(c)) \/ Commit(c) \/ CommitLock(c)
           \/ Unlock(c)
  BY ContextFacts, <1>9 DEF FillSample, Cancel, Commit, CommitLock,
     AfterCommit,
              Unlock
<1>10. CASE \/ (c \in Coders /\ CoderBegin(c))
            \/ (c \in Coders /\ ReadCodes(c))
            \/ (c \in Coders /\ TakeCodes(c))
            \/ (c \in Coders /\ AppendName(c))
  BY ContextFacts, <1>10 DEF CoderBegin, ReadCodes, TakeCodes, AppendName
<1>11. CASE c \in Coders /\ AttachCodes(c)
  <2>1. -1 \notin Buf
    BY DEF Buf
  <2>2. CASE current_codes = -1
    BY ContextFacts, <2>1, <2>2, <1>11 DEF AttachCodes
  <2>3. CASE current_codes # -1
    BY ContextFacts, <2>1, <2>3, <1>11 DEF AttachCodes
  <2>q. QED BY <2>2, <2>3
<1>12. CASE \/ CloseBegin \/ ShutLock \/ ShutLoop \/ Unmap
  BY ContextFacts, <1>12 DEF CloseBegin, ShutLock, ShutLoop, Unmap
<1>13. CASE Prepare
  BY ContextFacts, <1>13 DEF Prepare
<1>14. CASE FlushCodes
  BY ContextFacts, <1>14 DEF FlushCodes
<1>q. QED BY <1>1, <1>2, <1>3, <1>4, <1>5, <1>6, <1>7, <1>8, <1>9, <1>10,
             <1>11, <1>12, <1>13, <1>14 DEF Step

\* A buffer in use holds a record of this session.
LEMMA RecordStep ==
  ASSUME TypeOK, IndexInv, FillingInv, RecordInv, ReadyInv, NEW c \in Ctx,
         Step(c)
  PROVE  RecordInv'
<1> USE DEF TypeOK, PoolType, LocalType, HistoryType, FillingInv, RecordInv,
    ReadyInv, Holds, pool, Goto
<1>1. CASE \/ CheckPending(c) \/ TestReady(c) \/ WriteAll(c) \/ WriteSome(c)
           \/ WriteFails(c) \/ ResetPending(c) \/ Scan(c) \/ ScanLock(c)
           \/ FindUnused(c) \/ CommitLock(c) \/ Unlock(c)
           \/ (c \in Handlers /\ HandlerBegin(c))
           \/ (c \in Handlers /\ FillSample(c))
           \/ (c \in Coders /\ CoderBegin(c))
           \/ (c \in Coders /\ ReadCodes(c))
           \/ (c \in Coders /\ TakeCodes(c))
           \/ (c \in Coders /\ AppendName(c))
           \/ (c \in Coders /\ AttachCodes(c)) \/ CloseBegin \/ FlushCodes
           \/ ShutLock \/ ShutLoop \/ Unmap
  BY ContextFacts, <1>1 DEF CheckPending, TestReady, Return, WriteAll, Chunk,
              WriteSome, WriteFails, ReturnError, ResetPending, Scan,
              ScanLock, FindUnused, NoBuffer, CommitLock, AfterCommit,
              Unlock, HandlerBegin, FillSample, CoderBegin, ReadCodes,
              TakeCodes, AppendName, AttachCodes, CloseBegin,
              FlushCodes, ShutLock, ShutLoop, Unmap
<1>2. CASE SetUnused(c)
  BY ContextFacts, <1>2 DEF SetUnused
<1>3. CASE Reserve(c)
  BY ContextFacts, <1>3 DEF Reserve
<1>4. CASE c \in Handlers /\ Cancel(c)
  BY ContextFacts, <1>4 DEF Cancel
<1>5. CASE Commit(c)
  BY ContextFacts, <1>5 DEF Commit
<1>6. CASE Prepare
  BY ContextFacts, <1>6 DEF Prepare
<1>q. QED BY <1>1, <1>2, <1>3, <1>4, <1>5, <1>6 DEF Step

\* The buffer that is being written stays READY until its writer is done.
LEMMA ReadyStep ==
  ASSUME TypeOK, IndexInv, MappedInv, LockInv, FillingInv, ReadyInv,
         NEW c \in Ctx, Step(c)
  PROVE  ReadyInv'
<1> USE DEF TypeOK, PoolType, LocalType, IndexInv, MappedInv, LockInv,
    FillingInv, ReadyInv, Holds, InSection, Section, Goto, Idle, pool, locals
<1>1. CASE \/ CheckPending(c) \/ TestReady(c) \/ WriteAll(c) \/ WriteSome(c)
           \/ WriteFails(c) \/ SetUnused(c) \/ ResetPending(c)
  BY ContextFacts, <1>1 DEF CheckPending, TestReady, Return, WriteAll, Chunk,
              WriteSome, WriteFails, ReturnError, SetUnused,
              ResetPending
<1>2. CASE \/ (c \in Handlers /\ HandlerBegin(c)) \/ Scan(c) \/ ScanLock(c)
           \/ FindUnused(c) \/ Reserve(c)
  BY ContextFacts, <1>2 DEF HandlerBegin, Scan, ScanLock, FindUnused, NoBuffer,
              Reserve
<1>3. CASE \/ (c \in Handlers /\ FillSample(c))
           \/ (c \in Handlers /\ Cancel(c)) \/ Commit(c) \/ CommitLock(c)
           \/ Unlock(c)
  BY ContextFacts, <1>3 DEF FillSample, Cancel, Commit, CommitLock,
     AfterCommit,
              Unlock
<1>4. CASE \/ (c \in Coders /\ CoderBegin(c))
           \/ (c \in Coders /\ ReadCodes(c))
           \/ (c \in Coders /\ TakeCodes(c))
           \/ (c \in Coders /\ AppendName(c))
           \/ (c \in Coders /\ AttachCodes(c))
  BY ContextFacts, <1>4 DEF CoderBegin, ReadCodes, TakeCodes, AppendName,
     AttachCodes
<1>5. CASE \/ Prepare \/ CloseBegin \/ FlushCodes \/ ShutLock \/ ShutLoop
           \/ Unmap
  BY ContextFacts, <1>5 DEF Prepare, CloseBegin, FlushCodes, ShutLock,
     ShutLoop, Unmap
<1>q. QED BY <1>1, <1>2, <1>3, <1>4, <1>5 DEF Step

\* pending_write names a READY buffer.
LEMMA PendingStep ==
  ASSUME TypeOK, IndexInv, HasInv, LockInv, FillingInv, ReadyInv, PendingInv,
         WorkInv, NEW c \in Ctx, Step(c)
  PROVE  PendingInv'
<1> USE DEF TypeOK, PoolType, SharedType, LocalType, IndexInv, LockInv,
    FillingInv, ReadyInv, PendingInv, WorkInv, Holds, InSection, Section,
    Goto, Idle, pool, locals
<1>1. CASE \/ CheckPending(c) \/ TestReady(c) \/ WriteAll(c) \/ WriteSome(c)
           \/ WriteFails(c) \/ SetUnused(c) \/ ResetPending(c)
  BY ContextFacts, <1>1 DEF CheckPending, TestReady, Return, WriteAll, Chunk,
              WriteSome, WriteFails, ReturnError, SetUnused,
              ResetPending
<1>2. CASE \/ (c \in Handlers /\ HandlerBegin(c)) \/ Scan(c) \/ ScanLock(c)
           \/ FindUnused(c) \/ Reserve(c)
  BY ContextFacts, <1>2 DEF HandlerBegin, Scan, ScanLock, FindUnused, NoBuffer,
              Reserve
<1>3. CASE \/ (c \in Handlers /\ FillSample(c))
           \/ (c \in Handlers /\ Cancel(c)) \/ Commit(c) \/ CommitLock(c)
           \/ Unlock(c)
  BY ContextFacts, <1>3 DEF FillSample, Cancel, Commit, CommitLock,
     AfterCommit,
              Unlock
<1>4. CASE \/ (c \in Coders /\ CoderBegin(c))
           \/ (c \in Coders /\ ReadCodes(c))
           \/ (c \in Coders /\ TakeCodes(c))
           \/ (c \in Coders /\ AppendName(c))
           \/ (c \in Coders /\ AttachCodes(c))
  BY ContextFacts, <1>4 DEF CoderBegin, ReadCodes, TakeCodes, AppendName,
     AttachCodes
<1>5. CASE \/ CloseBegin \/ ShutLock \/ ShutLoop \/ Unmap
  BY ContextFacts, <1>5 DEF CloseBegin, ShutLock, ShutLoop, Unmap
<1>6. CASE Prepare
  BY ContextFacts, <1>6 DEF Prepare
<1>7. CASE FlushCodes
  BY ContextFacts, <1>7 DEF FlushCodes
<1>q. QED BY <1>1, <1>2, <1>3, <1>4, <1>5, <1>6, <1>7 DEF Step

\* A half-written buffer is the next one to be written.
LEMMA WorkStep ==
  ASSUME TypeOK, IndexInv, LockInv, MappedInv, WorkInv, NEW c \in Ctx, Step(c)
  PROVE  WorkInv'
<1> USE DEF TypeOK, LocalType, LockInv, MappedInv, WorkInv, InSection,
    Section, Goto, Idle, pool, locals
<1>1. CASE \/ TestReady(c) \/ WriteAll(c) \/ WriteSome(c) \/ WriteFails(c)
           \/ SetUnused(c) \/ ResetPending(c)
  BY ContextFacts, <1>1 DEF TestReady, Return, WriteAll, Chunk, WriteSome,
              WriteFails, ReturnError, SetUnused, ResetPending
<1>2. CASE CheckPending(c)
  BY ContextFacts, <1>2 DEF CheckPending, SharedType, Buf
<1>3. CASE \/ (c \in Handlers /\ HandlerBegin(c)) \/ Scan(c) \/ ScanLock(c)
           \/ FindUnused(c) \/ Reserve(c)
  BY ContextFacts, <1>3 DEF HandlerBegin, Scan, ScanLock, FindUnused, NoBuffer,
              Reserve
<1>4. CASE \/ (c \in Handlers /\ FillSample(c))
           \/ (c \in Handlers /\ Cancel(c)) \/ Commit(c) \/ CommitLock(c)
           \/ Unlock(c)
  BY ContextFacts, <1>4 DEF FillSample, Cancel, Commit, CommitLock,
     AfterCommit,
              Unlock
<1>5. CASE \/ (c \in Coders /\ CoderBegin(c))
           \/ (c \in Coders /\ ReadCodes(c))
           \/ (c \in Coders /\ TakeCodes(c))
           \/ (c \in Coders /\ AppendName(c))
           \/ (c \in Coders /\ AttachCodes(c))
  BY ContextFacts, <1>5 DEF CoderBegin, ReadCodes, TakeCodes, AppendName,
     AttachCodes
<1>6. CASE \/ Prepare \/ CloseBegin \/ FlushCodes \/ ShutLock \/ ShutLoop
           \/ Unmap
  BY ContextFacts, <1>6 DEF Prepare, CloseBegin, FlushCodes, ShutLock,
     ShutLoop, Unmap
<1>q. QED BY <1>1, <1>2, <1>3, <1>4, <1>5, <1>6 DEF Step

\* The initial state is as the invariant says.
LEMMA InitIInv == Init => IInv
<1> SUFFICES ASSUME Init PROVE IInv
  OBVIOUS
<1> USE SizesAssumption, ContextsAssumption DEF Init, Buf
<1>0. Closer \in Ctx /\ -1 \notin Buf
  BY DEF Ctx
<1>1. TypeOK
  BY DEF TypeOK, PoolType, SharedType, LocalType, HistoryType, Labels
<1>2. IndexInv
  BY <1>0 DEF IndexInv
<1>3. HasInv
  BY <1>0 DEF HasInv
<1>4. PlaceInv
  BY <1>0 DEF PlaceInv
<1>5. ClosingInv
  BY <1>0 DEF ClosingInv
<1>6. MappedInv
  BY <1>0 DEF MappedInv, Idle
<1>7. LockInv
  BY <1>0 DEF LockInv, InSection, Section
<1>8. HolderInv
  BY <1>0 DEF HolderInv, Holds
<1>9. FillingInv
  BY <1>0 DEF FillingInv, Holds
<1>10. LeakInv
  BY <1>0 DEF LeakInv
<1>11. RecordInv
  BY <1>0 DEF RecordInv
<1>12. ReadyInv
  BY <1>0 DEF ReadyInv
<1>13. PendingInv
  BY <1>0 DEF PendingInv
<1>14. WorkInv
  BY <1>0 DEF WorkInv
<1>q. QED BY <1>1, <1>2, <1>3, <1>4, <1>5, <1>6, <1>7, <1>8, <1>9, <1>10,
             <1>11, <1>12, <1>13, <1>14 DEF IInv

\* Every step of the specification is a Step of some context, or a stutter.
LEMMA NextIsStep == Next => \E c \in Ctx : Step(c)
<1> SUFFICES ASSUME Next PROVE \E c \in Ctx : Step(c)
  OBVIOUS
<1>1. Closer \in Ctx /\ Handlers \subseteq Ctx /\ Coders \subseteq Ctx
  BY DEF Ctx
<1>2. CASE Prepare \/ CloseBegin \/ CloserStep
  <2>1. Step(Closer)
    BY <1>2 DEF Step, CloserStep, WriteSingle, CommitStep
  <2>q. QED BY <1>1, <2>1
<1>3. CASE \E h \in Handlers : HandlerBegin(h) \/ HandlerStep(h)
  <2>1. PICK h \in Handlers : HandlerBegin(h) \/ HandlerStep(h)
    BY <1>3
  <2>2. Step(h)
    BY <2>1 DEF Step, HandlerStep, WriteSingle, ReserveStep, CommitStep
  <2>q. QED BY <1>1, <2>2
<1>4. CASE \E m \in Coders : CoderBegin(m) \/ CoderStep(m)
  <2>1. PICK m \in Coders : CoderBegin(m) \/ CoderStep(m)
    BY <1>4
  <2>2. Step(m)
    BY <2>1 DEF Step, CoderStep, WriteSingle, ReserveStep, CommitStep
  <2>q. QED BY <1>1, <2>2
<1>q. QED BY <1>2, <1>3, <1>4 DEF Next

\* The invariant is inductive.
LEMMA NextIInv == IInv /\ [Next]_vars => IInv'
<1> SUFFICES ASSUME IInv, [Next]_vars PROVE IInv'
  OBVIOUS
<1>1. CASE Next
  <2>1. PICK c \in Ctx : Step(c)
    BY <1>1, NextIsStep
  <2>2. TypeOK'
    BY <2>1, PoolStep, SharedStep, LocalStep, HistoryStep DEF IInv, TypeOK
  <2>3. IndexInv'
    BY <2>1, IndexStep DEF IInv
  <2>4. HasInv'
    BY <2>1, HasStep DEF IInv
  <2>5. PlaceInv'
    BY <2>1, PlaceStep DEF IInv
  <2>6. ClosingInv'
    BY <2>1, ClosingStep DEF IInv
  <2>7. MappedInv'
    BY <2>1, MappedStep DEF IInv
  <2>8. LockInv'
    BY <2>1, LockStep DEF IInv
  <2>9. HolderInv'
    BY <2>1, HolderStep DEF IInv
  <2>10. FillingInv'
    BY <2>1, FillingStep DEF IInv
  <2>11. LeakInv'
    BY <2>1, LeakStep DEF IInv
  <2>12. RecordInv'
    BY <2>1, RecordStep DEF IInv
  <2>13. ReadyInv'
    BY <2>1, ReadyStep DEF IInv
  <2>14. PendingInv'
    BY <2>1, PendingStep DEF IInv
  <2>15. WorkInv'
    BY <2>1, WorkStep DEF IInv
  <2>q. QED BY <2>2, <2>3, <2>4, <2>5, <2>6, <2>7, <2>8, <2>9, <2>10, <2>11,
              <2>12, <2>13, <2>14, <2>15 DEF IInv
<1>2. CASE UNCHANGED vars
  <2>0. UNCHANGED <<pool, write_lock, pending, current_codes, ignore, locals,
                    nrec, committed, file>>
    BY <1>2 DEF vars
  <2>1. TypeOK'
    BY <2>0 DEF pool, locals, IInv, TypeOK, PoolType, SharedType, LocalType, HistoryType
  <2>2. IndexInv'
    BY <2>0 DEF pool, locals, IInv, IndexInv, InSection, Holds, Idle
  <2>3. HasInv'
    BY <2>0 DEF pool, locals, IInv, HasInv, InSection, Holds, Idle
  <2>4. PlaceInv'
    BY <2>0 DEF pool, locals, IInv, PlaceInv, InSection, Holds, Idle
  <2>5. ClosingInv'
    BY <2>0 DEF pool, locals, IInv, ClosingInv, InSection, Holds, Idle
  <2>6. MappedInv'
    BY <2>0 DEF pool, locals, IInv, MappedInv, InSection, Holds, Idle
  <2>7. LockInv'
    BY <2>0 DEF pool, locals, IInv, LockInv, InSection, Holds, Idle
  <2>8. HolderInv'
    BY <2>0 DEF pool, locals, IInv, HolderInv, InSection, Holds, Idle
  <2>9. FillingInv'
    BY <2>0 DEF pool, locals, IInv, FillingInv, InSection, Holds, Idle
  <2>10. LeakInv'
    BY <2>0 DEF pool, locals, IInv, LeakInv, InSection, Holds, Idle
  <2>11. RecordInv'
    BY <2>0 DEF pool, locals, IInv, RecordInv, InSection, Holds, Idle
  <2>12. ReadyInv'
    BY <2>0 DEF pool, locals, IInv, ReadyInv, InSection, Holds, Idle
  <2>13. PendingInv'
    BY <2>0 DEF pool, locals, IInv, PendingInv, InSection, Holds, Idle
  <2>14. WorkInv'
    BY <2>0 DEF pool, locals, IInv, WorkInv, InSection, Holds, Idle
  <2>q. QED BY <2>1, <2>2, <2>3, <2>4, <2>5, <2>6, <2>7, <2>8,
              <2>9, <2>10, <2>11, <2>12, <2>13, <2>14 DEF IInv
<1>q. QED BY <1>1, <1>2

\* IInv holds in every reachable state.
THEOREM InductiveInvariant == Spec => []IInv
BY InitIInv, NextIInv, PTL DEF Spec

\* The variables keep to their types in every run, whatever the number of
\* buffers and contexts.
THEOREM TypeCorrect == Spec => []TypeOK
<1>1. IInv => TypeOK
  BY DEF IInv
<1>q. QED BY <1>1, InductiveInvariant, PTL

\* write() calls never overlap ("only one thread can be currently calling it",
\* vmprof_mt.h), and shutdown_concurrent_bufs may take the lock without asking.
THEOREM WritesExclude == Spec => []WriteExclusion
<1>1. IInv => WriteExclusion
  BY DEF IInv, LockInv, WriteExclusion
<1>q. QED BY <1>1, InductiveInvariant, PTL

\* A buffer handed out by reserve_buffer belongs to one context, or to
\* current_codes, until it is committed or cancelled, and is neither written
\* nor lost meanwhile.
THEOREM BuffersOwned == Spec => []OneOwner
<1>1. IInv => OneOwner
  BY DEF IInv, HolderInv, FillingInv, LeakInv, ReadyInv, OneOwner
<1>q. QED BY <1>1, InductiveInvariant, PTL

\* The assertion of _write_single_ready_buffer never fails.
THEOREM PendingAssertion == Spec => []PendingIsReady
<1>1. IInv => PendingIsReady
  <2> SUFFICES ASSUME IInv, NEW c \in Ctx, pc[c] = "pending", pending >= 0
               PROVE  state[pending] = "READY"
    BY DEF PendingIsReady
  <2>1. \A d \in Ctx : pc[d] # "clearPending"
    BY DEF IInv, LockInv, InSection, Section
  <2>2. pending # -1
    BY DEF IInv, TypeOK, SharedType, Buf
  <2>q. QED BY <2>1, <2>2 DEF IInv, PendingInv
<1>q. QED BY <1>1, InductiveInvariant, PTL

-----------------------------------------------------------------------------
(* What the buffers and the file hold, and the abstract log.  To IInv,     *)
(* which says who owns a buffer, these invariants add the contents.        *)

\* Who is on the way to a record number will still find one.
Searching == {"scan", "scanCAS", "resv", "resvCAS", "k_read", "k_take"}
MoreInv ==
  /\ ~more[Closer]
  /\ \A c \in Ctx : pc[c] \in Searching \/ (has[c] /\ c # Closer) => more[c]
NumberInv == Cardinality(Unnumbered) + nrec <= MaxRecords

\* No two buffers hold the same record.
DistinctInv ==
  \A a, b \in Buf :
    state[a] # "UNUSED" /\ state[b] # "UNUSED" /\ rec[a] = rec[b] => a = b

\* What a buffer holds before it is committed ...
FreshInv ==
  \A b \in Buf : state[b] = "FILLING" => rec[b] \notin DOMAIN committed /\ off[b] = 0
FillInv ==
  /\ \A c \in Ctx : /\ pc[c] = "fill" => left[idx[c]] < MaxSize
                    /\ pc[c] \in {"commit", "k_attach"} => left[idx[c]] \in 1 .. MaxSize
  /\ current_codes # -1 => left[current_codes] \in 1 .. MaxSize

\* ... and afterwards.
ReadySizeInv ==
  /\ \A b \in Buf : state[b] = "READY" => /\ rec[b] \in DOMAIN committed
                                          /\ off[b] + left[b] = committed[rec[b]]
                                          /\ left[b] > 0
  /\ \A r \in DOMAIN committed : committed[r] \in 1 .. MaxSize

\* A file has the end of a record: InFile(r) is Ended(file, r).
Ended(f, r) == \E k \in DOMAIN f : f[k].id = r /\ IsWhole(f[k])

\* The entries of the file are parts of committed records, ...
EntryInv ==
  \A k \in DOMAIN file : /\ file[k].id \in DOMAIN committed
                         /\ file[k].size = committed[file[k].id]
                         /\ file[k].upto <= file[k].size

\* ... none of them ends the same record twice, ...
OnceInv ==
  \A j, k \in DOMAIN file :
    file[j].id = file[k].id /\ IsWhole(file[j]) /\ IsWhole(file[k]) => j = k

\* ... and none ends a record that still waits in a buffer.
Written(b) == \E c \in Ctx : pc[c] = "clear" /\ wbuf[c] = b
WrittenInv ==
  \A b \in Buf : state[b] = "READY" => (Ended(file, rec[b]) <=> Written(b))

KeptInv == \A r \in DOMAIN committed : Ended(file, r) \/ InPool(r)

\* Only the buffer that pending_write names is written in part ...
Partly(b) == state[b] = "READY" /\ off[b] > 0
PartInv ==
  /\ \A b \in Buf : Partly(b) => pending = b
  /\ (\E c \in Ctx : pc[c] = "clearPending") => \A b \in Buf : ~Partly(b)

\* ... and it is the one the file ends in the middle of.
Last == file[Len(file)]
Unfinished == file # <<>> /\ Last.upto < Last.size
TailInv ==
  /\ \A b \in Buf : Partly(b) /\ ~Written(b) =>
                      Unfinished /\ Last.id = rec[b] /\ Last.upto = off[b]
  /\ Unfinished => \E b \in Buf : Partly(b) /\ ~Written(b)

\* The loop of shutdown_concurrent_bufs leaves nothing behind.
LoopInv ==
  /\ has[Closer] /\ pc[Closer] # "unmap" =>
       \A b \in Buf : b < idx[Closer] => state[b] # "READY"
  /\ pc[Closer] = "unmap" => \A b \in Buf : state[b] # "READY"
  /\ ~mapped => \A b \in Buf : state[b] = "UNUSED"

LogInv == /\ MoreInv /\ NumberInv /\ DistinctInv /\ FreshInv /\ FillInv /\ ReadySizeInv
          /\ EntryInv /\ OnceInv /\ WrittenInv /\ KeptInv
          /\ PartInv /\ TailInv /\ LoopInv
-----------------------------------------------------------------------------
\* The steps that neither change a buffer nor the file.
Looks(c) ==
  \/ CheckPending(c) \/ TestReady(c) \/ WriteFails(c) \/ ResetPending(c)
  \/ Scan(c) \/ ScanLock(c) \/ FindUnused(c)
  \/ Reserve(c) /\ state[idx[c]] # "UNUSED"
  \/ CommitLock(c) \/ Unlock(c)
  \/ c \in Handlers /\ HandlerBegin(c)
  \/ c \in Coders /\ (CoderBegin(c) \/ ReadCodes(c) \/ TakeCodes(c) \/ AttachCodes(c))
  \/ CloseBegin \/ FlushCodes \/ ShutLock \/ ShutLoop

Takes(c) == Reserve(c) /\ state[idx[c]] = "UNUSED"
Fills(c) == (c \in Handlers /\ FillSample(c)) \/ (c \in Coders /\ AppendName(c))

LEMMA StepCases ==
  ASSUME NEW c \in Ctx, Step(c)
  PROVE  \/ Looks(c) \/ Takes(c) \/ Fills(c) \/ (c \in Handlers /\ Cancel(c))
         \/ Commit(c) \/ WriteAll(c) \/ WriteSome(c) \/ SetUnused(c)
         \/ Prepare \/ Unmap
BY DEF Step, Looks, Takes, Fills

\* The holder of the lock works on a READY buffer, and on its own.
LEMMA WriterFacts ==
  ASSUME IInv, NEW c \in Ctx, pc[c] \in {"write", "clear"}
  PROVE  /\ wbuf[c] \in Buf /\ state[wbuf[c]] = "READY"
         /\ \A d \in Ctx : pc[d] \in Section => d = c
         /\ pending # -1 => pending = wbuf[c]
BY DEF IInv, TypeOK, LocalType, ReadyInv, LockInv, InSection, Section, WorkInv

\* The holder of a FILLING buffer is alone with it.
LEMMA OwnerFacts ==
  ASSUME IInv, NEW c \in Ctx, pc[c] \in {"fill", "commit", "k_attach"}
  PROVE  /\ idx[c] \in Buf /\ state[idx[c]] = "FILLING"
         /\ current_codes # idx[c]
         /\ \A d \in Ctx : Holds(d, idx[c]) => d = c
BY DEF IInv, IndexInv, HolderInv, FillingInv, Holds

LooksEffect(c) ==
  /\ UNCHANGED <<state, rec, off, left, mapped, nrec, committed, file>>
  /\ \A b \in Buf : Written(b)' <=> Written(b)
  /\ \A d \in Ctx : pc'[d] = "clearPending" => pc[d] = "clearPending"
  /\ \/ pending' = pending
     \/ pc[c] = "clearPending"
     \/ pc[c] = "write" /\ pending' = wbuf[c] /\ pending \in {-1, wbuf[c]}

LEMMA LooksKeep ==
  ASSUME IInv, NEW c \in Ctx, Looks(c)
  PROVE  LooksEffect(c)
<1> USE DEF LooksEffect, IInv, TypeOK, LocalType, PlaceInv, pool, Goto, Written
<1>1. CASE CheckPending(c) \/ TestReady(c) \/ WriteFails(c) \/ ResetPending(c)
  BY <1>1, WriterFacts
     DEF CheckPending, TestReady, WriteFails, ResetPending, Return, ReturnError
<1>2. CASE \/ Scan(c) \/ ScanLock(c) \/ FindUnused(c)
           \/ Reserve(c) /\ state[idx[c]] # "UNUSED"
  BY <1>2 DEF Scan, ScanLock, FindUnused, NoBuffer, Reserve
<1>3. CASE CommitLock(c) \/ Unlock(c)
  BY <1>3 DEF CommitLock, Unlock, AfterCommit
<1>4. CASE \/ c \in Handlers /\ HandlerBegin(c)
           \/ c \in Coders /\ (CoderBegin(c) \/ ReadCodes(c) \/ TakeCodes(c)
                               \/ AttachCodes(c))
  BY <1>4 DEF HandlerBegin, CoderBegin, ReadCodes, TakeCodes, AttachCodes
<1>5. CASE CloseBegin \/ FlushCodes \/ ShutLock \/ ShutLoop
  BY <1>5, ContextFacts DEF CloseBegin, FlushCodes, ShutLock, ShutLoop
<1>q. QED BY <1>1, <1>2, <1>3, <1>4, <1>5 DEF LooksEffect, Looks

\* What one more entry does to the file.
Entries == [id : Nat, from : Nat, upto : Nat, size : Nat]
Appended(e) ==
  /\ DOMAIN file' = 1 .. Len(file) + 1
  /\ file'[Len(file) + 1] = e
  /\ \A k \in 1 .. Len(file) : file'[k] = file[k]
  /\ file' # <<>> /\ Len(file') = Len(file) + 1
  /\ \A r : Ended(file', r) <=> Ended(file, r) \/ (e.id = r /\ IsWhole(e))

LEMMA AppendEntry ==
  ASSUME TypeOK, NEW e \in Entries, file' = Append(file, e)
  PROVE  Appended(e)
<1>1. file \in Seq(Entries) /\ Len(file) \in Nat /\ DOMAIN file = 1 .. Len(file)
  BY DEF TypeOK, HistoryType, Entries
<1>2. /\ DOMAIN file' = 1 .. Len(file) + 1
      /\ file'[Len(file) + 1] = e
      /\ \A k \in 1 .. Len(file) : file'[k] = file[k]
      /\ file' # <<>> /\ Len(file') = Len(file) + 1
  BY <1>1
<1>3. ASSUME NEW r
      PROVE  Ended(file', r) <=> Ended(file, r) \/ (e.id = r /\ IsWhole(e))
  <2>1. ASSUME Ended(file', r) PROVE Ended(file, r) \/ (e.id = r /\ IsWhole(e))
    BY <1>1, <1>2, <2>1 DEF Ended
  <2>2. ASSUME Ended(file, r) PROVE Ended(file', r)
    BY <1>1, <1>2, <2>2 DEF Ended
  <2>3. ASSUME e.id = r, IsWhole(e) PROVE Ended(file', r)
    <3>1. Len(file) + 1 \in DOMAIN file'
      BY <1>1, <1>2
    <3>q. QED BY <1>2, <2>3, <3>1 DEF Ended
  <2>q. QED BY <2>1, <2>2, <2>3
<1>q. QED BY <1>2, <1>3 DEF Appended

WriteAllEffect(c) ==
  /\ pc[c] = "write"
  /\ wbuf[c] \in Buf /\ state[wbuf[c]] = "READY"
  /\ pending # -1 => pending = wbuf[c]
  /\ IsWhole(Chunk(wbuf[c], left[wbuf[c]]))
  /\ Appended(Chunk(wbuf[c], left[wbuf[c]]))
  /\ file' = Append(file, Chunk(wbuf[c], left[wbuf[c]]))
  /\ UNCHANGED <<state, rec, off, left, mapped, pending, current_codes,
                 idx, has, more, nrec, committed>>
  /\ \A b \in Buf : ~Written(b) /\ (Written(b)' <=> b = wbuf[c])
  /\ \A d \in Ctx : pc'[d] = "clearPending" => pc[d] = "clearPending"

LEMMA WriteAllFacts ==
  ASSUME IInv, NEW c \in Ctx, WriteAll(c)
  PROVE  WriteAllEffect(c)
<1>1. pc[c] = "write" /\ wbuf' = wbuf /\ pc' = [pc EXCEPT ![c] = "clear"]
  BY DEF WriteAll, Goto
<1>2. \A b \in Buf : ~Written(b)
  BY <1>1, WriterFacts DEF Written, Section
<1>3. \A b \in Buf : Written(b)' <=> b = wbuf[c]
  BY <1>1, WriterFacts DEF Written, Section, IInv, TypeOK, LocalType
<1>4. Chunk(wbuf[c], left[wbuf[c]]) \in Entries
  BY <1>1, WriterFacts DEF Chunk, Entries, IInv, TypeOK, PoolType
<1>5. Appended(Chunk(wbuf[c], left[wbuf[c]]))
  BY <1>4, AppendEntry DEF WriteAll, IInv
<1>6. \A d \in Ctx : pc'[d] = "clearPending" => pc[d] = "clearPending"
  BY <1>1 DEF IInv, TypeOK, LocalType
<1>q. QED BY <1>1, <1>2, <1>3, <1>5, <1>6, WriterFacts
          DEF WriteAllEffect, WriteAll, Chunk, IsWhole, pool

WriteSomeEffect(c) ==
  /\ pc[c] = "write"
  /\ wbuf[c] \in Buf /\ state[wbuf[c]] = "READY"
  /\ pending # -1 => pending = wbuf[c]
  /\ \E k \in 1 .. left[wbuf[c]] - 1 :
       /\ ~IsWhole(Chunk(wbuf[c], k))
       /\ file' = Append(file, Chunk(wbuf[c], k))
       /\ Appended(Chunk(wbuf[c], k))
       /\ \A b \in Buf : /\ off'[b] = IF b = wbuf[c] THEN off[b] + k ELSE off[b]
                         /\ left'[b] = IF b = wbuf[c] THEN left[b] - k ELSE left[b]
  /\ pending' = wbuf[c]
  /\ UNCHANGED <<state, rec, mapped, current_codes, has, more, nrec, committed>>
  /\ \A b \in Buf : ~Written(b) /\ ~Written(b)'
  /\ pc'[c] # "clearPending" /\ \A d \in Ctx : d # c => pc'[d] = pc[d]
  /\ \A d \in Ctx : pc[d] \in Section => d = c

LEMMA WriteSomeFacts ==
  ASSUME IInv, NEW c \in Ctx, WriteSome(c)
  PROVE  WriteSomeEffect(c)
<1>1. pc[c] = "write" /\ Return(c)
  BY DEF WriteSome
<1>2. \A b \in Buf : ~Written(b)
  BY <1>1, WriterFacts DEF Written, Section
<1>3. /\ pc'[c] \notin {"clear", "clearPending"}
      /\ \A d \in Ctx : d # c => pc'[d] = pc[d] /\ wbuf'[d] = wbuf[d]
  BY <1>1 DEF Return, Goto, IInv, TypeOK, LocalType
<1>4. \A b \in Buf : ~Written(b)'
  BY <1>1, <1>3, WriterFacts DEF Written, Section
<1>5. PICK k \in 1 .. left[wbuf[c]] - 1 :
        /\ file' = Append(file, Chunk(wbuf[c], k))
        /\ off' = [off EXCEPT ![wbuf[c]] = @ + k]
        /\ left' = [left EXCEPT ![wbuf[c]] = @ - k]
  BY DEF WriteSome
<1>6. left[wbuf[c]] \in Nat /\ off[wbuf[c]] \in Nat /\ rec[wbuf[c]] \in Nat
  BY <1>1, WriterFacts DEF IInv, TypeOK, PoolType
<1>7. Chunk(wbuf[c], k) \in Entries /\ ~IsWhole(Chunk(wbuf[c], k))
  BY <1>5, <1>6 DEF Chunk, Entries, IsWhole
<1>8. Appended(Chunk(wbuf[c], k))
  BY <1>5, <1>7, AppendEntry DEF IInv
<1>9. /\ pending' = wbuf[c]
      /\ UNCHANGED <<state, rec, mapped, current_codes, has, more, nrec, committed>>
  BY DEF WriteSome
<1>10. \A b \in Buf : /\ off'[b] = IF b = wbuf[c] THEN off[b] + k ELSE off[b]
                     /\ left'[b] = IF b = wbuf[c] THEN left[b] - k ELSE left[b]
  BY <1>1, <1>5, WriterFacts DEF IInv, TypeOK, PoolType
<1>q. QED BY <1>1, <1>2, <1>3, <1>4, <1>5, <1>7, <1>8, <1>9, <1>10,
             WriterFacts DEF WriteSomeEffect

SetUnusedEffect(c) ==
  /\ pc[c] = "clear"
  /\ wbuf[c] \in Buf /\ state[wbuf[c]] = "READY"
  /\ pending # -1 => pending = wbuf[c]
  /\ \A b \in Buf : state'[b] = IF b = wbuf[c] THEN "UNUSED" ELSE state[b]
  /\ UNCHANGED <<rec, off, left, mapped, pending, current_codes, idx, has,
                 more, nrec, committed, file>>
  /\ \A b \in Buf : ~Written(b)' /\ (Written(b) <=> b = wbuf[c])

LEMMA SetUnusedFacts ==
  ASSUME IInv, NEW c \in Ctx, SetUnused(c)
  PROVE  SetUnusedEffect(c)
<1>1. /\ pc[c] = "clear" /\ wbuf' = wbuf
      /\ pc' = [pc EXCEPT ![c] = "clearPending"]
  BY DEF SetUnused, Goto
<1>2. \A b \in Buf : ~Written(b)' /\ (Written(b) <=> b = wbuf[c])
  BY <1>1, WriterFacts DEF Written, Section, IInv, TypeOK, LocalType
<1>3. \A b \in Buf : state'[b] = IF b = wbuf[c] THEN "UNUSED" ELSE state[b]
  BY <1>1, WriterFacts DEF SetUnused, IInv, TypeOK, PoolType
<1>q. QED BY <1>1, <1>2, <1>3, WriterFacts DEF SetUnusedEffect, SetUnused

\* The other steps on a buffer do not write it.
TakesEffect(c) ==
  /\ pc[c] = "resvCAS" /\ idx[c] \in Buf /\ state[idx[c]] = "UNUSED"
  /\ \A b \in Buf :
       /\ state'[b] = IF b = idx[c] THEN "FILLING" ELSE state[b]
       /\ rec'[b] = IF b = idx[c] THEN nrec + 1 ELSE rec[b]
       /\ off'[b] = IF b = idx[c] THEN 0 ELSE off[b]
       /\ left'[b] = IF b = idx[c] THEN 0 ELSE left[b]
       /\ Written(b)' <=> Written(b)
  /\ nrec' = nrec + 1
  /\ UNCHANGED <<mapped, pending, current_codes, wbuf, has, committed, file>>
  /\ pc' = [pc EXCEPT ![c] = "fill"] /\ more' = [more EXCEPT ![c] = FALSE]

LEMMA TakesFacts ==
  ASSUME IInv, NEW c \in Ctx, Takes(c)
  PROVE  TakesEffect(c)
<1>1. pc[c] = "resvCAS" /\ idx[c] \in Buf
  BY DEF Takes, Reserve, IInv, IndexInv
<1>2. pc' = [pc EXCEPT ![c] = "fill"] /\ wbuf' = wbuf
  BY DEF Takes, Reserve, Goto
<1>3. \A b \in Buf : Written(b)' <=> Written(b)
  BY <1>1, <1>2 DEF Written, IInv, TypeOK, LocalType
<1>q. QED BY <1>1, <1>2, <1>3 DEF TakesEffect, Takes, Reserve, IInv, TypeOK, PoolType

FillsEffect(c) ==
  /\ pc[c] = "fill" /\ idx[c] \in Buf /\ state[idx[c]] = "FILLING"
  /\ \A b \in Buf : /\ b # idx[c] => left'[b] = left[b]
                    /\ Written(b)' <=> Written(b)
  /\ UNCHANGED <<state, rec, off, mapped, pending, nrec, current_codes, wbuf,
                 has, idx, committed, file>>
  /\ \E l \in {"commit", "k_attach"} : pc' = [pc EXCEPT ![c] = l]

LEMMA FillsFacts ==
  ASSUME IInv, NEW c \in Ctx, Fills(c)
  PROVE  FillsEffect(c)
<1>1. pc[c] = "fill"
  BY DEF Fills, FillSample, AppendName
<1>2. \E l \in {"commit", "k_attach"} : pc' = [pc EXCEPT ![c] = l]
  BY DEF Fills, FillSample, AppendName, Goto
<1>3. wbuf' = wbuf
  BY DEF Fills, FillSample, AppendName
<1>4. \A b \in Buf : Written(b)' <=> Written(b)
  BY <1>1, <1>2, <1>3 DEF Written, IInv, TypeOK, LocalType
<1>5. \A b \in Buf : b # idx[c] => left'[b] = left[b]
  BY DEF Fills, FillSample, AppendName, IInv, TypeOK, PoolType
<1>q. QED BY <1>1, <1>2, <1>3, <1>4, <1>5, OwnerFacts
          DEF FillsEffect, Fills, FillSample, AppendName

CancelEffect(c) ==
  /\ pc[c] = "fill" /\ idx[c] \in Buf /\ state[idx[c]] = "FILLING"
  /\ \A b \in Buf :
       /\ state'[b] = IF b = idx[c] THEN "UNUSED" ELSE state[b]
       /\ Written(b)' <=> Written(b)
  /\ UNCHANGED <<rec, off, left, mapped, pending, nrec, current_codes, wbuf,
                 has, more, committed, file>>
  /\ pc' = [pc EXCEPT ![c] = "idle"]

LEMMA CancelFacts ==
  ASSUME IInv, NEW c \in Handlers, Cancel(c)
  PROVE  CancelEffect(c)
<1>1. c \in Ctx /\ pc[c] = "fill"
  BY ContextFacts DEF Cancel
<1>2. pc' = [pc EXCEPT ![c] = "idle"] /\ wbuf' = wbuf
  BY DEF Cancel, Goto
<1>3. \A b \in Buf : Written(b)' <=> Written(b)
  BY <1>1, <1>2 DEF Written, IInv, TypeOK, LocalType
<1>q. QED BY <1>1, <1>2, <1>3, OwnerFacts
          DEF CancelEffect, Cancel, IInv, TypeOK, PoolType

CommitEffect(c) ==
  /\ pc[c] = "commit" /\ idx[c] \in Buf /\ state[idx[c]] = "FILLING"
  /\ \A b \in Buf : /\ state'[b] = IF b = idx[c] THEN "READY" ELSE state[b]
                    /\ Written(b)' <=> Written(b)
  /\ ~Written(idx[c])
  /\ DOMAIN committed' = DOMAIN committed \cup {rec[idx[c]]}
  /\ \A r \in DOMAIN committed' :
       committed'[r] = IF r = rec[idx[c]] THEN left[idx[c]] ELSE committed[r]
  /\ UNCHANGED <<rec, off, left, mapped, pending, nrec, current_codes, wbuf,
                 has, idx, more, file>>
  /\ pc' = [pc EXCEPT ![c] = "commitCAS"]

LEMMA CommitFacts ==
  ASSUME IInv, NEW c \in Ctx, Commit(c)
  PROVE  CommitEffect(c)
<1>1. pc[c] = "commit"
  BY DEF Commit
<1>2. pc' = [pc EXCEPT ![c] = "commitCAS"] /\ wbuf' = wbuf
  BY DEF Commit, Goto
<1>3. \A b \in Buf : Written(b)' <=> Written(b)
  BY <1>1, <1>2 DEF Written, IInv, TypeOK, LocalType
<1>4. ~Written(idx[c])
  BY <1>1, OwnerFacts DEF Written, IInv, ReadyInv
<1>5. \A b \in Buf : state'[b] = IF b = idx[c] THEN "READY" ELSE state[b]
  BY <1>1, OwnerFacts DEF Commit, IInv, TypeOK, PoolType
<1>q. QED BY <1>1, <1>2, <1>3, <1>4, <1>5, OwnerFacts DEF CommitEffect, Commit

UnmapEffect ==
  /\ pc[Closer] = "unmap" /\ pc' = [pc EXCEPT ![Closer] = "idle"]
  /\ mapped /\ ~mapped'
  /\ UNCHANGED <<state, rec, off, left, pending, nrec, current_codes, wbuf,
                 idx, more, committed, file>>
  /\ \A b \in Buf : Written(b)' <=> Written(b)

LEMMA UnmapFacts ==
  ASSUME IInv, Unmap
  PROVE  UnmapEffect
<1>1. pc[Closer] = "unmap" /\ wbuf' = wbuf /\ pc' = [pc EXCEPT ![Closer] = "idle"]
  BY DEF Unmap, Goto
<1>2. \A b \in Buf : Written(b)' <=> Written(b)
  BY <1>1, ContextFacts DEF Written, IInv, TypeOK, LocalType
<1>q. QED BY <1>1, <1>2 DEF UnmapEffect, Unmap, IInv, ClosingInv

PrepareEffect ==
  /\ file' = <<>> /\ committed' = <<>> /\ nrec' = 0 /\ pending' = -1
  /\ \A b \in Buf : /\ state'[b] = "UNUSED"
                    /\ ~Written(b)'
  /\ current_codes' = -1
  /\ ~mapped /\ mapped'
  /\ \A c \in Ctx : pc[c] = "idle" /\ pc'[c] = "idle"
  /\ UNCHANGED locals

LEMMA PrepareFacts ==
  ASSUME IInv, Prepare
  PROVE  PrepareEffect
<1>1. \A c \in Ctx : pc'[c] = "idle" /\ pc[c] = "idle"
  BY DEF Prepare, locals, Idle
<1>2. \A b \in Buf : ~Written(b)'
  BY <1>1 DEF Written
<1>q. QED BY <1>1, <1>2 DEF PrepareEffect, Prepare, IInv, MappedInv

\* What IInv says of types, in the form the steps below need it.
PoolTypes ==
  /\ \A b \in Buf : /\ rec[b] \in Nat /\ off[b] \in Nat /\ left[b] \in Nat
                    /\ state[b] \in {"UNUSED", "FILLING", "READY"}
                    /\ state[b] # "UNUSED" => rec[b] \in 1 .. nrec
  /\ nrec \in Nat /\ pending \in Buf \cup {-1} /\ -1 \notin Buf
  /\ \A r \in DOMAIN committed : r \in 1 .. nrec /\ committed[r] \in Nat
  /\ Len(file) \in Nat /\ DOMAIN file = 1 .. Len(file)
  /\ \A k \in DOMAIN file : file[k] \in Entries

LEMMA Types == IInv => PoolTypes
<1> SUFFICES ASSUME IInv PROVE PoolTypes
  OBVIOUS
<1>1. \A b \in Buf : /\ rec[b] \in Nat /\ off[b] \in Nat /\ left[b] \in Nat
                     /\ state[b] \in {"UNUSED", "FILLING", "READY"}
                     /\ state[b] # "UNUSED" => rec[b] \in 1 .. nrec
  BY DEF IInv, TypeOK, PoolType, RecordInv
<1>2. nrec \in Nat /\ pending \in Buf \cup {-1} /\ -1 \notin Buf
  BY DEF IInv, TypeOK, SharedType, HistoryType, Buf
<1>3. \A r \in DOMAIN committed : r \in 1 .. nrec /\ committed[r] \in Nat
  BY DEF IInv, TypeOK, HistoryType
<1>4. file \in Seq(Entries)
  BY DEF IInv, TypeOK, HistoryType, Entries
<1>5. /\ Len(file) \in Nat /\ DOMAIN file = 1 .. Len(file)
      /\ \A k \in DOMAIN file : file[k] \in Entries
  BY <1>4
<1>q. QED BY <1>1, <1>2, <1>3, <1>5 DEF PoolTypes

-----------------------------------------------------------------------------
\* Every step has one of these effects.
Effect(c) ==
  \/ LooksEffect(c) \/ TakesEffect(c) \/ FillsEffect(c) \/ CancelEffect(c)
  \/ CommitEffect(c) \/ WriteAllEffect(c) \/ WriteSomeEffect(c)
  \/ SetUnusedEffect(c) \/ PrepareEffect \/ UnmapEffect

LEMMA Effects ==
  ASSUME IInv, NEW c \in Ctx, Step(c)
  PROVE  Effect(c)
<1>1. CASE Looks(c)
  BY <1>1, LooksKeep DEF Effect
<1>2. CASE Takes(c)
  BY <1>2, TakesFacts DEF Effect
<1>3. CASE Fills(c)
  BY <1>3, FillsFacts DEF Effect
<1>4. CASE c \in Handlers /\ Cancel(c)
  BY <1>4, CancelFacts DEF Effect
<1>5. CASE Commit(c)
  BY <1>5, CommitFacts DEF Effect
<1>6. CASE WriteAll(c)
  BY <1>6, WriteAllFacts DEF Effect
<1>7. CASE WriteSome(c)
  BY <1>7, WriteSomeFacts DEF Effect
<1>8. CASE SetUnused(c)
  BY <1>8, SetUnusedFacts DEF Effect
<1>9. CASE Prepare
  BY <1>9, PrepareFacts DEF Effect
<1>10. CASE Unmap
  BY <1>10, UnmapFacts DEF Effect
<1>q. QED BY StepCases, <1>1, <1>2, <1>3, <1>4, <1>5, <1>6, <1>7, <1>8, <1>9,
             <1>10

\* Two buffers never get the same record: the number is new when it is
\* given.
LEMMA DistinctKept ==
  ASSUME PoolTypes, DistinctInv, NEW c \in Ctx, Effect(c)
  PROVE  DistinctInv'
<1> USE DEF PoolTypes, DistinctInv
<1>1. CASE LooksEffect(c)
  BY <1>1 DEF LooksEffect
<1>2. CASE TakesEffect(c)
  BY <1>2 DEF TakesEffect
<1>3. CASE FillsEffect(c)
  BY <1>3 DEF FillsEffect
<1>4. CASE CancelEffect(c)
  BY <1>4 DEF CancelEffect
<1>5. CASE CommitEffect(c)
  BY <1>5 DEF CommitEffect
<1>6. CASE WriteAllEffect(c)
  BY <1>6 DEF WriteAllEffect
<1>7. CASE WriteSomeEffect(c)
  BY <1>7 DEF WriteSomeEffect
<1>8. CASE SetUnusedEffect(c)
  BY <1>8 DEF SetUnusedEffect
<1>9. CASE PrepareEffect
  BY <1>9 DEF PrepareEffect
<1>10. CASE UnmapEffect
  BY <1>10 DEF UnmapEffect
<1>q. QED BY <1>1, <1>2, <1>3, <1>4, <1>5, <1>6, <1>7, <1>8, <1>9, <1>10 DEF
      Effect

\* A record is committed once: a buffer that is being filled holds none of
\* the committed ones.
LEMMA FreshKept ==
  ASSUME PoolTypes, DistinctInv, FreshInv, NEW c \in Ctx, Effect(c)
  PROVE  FreshInv'
<1> USE DEF PoolTypes, DistinctInv, FreshInv
<1>1. CASE LooksEffect(c)
  BY <1>1 DEF LooksEffect
<1>2. CASE TakesEffect(c)
  BY <1>2 DEF TakesEffect
<1>3. CASE FillsEffect(c)
  BY <1>3 DEF FillsEffect
<1>4. CASE CancelEffect(c)
  BY <1>4 DEF CancelEffect
<1>5. CASE CommitEffect(c)
  BY <1>5 DEF CommitEffect
<1>6. CASE WriteAllEffect(c)
  BY <1>6 DEF WriteAllEffect
<1>7. CASE WriteSomeEffect(c)
  BY <1>7 DEF WriteSomeEffect
<1>8. CASE SetUnusedEffect(c)
  BY <1>8 DEF SetUnusedEffect
<1>9. CASE PrepareEffect
  BY <1>9 DEF PrepareEffect
<1>10. CASE UnmapEffect
  BY <1>10 DEF UnmapEffect
<1>q. QED BY <1>1, <1>2, <1>3, <1>4, <1>5, <1>6, <1>7, <1>8, <1>9, <1>10 DEF
      Effect

\* A READY buffer has what is missing of its record in the file.
LEMMA ReadySizeKept ==
  ASSUME PoolTypes, DistinctInv, FreshInv, FillInv, ReadySizeInv, NEW c \in
         Ctx, Effect(c)
  PROVE  ReadySizeInv'
<1> USE DEF PoolTypes, DistinctInv, FreshInv, FillInv, ReadySizeInv
<1>1. CASE LooksEffect(c)
  BY <1>1 DEF LooksEffect
<1>2. CASE TakesEffect(c)
  BY <1>2 DEF TakesEffect
<1>3. CASE FillsEffect(c)
  BY <1>3 DEF FillsEffect
<1>4. CASE CancelEffect(c)
  BY <1>4 DEF CancelEffect
<1>5. CASE CommitEffect(c)
  BY <1>5 DEF CommitEffect
<1>6. CASE WriteAllEffect(c)
  BY <1>6 DEF WriteAllEffect
<1>7. CASE WriteSomeEffect(c)
  <2>1. PICK k \in 1 .. left[wbuf[c]] - 1 :
          /\ ~IsWhole(Chunk(wbuf[c], k))
          /\ Appended(Chunk(wbuf[c], k))
          /\ \A b \in Buf : /\ off'[b] = IF b = wbuf[c] THEN off[b] + k ELSE off[b]
                            /\ left'[b] = IF b = wbuf[c] THEN left[b] - k ELSE left[b]
    BY <1>7 DEF WriteSomeEffect
  <2>2. /\ wbuf[c] \in Buf /\ state[wbuf[c]] = "READY"
        /\ pending # -1 => pending = wbuf[c]
        /\ pending' = wbuf[c]
        /\ UNCHANGED <<state, rec, committed>>
        /\ \A b \in Buf : ~Written(b) /\ ~Written(b)'
    BY <1>7 DEF WriteSomeEffect
  <2>3. off[wbuf[c]] \in Nat /\ left[wbuf[c]] \in Nat
    BY <2>2
  <2>4. off'[wbuf[c]] + left'[wbuf[c]] = off[wbuf[c]] + left[wbuf[c]] /\ left'[wbuf[c]] > 0
    <3>1. off'[wbuf[c]] = off[wbuf[c]] + k /\ left'[wbuf[c]] = left[wbuf[c]] - k
      BY <2>1, <2>2
    <3>2. PICK o \in Nat, l \in Nat : o = off[wbuf[c]] /\ l = left[wbuf[c]]
      BY <2>3
    <3>3. k \in 1 .. l - 1
      BY <3>2
    <3>4. (o + k) + (l - k) = o + l /\ l - k > 0
      BY <3>3
    <3>q. QED BY <3>1, <3>2, <3>4
  <2>5. \A b \in Buf \ {wbuf[c]} : off'[b] = off[b] /\ left'[b] = left[b]
    BY <2>1
  <2>q. QED BY <2>2, <2>4, <2>5
<1>8. CASE SetUnusedEffect(c)
  BY <1>8 DEF SetUnusedEffect
<1>9. CASE PrepareEffect
  BY <1>9 DEF PrepareEffect
<1>10. CASE UnmapEffect
  BY <1>10 DEF UnmapEffect
<1>q. QED BY <1>1, <1>2, <1>3, <1>4, <1>5, <1>6, <1>7, <1>8, <1>9, <1>10 DEF
      Effect

\* What is written is a part of a committed record.
LEMMA EntryKept ==
  ASSUME PoolTypes, FreshInv, FillInv, ReadySizeInv, EntryInv, NEW c \in Ctx,
         Effect(c)
  PROVE  EntryInv'
<1> USE DEF PoolTypes, Chunk, FreshInv, FillInv, ReadySizeInv, EntryInv
<1>1. CASE LooksEffect(c)
  BY <1>1 DEF LooksEffect
<1>2. CASE TakesEffect(c)
  BY <1>2 DEF TakesEffect
<1>3. CASE FillsEffect(c)
  BY <1>3 DEF FillsEffect
<1>4. CASE CancelEffect(c)
  BY <1>4 DEF CancelEffect
<1>5. CASE CommitEffect(c)
  BY <1>5 DEF CommitEffect
<1>6. CASE WriteAllEffect(c)
  BY <1>6 DEF WriteAllEffect
<1>7. CASE WriteSomeEffect(c)
  <2>1. PICK k \in 1 .. left[wbuf[c]] - 1 :
          /\ ~IsWhole(Chunk(wbuf[c], k))
          /\ Appended(Chunk(wbuf[c], k))
          /\ \A b \in Buf : /\ off'[b] = IF b = wbuf[c] THEN off[b] + k ELSE off[b]
                            /\ left'[b] = IF b = wbuf[c] THEN left[b] - k ELSE left[b]
    BY <1>7 DEF WriteSomeEffect
  <2>2. /\ wbuf[c] \in Buf /\ state[wbuf[c]] = "READY"
        /\ pending # -1 => pending = wbuf[c]
        /\ pending' = wbuf[c]
        /\ UNCHANGED <<state, rec, committed>>
        /\ \A b \in Buf : ~Written(b) /\ ~Written(b)'
    BY <1>7 DEF WriteSomeEffect
  <2>3. off[wbuf[c]] \in Nat /\ left[wbuf[c]] \in Nat
    BY <2>2
  <2>4. off[wbuf[c]] + k <= off[wbuf[c]] + left[wbuf[c]]
    BY <2>1, <2>3
  <2>5. \A j \in DOMAIN file' \ DOMAIN file : file'[j] = Chunk(wbuf[c], k)
    BY <2>1 DEF Appended
  <2>6. \A j \in DOMAIN file : file'[j] = file[j]
    BY <2>1 DEF Appended
  <2>7. committed[rec[wbuf[c]]] = off[wbuf[c]] + left[wbuf[c]] /\ rec[wbuf[c]] \in DOMAIN committed
    BY <2>2
  <2>q. QED BY <2>2, <2>4, <2>5, <2>6, <2>7
<1>8. CASE SetUnusedEffect(c)
  BY <1>8 DEF SetUnusedEffect
<1>9. CASE PrepareEffect
  BY <1>9 DEF PrepareEffect
<1>10. CASE UnmapEffect
  BY <1>10 DEF UnmapEffect
<1>q. QED BY <1>1, <1>2, <1>3, <1>4, <1>5, <1>6, <1>7, <1>8, <1>9, <1>10 DEF
      Effect

\* A record whose end is written waited in a buffer.
LEMMA OnceKept ==
  ASSUME PoolTypes, EntryInv, WrittenInv, OnceInv, NEW c \in Ctx, Effect(c)
  PROVE  OnceInv'
<1> USE DEF PoolTypes, Chunk, IsWhole, EntryInv, WrittenInv, OnceInv
<1>1. CASE LooksEffect(c)
  BY <1>1 DEF LooksEffect
<1>2. CASE TakesEffect(c)
  BY <1>2 DEF TakesEffect
<1>3. CASE FillsEffect(c)
  BY <1>3 DEF FillsEffect
<1>4. CASE CancelEffect(c)
  BY <1>4 DEF CancelEffect
<1>5. CASE CommitEffect(c)
  BY <1>5 DEF CommitEffect
<1>6. CASE WriteAllEffect(c)
  <2>1. \A k \in DOMAIN file : ~(file[k].id = rec[wbuf[c]] /\ IsWhole(file[k]))
    BY <1>6 DEF WriteAllEffect, Ended
  <2>q. QED BY <1>6, <2>1 DEF WriteAllEffect, Appended
<1>7. CASE WriteSomeEffect(c)
  <2>1. PICK k \in 1 .. left[wbuf[c]] - 1 :
          /\ ~IsWhole(Chunk(wbuf[c], k))
          /\ Appended(Chunk(wbuf[c], k))
          /\ \A b \in Buf : /\ off'[b] = IF b = wbuf[c] THEN off[b] + k ELSE off[b]
                            /\ left'[b] = IF b = wbuf[c] THEN left[b] - k ELSE left[b]
    BY <1>7 DEF WriteSomeEffect
  <2>2. /\ wbuf[c] \in Buf /\ state[wbuf[c]] = "READY"
        /\ pending # -1 => pending = wbuf[c]
        /\ pending' = wbuf[c]
        /\ UNCHANGED <<state, rec, committed>>
        /\ \A b \in Buf : ~Written(b) /\ ~Written(b)'
    BY <1>7 DEF WriteSomeEffect
  <2>3. \A j \in DOMAIN file' : IsWhole(file'[j]) => j \in DOMAIN file /\ file'[j] = file[j]
    BY <2>1 DEF Appended
  <2>q. QED BY <2>3
<1>8. CASE SetUnusedEffect(c)
  BY <1>8 DEF SetUnusedEffect
<1>9. CASE PrepareEffect
  BY <1>9 DEF PrepareEffect
<1>10. CASE UnmapEffect
  BY <1>10 DEF UnmapEffect
<1>q. QED BY <1>1, <1>2, <1>3, <1>4, <1>5, <1>6, <1>7, <1>8, <1>9, <1>10 DEF
      Effect

\* A record is in the file to its end exactly when its buffer is about to be
\* released.
LEMMA WrittenKept ==
  ASSUME PoolTypes, DistinctInv, FreshInv, EntryInv, WrittenInv, NEW c \in
         Ctx, Effect(c)
  PROVE  WrittenInv'
<1> USE DEF PoolTypes, DistinctInv, FreshInv, EntryInv, WrittenInv
<1>1. CASE LooksEffect(c)
  BY <1>1 DEF LooksEffect
<1>2. CASE TakesEffect(c)
  BY <1>2 DEF TakesEffect
<1>3. CASE FillsEffect(c)
  BY <1>3 DEF FillsEffect
<1>4. CASE CancelEffect(c)
  BY <1>4 DEF CancelEffect
<1>5. CASE CommitEffect(c)
  <2>1. ~Ended(file, rec[idx[c]])
    BY <1>5 DEF CommitEffect, Ended
  <2>q. QED BY <1>5, <2>1 DEF CommitEffect
<1>6. CASE WriteAllEffect(c)
  <2>1. \A b \in Buf : state'[b] = state[b] /\ rec'[b] = rec[b]
    BY <1>6 DEF WriteAllEffect
  <2>2. \A r : Ended(file', r) <=> Ended(file, r) \/ r = rec[wbuf[c]]
    BY <1>6 DEF WriteAllEffect, Appended, Chunk
  <2>q. QED BY <1>6, <2>1, <2>2 DEF WriteAllEffect
<1>7. CASE WriteSomeEffect(c)
  <2>1. PICK k \in 1 .. left[wbuf[c]] - 1 :
          /\ ~IsWhole(Chunk(wbuf[c], k))
          /\ Appended(Chunk(wbuf[c], k))
          /\ \A b \in Buf : /\ off'[b] = IF b = wbuf[c] THEN off[b] + k ELSE off[b]
                            /\ left'[b] = IF b = wbuf[c] THEN left[b] - k ELSE left[b]
    BY <1>7 DEF WriteSomeEffect
  <2>2. /\ wbuf[c] \in Buf /\ state[wbuf[c]] = "READY"
        /\ pending # -1 => pending = wbuf[c]
        /\ pending' = wbuf[c]
        /\ UNCHANGED <<state, rec, committed>>
        /\ \A b \in Buf : ~Written(b) /\ ~Written(b)'
    BY <1>7 DEF WriteSomeEffect
  <2>3. \A r : Ended(file', r) <=> Ended(file, r)
    BY <2>1 DEF Appended
  <2>q. QED BY <2>2, <2>3
<1>8. CASE SetUnusedEffect(c)
  BY <1>8 DEF SetUnusedEffect
<1>9. CASE PrepareEffect
  BY <1>9 DEF PrepareEffect
<1>10. CASE UnmapEffect
  BY <1>10 DEF UnmapEffect
<1>q. QED BY <1>1, <1>2, <1>3, <1>4, <1>5, <1>6, <1>7, <1>8, <1>9, <1>10 DEF
      Effect

\* A buffer is released only after its record is in the file.
LEMMA KeptKept ==
  ASSUME PoolTypes, WrittenInv, KeptInv, NEW c \in Ctx, Effect(c)
  PROVE  KeptInv'
<1> USE DEF PoolTypes, InPool, WrittenInv, KeptInv
<1>1. CASE LooksEffect(c)
  BY <1>1 DEF LooksEffect
<1>2. CASE TakesEffect(c)
  BY <1>2 DEF TakesEffect
<1>3. CASE FillsEffect(c)
  BY <1>3 DEF FillsEffect
<1>4. CASE CancelEffect(c)
  BY <1>4 DEF CancelEffect
<1>5. CASE CommitEffect(c)
  BY <1>5 DEF CommitEffect
<1>6. CASE WriteAllEffect(c)
  <2>1. \A r : Ended(file, r) => Ended(file', r)
    BY <1>6 DEF WriteAllEffect, Appended
  <2>q. QED BY <1>6, <2>1 DEF WriteAllEffect
<1>7. CASE WriteSomeEffect(c)
  <2>1. \A r : Ended(file, r) => Ended(file', r)
    BY <1>7 DEF WriteSomeEffect, Appended
  <2>q. QED BY <1>7, <2>1 DEF WriteSomeEffect
<1>8. CASE SetUnusedEffect(c)
  BY <1>8 DEF SetUnusedEffect
<1>9. CASE PrepareEffect
  BY <1>9 DEF PrepareEffect
<1>10. CASE UnmapEffect
  BY <1>10 DEF UnmapEffect
<1>q. QED BY <1>1, <1>2, <1>3, <1>4, <1>5, <1>6, <1>7, <1>8, <1>9, <1>10 DEF
      Effect

\* Nobody turns to another buffer while one is half written.
LEMMA PartKept ==
  ASSUME PoolTypes, FreshInv, PartInv, NEW c \in Ctx, Effect(c)
  PROVE  PartInv'
<1> USE DEF PoolTypes, Partly, FreshInv, PartInv
<1>1. CASE LooksEffect(c)
  BY <1>1 DEF LooksEffect
<1>2. CASE TakesEffect(c)
  BY <1>2 DEF TakesEffect
<1>3. CASE FillsEffect(c)
  BY <1>3 DEF FillsEffect
<1>4. CASE CancelEffect(c)
  BY <1>4 DEF CancelEffect
<1>5. CASE CommitEffect(c)
  BY <1>5 DEF CommitEffect
<1>6. CASE WriteAllEffect(c)
  BY <1>6 DEF WriteAllEffect
<1>7. CASE WriteSomeEffect(c)
  <2>1. PICK k \in 1 .. left[wbuf[c]] - 1 :
          /\ ~IsWhole(Chunk(wbuf[c], k))
          /\ Appended(Chunk(wbuf[c], k))
          /\ \A b \in Buf : /\ off'[b] = IF b = wbuf[c] THEN off[b] + k ELSE off[b]
                            /\ left'[b] = IF b = wbuf[c] THEN left[b] - k ELSE left[b]
    BY <1>7 DEF WriteSomeEffect
  <2>2. /\ wbuf[c] \in Buf /\ state[wbuf[c]] = "READY"
        /\ pending # -1 => pending = wbuf[c]
        /\ pending' = wbuf[c]
        /\ UNCHANGED <<state, rec, committed>>
        /\ \A b \in Buf : ~Written(b) /\ ~Written(b)'
    BY <1>7 DEF WriteSomeEffect
  <2>3. \A b \in Buf : Partly(b)' => b = wbuf[c]
    BY <2>1, <2>2
  <2>4. \A d \in Ctx : pc'[d] # "clearPending"
    BY <1>7 DEF WriteSomeEffect, Section
  <2>q. QED BY <2>2, <2>3, <2>4
<1>8. CASE SetUnusedEffect(c)
  BY <1>8 DEF SetUnusedEffect
<1>9. CASE PrepareEffect
  BY <1>9 DEF PrepareEffect
<1>10. CASE UnmapEffect
  BY <1>10 DEF UnmapEffect
<1>q. QED BY <1>1, <1>2, <1>3, <1>4, <1>5, <1>6, <1>7, <1>8, <1>9, <1>10 DEF
      Effect

\* The half-written buffer and the end of the file agree.
LEMMA TailKept ==
  ASSUME PoolTypes, FreshInv, ReadySizeInv, PartInv, TailInv, NEW c \in Ctx,
         Effect(c)
  PROVE  TailInv'
<1> USE DEF PoolTypes, Partly, Unfinished, Last, Chunk, FreshInv,
    ReadySizeInv, PartInv, TailInv
<1>1. CASE LooksEffect(c)
  BY <1>1 DEF LooksEffect
<1>2. CASE TakesEffect(c)
  BY <1>2 DEF TakesEffect
<1>3. CASE FillsEffect(c)
  BY <1>3 DEF FillsEffect
<1>4. CASE CancelEffect(c)
  BY <1>4 DEF CancelEffect
<1>5. CASE CommitEffect(c)
  <2>1. \A b \in Buf : Partly(b)' <=> Partly(b)
    BY <1>5 DEF CommitEffect
  <2>q. QED BY <1>5, <2>1 DEF CommitEffect
<1>6. CASE WriteAllEffect(c)
  BY <1>6 DEF WriteAllEffect
<1>7. CASE WriteSomeEffect(c)
  <2>1. PICK k \in 1 .. left[wbuf[c]] - 1 :
          /\ ~IsWhole(Chunk(wbuf[c], k))
          /\ Appended(Chunk(wbuf[c], k))
          /\ \A b \in Buf : /\ off'[b] = IF b = wbuf[c] THEN off[b] + k ELSE off[b]
                            /\ left'[b] = IF b = wbuf[c] THEN left[b] - k ELSE left[b]
    BY <1>7 DEF WriteSomeEffect
  <2>2. /\ wbuf[c] \in Buf /\ state[wbuf[c]] = "READY"
        /\ pending # -1 => pending = wbuf[c]
        /\ pending' = wbuf[c]
        /\ UNCHANGED <<state, rec, committed>>
        /\ \A b \in Buf : ~Written(b) /\ ~Written(b)'
    BY <1>7 DEF WriteSomeEffect
  <2>3. \A b \in Buf : Partly(b)' <=> b = wbuf[c]
    BY <2>1, <2>2
  <2>4. off[wbuf[c]] \in Nat /\ left[wbuf[c]] \in Nat
    BY <2>2
  <2>5. off[wbuf[c]] + k < off[wbuf[c]] + left[wbuf[c]] /\ off'[wbuf[c]] = off[wbuf[c]] + k
    BY <2>1, <2>2, <2>4
  <2>6. Unfinished' /\ Last'.id = rec[wbuf[c]] /\ Last'.upto = off'[wbuf[c]]
    BY <2>1, <2>5 DEF Appended
  <2>q. QED BY <2>2, <2>3, <2>6
<1>8. CASE SetUnusedEffect(c)
  BY <1>8 DEF SetUnusedEffect
<1>9. CASE PrepareEffect
  BY <1>9 DEF PrepareEffect
<1>10. CASE UnmapEffect
  BY <1>10 DEF UnmapEffect
<1>q. QED BY <1>1, <1>2, <1>3, <1>4, <1>5, <1>6, <1>7, <1>8, <1>9, <1>10 DEF
      Effect

\* Who looks for a buffer has something to put there.
LEMMA MoreKept ==
  ASSUME TypeOK, HasInv, PlaceInv, MoreInv, NEW c \in Ctx, Step(c)
  PROVE  MoreInv'
<1> USE SizesAssumption, ContextFacts DEF TypeOK, HasInv, PlaceInv, MoreInv,
    LocalType, Searching, Section, Goto, Idle, pool, locals
<1>1. CASE CheckPending(c) \/ TestReady(c) \/ WriteAll(c)
  BY <1>1 DEF CheckPending, TestReady, Return, WriteAll, Chunk
<1>2. CASE WriteSome(c)
  BY <1>2 DEF WriteSome, Return, Chunk
<1>3. CASE WriteFails(c) \/ SetUnused(c) \/ ResetPending(c)
  BY <1>3 DEF WriteFails, ReturnError, SetUnused, ResetPending, Return
<1>4. CASE (c \in Handlers /\ HandlerBegin(c)) \/ Scan(c) \/ ScanLock(c) \/
             FindUnused(c)
  BY <1>4 DEF HandlerBegin, Scan, ScanLock, FindUnused, NoBuffer
<1>5. CASE Reserve(c)
  BY <1>5 DEF Reserve
<1>6. CASE (c \in Handlers /\ FillSample(c)) \/ (c \in Handlers /\ Cancel(c))
             \/ Commit(c)
  BY <1>6 DEF FillSample, Cancel, Commit
<1>7. CASE CommitLock(c) \/ Unlock(c)
  BY <1>7 DEF CommitLock, AfterCommit, Unlock
<1>8. CASE (c \in Coders /\ CoderBegin(c)) \/ (c \in Coders /\ ReadCodes(c))
  BY <1>8 DEF CoderBegin, ReadCodes
<1>9. CASE (c \in Coders /\ TakeCodes(c))
  BY <1>9 DEF TakeCodes
<1>10. CASE (c \in Coders /\ AppendName(c))
  BY <1>10 DEF AppendName
<1>11. CASE (c \in Coders /\ AttachCodes(c))
  BY <1>11 DEF AttachCodes
<1>12. CASE CloseBegin \/ FlushCodes \/ ShutLock \/ ShutLoop \/ Unmap
  BY <1>12 DEF CloseBegin, FlushCodes, ShutLock, ShutLoop, Unmap
<1>13. CASE Prepare
  BY <1>13 DEF Prepare
<1>q. QED BY <1>1, <1>2, <1>3, <1>4, <1>5, <1>6, <1>7, <1>8, <1>9, <1>10,
          <1>11, <1>12, <1>13 DEF Step

\* A block of names that is full gets no more of them.
LEMMA FillKept ==
  ASSUME TypeOK, IndexInv, MappedInv, HolderInv, FillingInv, ReadyInv,
         FillInv, NEW c \in Ctx, Step(c)
  PROVE  FillInv'
<1> USE SizesAssumption, ContextFacts DEF TypeOK, IndexInv, MappedInv,
    HolderInv, FillingInv, ReadyInv, FillInv, PoolType, SharedType, LocalType,
    Holds, Goto, Idle, pool, locals
<1>1. CASE CheckPending(c)
  BY <1>1 DEF CheckPending
<1>2. CASE TestReady(c)
  BY <1>2 DEF TestReady, Return
<1>3. CASE WriteAll(c)
  BY <1>3 DEF WriteAll, Chunk
<1>4. CASE WriteSome(c)
  <2>1. pc[c] = "write" /\ UNCHANGED <<state, current_codes>>
    BY <1>4 DEF WriteSome
  <2>2. PICK k \in 1 .. left[wbuf[c]] - 1 : left' = [left EXCEPT ![wbuf[c]] = left[wbuf[c]] - k]
    BY <1>4 DEF WriteSome
  <2>3. \A b \in Buf : b # wbuf[c] => left'[b] = left[b]
    BY <2>2
  <2>4. /\ pc'[c] \notin {"fill", "commit", "k_attach"}
        /\ \A d \in Ctx : d # c => pc'[d] = pc[d] /\ idx'[d] = idx[d]
    BY <1>4 DEF WriteSome, Return
  <2>5. state[wbuf[c]] = "READY"
    BY <2>1
  <2>q. QED BY <2>1, <2>3, <2>4, <2>5
<1>5. CASE WriteFails(c) \/ SetUnused(c) \/ ResetPending(c)
  BY <1>5 DEF WriteFails, ReturnError, SetUnused, ResetPending, Return
<1>6. CASE (c \in Handlers /\ HandlerBegin(c)) \/ Scan(c) \/ ScanLock(c) \/
             FindUnused(c)
  BY <1>6 DEF HandlerBegin, Scan, ScanLock, FindUnused, NoBuffer
<1>7. CASE Reserve(c)
  BY <1>7 DEF Reserve
<1>8. CASE (c \in Handlers /\ FillSample(c)) \/ (c \in Handlers /\ Cancel(c))
             \/ Commit(c)
  BY <1>8 DEF FillSample, Cancel, Commit
<1>9. CASE CommitLock(c) \/ Unlock(c)
  BY <1>9 DEF CommitLock, AfterCommit, Unlock
<1>10. CASE (c \in Coders /\ CoderBegin(c)) \/ (c \in Coders /\ ReadCodes(c))
  BY <1>10 DEF CoderBegin, ReadCodes
<1>11. CASE (c \in Coders /\ TakeCodes(c))
  BY <1>11 DEF TakeCodes
<1>12. CASE (c \in Coders /\ AppendName(c))
  BY <1>12 DEF AppendName
<1>13. CASE (c \in Coders /\ AttachCodes(c))
  BY <1>13 DEF AttachCodes
<1>14. CASE CloseBegin \/ FlushCodes \/ ShutLock \/ ShutLoop \/ Unmap
  BY <1>14 DEF CloseBegin, FlushCodes, ShutLock, ShutLoop, Unmap
<1>15. CASE Prepare
  BY <1>15 DEF Prepare
<1>q. QED BY <1>1, <1>2, <1>3, <1>4, <1>5, <1>6, <1>7, <1>8, <1>9, <1>10,
          <1>11, <1>12, <1>13, <1>14, <1>15 DEF Step

\* While vmprof_disable empties the buffers nobody fills them.
LEMMA LoopKept ==
  ASSUME TypeOK, IndexInv, HasInv, PlaceInv, ClosingInv, MappedInv, LeakInv,
         LockInv, LoopInv, NEW c \in Ctx, Step(c)
  PROVE  LoopInv'
<1> USE SizesAssumption, ContextFacts DEF TypeOK, IndexInv, HasInv, PlaceInv,
    ClosingInv, MappedInv, LeakInv, LockInv, LoopInv, PoolType, LocalType,
    Section, Holds, Goto, Idle, pool, locals
<1>1. CASE CheckPending(c) \/ TestReady(c) \/ WriteAll(c)
  BY <1>1 DEF CheckPending, TestReady, Return, WriteAll, Chunk
<1>2. CASE WriteSome(c)
  BY <1>2 DEF WriteSome, Return, Chunk
<1>3. CASE WriteFails(c) \/ SetUnused(c) \/ ResetPending(c)
  BY <1>3 DEF WriteFails, ReturnError, SetUnused, ResetPending, Return
<1>4. CASE (c \in Handlers /\ HandlerBegin(c)) \/ Scan(c) \/ ScanLock(c) \/
             FindUnused(c)
  BY <1>4 DEF HandlerBegin, Scan, ScanLock, FindUnused, NoBuffer
<1>5. CASE Reserve(c)
  BY <1>5 DEF Reserve
<1>6. CASE (c \in Handlers /\ FillSample(c)) \/ (c \in Handlers /\ Cancel(c))
             \/ Commit(c)
  BY <1>6 DEF FillSample, Cancel, Commit
<1>7. CASE CommitLock(c) \/ Unlock(c)
  BY <1>7 DEF CommitLock, AfterCommit, Unlock
<1>8. CASE (c \in Coders /\ CoderBegin(c)) \/ (c \in Coders /\ ReadCodes(c))
  BY <1>8 DEF CoderBegin, ReadCodes
<1>9. CASE (c \in Coders /\ TakeCodes(c))
  BY <1>9 DEF TakeCodes
<1>10. CASE (c \in Coders /\ AppendName(c))
  BY <1>10 DEF AppendName
<1>11. CASE (c \in Coders /\ AttachCodes(c))
  BY <1>11 DEF AttachCodes
<1>12. CASE CloseBegin
  BY <1>12 DEF CloseBegin
<1>13. CASE FlushCodes
  BY <1>13 DEF FlushCodes
<1>14. CASE ShutLock
  <2>1. \A b \in Buf : ~ (b < 0)
    BY DEF Buf
  <2>q. QED BY <1>14, <2>1 DEF ShutLock
<1>15. CASE ShutLoop
  <2>1. idx[Closer] \in 0 .. NumBufs /\ Buf = 0 .. NumBufs - 1
    BY DEF Buf
  <2>2. CASE idx[Closer] = NumBufs
    BY <1>15, <2>1, <2>2 DEF ShutLoop
  <2>3. CASE idx[Closer] # NumBufs
    <3>1. CASE state[idx[Closer]] = "READY"
      BY <1>15, <2>3, <3>1 DEF ShutLoop
    <3>2. CASE state[idx[Closer]] # "READY"
      <4>1. /\ UNCHANGED <<state, mapped, pc, has>>
            /\ idx' = [idx EXCEPT ![Closer] = idx[Closer] + 1]
            /\ pc[Closer] = "loop"
        BY <1>15, <2>3, <3>2 DEF ShutLoop
      <4>2. idx'[Closer] = idx[Closer] + 1 /\ has[Closer] /\ mapped
        BY <4>1
      <4>3. \A b \in Buf : b < idx[Closer] + 1 => b < idx[Closer] \/ b = idx[Closer]
        BY <2>1
      <4>q. QED BY <3>2, <4>1, <4>2, <4>3
    <3>q. QED BY <3>1, <3>2
  <2>q. QED BY <2>2, <2>3
<1>16. CASE Unmap
  <2>1. /\ pc[Closer] = "unmap" /\ UNCHANGED <<state, idx>>
        /\ pc'[Closer] = "idle" /\ ~has'[Closer]
    BY <1>16 DEF Unmap
  <2>2. \A b \in Buf : current_codes # b
    BY <2>1 DEF Buf
  <2>3. \A d \in Ctx : pc[d] \in {"idle", "unmap"}
    BY <2>1
  <2>4. \A b \in Buf : state[b] = "UNUSED"
    BY <2>1, <2>2, <2>3
  <2>q. QED BY <2>1, <2>4
<1>17. CASE Prepare
  BY <1>17 DEF Prepare
<1>q. QED BY <1>1, <1>2, <1>3, <1>4, <1>5, <1>6, <1>7, <1>8, <1>9, <1>10,
          <1>11, <1>12, <1>13, <1>14, <1>15, <1>16, <1>17 DEF Step

\* The contexts that count against MaxRecords are finitely many.
LEMMA ContextsFinite ==
  \A S : S \subseteq Ctx => IsFiniteSet(S) /\ Cardinality(S) \in Nat
<1>1. IsFiniteSet(Ctx)
  BY ThreadsAssumption, FS_Union, FS_Singleton DEF Ctx
<1>q. QED BY <1>1, FS_Subset, FS_CardinalityType

\* A record number is taken by a context that has been counted.
LEMMA NumberKept ==
  ASSUME IInv, MoreInv, NumberInv, NEW c \in Ctx, Step(c)
  PROVE  NumberInv'
<1>1. /\ IsFiniteSet(Unnumbered) /\ Cardinality(Unnumbered) \in Nat
      /\ IsFiniteSet(Unnumbered') /\ Cardinality(Unnumbered') \in Nat
  <2>1. Unnumbered \subseteq Ctx /\ Unnumbered' \subseteq Ctx
    BY DEF Unnumbered, Ctx
  <2>q. QED BY <2>1, ContextsFinite
<1>2. nrec \in Nat /\ MaxRecords \in Nat /\ NumberInv
  BY SizesAssumption DEF IInv, TypeOK, HistoryType
<1>3. CASE Takes(c)
  <2>1. /\ pc[c] = "resvCAS" /\ pc' = [pc EXCEPT ![c] = "fill"]
        /\ more' = [more EXCEPT ![c] = FALSE] /\ nrec' = nrec + 1
    BY <1>3, TakesFacts DEF TakesEffect
  <2>2. c \in Unnumbered
    BY <2>1 DEF Unnumbered, MoreInv, Searching
  <2>3. Unnumbered' \subseteq Unnumbered \ {c}
    BY <2>1 DEF Unnumbered, IInv, TypeOK, LocalType
  <2>4. /\ IsFiniteSet(Unnumbered \ {c})
        /\ Cardinality(Unnumbered \ {c}) = Cardinality(Unnumbered) - 1
    BY <1>1, <2>2, FS_RemoveElement
  <2>5. Cardinality(Unnumbered') <= Cardinality(Unnumbered) - 1
    BY <2>3, <2>4, FS_Subset
  <2>q. QED BY <1>1, <1>2, <2>1, <2>5 DEF NumberInv
<1>4. CASE (c \in Handlers /\ HandlerBegin(c)) \/ (c \in Coders /\ CoderBegin(c))
  <2>1. nrec' = nrec /\ Cardinality(Unnumbered) + nrec < MaxRecords
    BY <1>4 DEF HandlerBegin, CoderBegin
  <2>2. Unnumbered' \subseteq Unnumbered \cup {c}
    BY <1>4 DEF HandlerBegin, CoderBegin, Unnumbered, Goto, IInv, TypeOK, LocalType
  <2>3. /\ IsFiniteSet(Unnumbered \cup {c})
        /\ Cardinality(Unnumbered \cup {c}) = Cardinality(Unnumbered) + 1
    <3>1. c \notin Unnumbered
      BY <1>4 DEF Unnumbered, HandlerBegin, CoderBegin
    <3>q. QED BY <1>1, <3>1, FS_AddElement
  <2>4. /\ Cardinality(Unnumbered') <= Cardinality(Unnumbered \cup {c})
        /\ Cardinality(Unnumbered \cup {c}) \in Nat
    BY <2>2, <2>3, FS_Subset, FS_CardinalityType
  <2>q. QED BY <1>1, <1>2, <2>1, <2>3, <2>4 DEF NumberInv
<1>5. CASE Prepare
  <2>1. Unnumbered' = {} /\ nrec' = 0
    BY <1>5, PrepareFacts DEF PrepareEffect, Unnumbered
  <2>q. QED BY <1>2, <2>1, FS_EmptySet DEF NumberInv
<1>6. ASSUME Unnumbered' \subseteq Unnumbered, nrec' = nrec
      PROVE  NumberInv'
  <2>1. Cardinality(Unnumbered') <= Cardinality(Unnumbered)
    BY <1>1, <1>6, FS_Subset
  <2>q. QED BY <1>1, <1>2, <1>6, <2>1 DEF NumberInv
<1>7. CASE \/ CheckPending(c) \/ TestReady(c) \/ WriteAll(c) \/ WriteSome(c)
           \/ WriteFails(c) \/ SetUnused(c) \/ ResetPending(c)
  <2>1. /\ pc[c] \in Section /\ more' = more /\ nrec' = nrec
        /\ \A d \in Ctx : d # c => pc'[d] = pc[d]
    BY <1>7 DEF CheckPending, TestReady, Return, WriteAll, WriteSome, WriteFails,
       ReturnError, SetUnused, ResetPending, Section, Goto, IInv, TypeOK, LocalType
  <2>2. Unnumbered' \subseteq Unnumbered
    BY <2>1 DEF Unnumbered, Section
  <2>q. QED BY <1>6, <2>1, <2>2
<1>8. CASE \/ Scan(c) \/ ScanLock(c) \/ FindUnused(c)
           \/ Reserve(c) /\ state[idx[c]] # "UNUSED"
           \/ Commit(c) \/ CommitLock(c) \/ Unlock(c)
           \/ c \in Handlers /\ (FillSample(c) \/ Cancel(c))
           \/ c \in Coders /\ (ReadCodes(c) \/ TakeCodes(c) \/ AppendName(c)
                               \/ AttachCodes(c))
  <2>1. /\ pc[c] \notin {"idle", "flush", "shut", "loop", "unmap"} /\ nrec' = nrec
        /\ more'[c] => more[c]
        /\ \A d \in Ctx : d # c => pc'[d] = pc[d] /\ more'[d] = more[d]
    BY <1>8 DEF Scan, ScanLock, FindUnused, NoBuffer, Reserve, Commit, CommitLock,
       Unlock, FillSample, Cancel, ReadCodes, TakeCodes, AppendName, AttachCodes,
       Goto, IInv, TypeOK, LocalType
  <2>2. Unnumbered' \subseteq Unnumbered
    BY <2>1 DEF Unnumbered
  <2>q. QED BY <1>6, <2>1, <2>2
<1>9. CASE CloseBegin \/ FlushCodes \/ ShutLock \/ ShutLoop \/ Unmap
  <2>1. /\ more' = more /\ nrec' = nrec
        /\ \A d \in Ctx : d # Closer => pc'[d] = pc[d]
    BY <1>9 DEF CloseBegin, FlushCodes, ShutLock, ShutLoop, Unmap, Goto, IInv,
       TypeOK, LocalType
  <2>2. Unnumbered' \subseteq Unnumbered
    BY <2>1 DEF Unnumbered, MoreInv
  <2>q. QED BY <1>6, <2>1, <2>2
<1>10. CASE Reserve(c)
  BY <1>3, <1>8, <1>10 DEF Takes
<1>11. CASE c \in Handlers /\ (HandlerBegin(c) \/ FillSample(c) \/ Cancel(c))
  BY <1>4, <1>8, <1>11
<1>12. CASE c \in Coders /\ (CoderBegin(c) \/ ReadCodes(c) \/ TakeCodes(c)
                             \/ AppendName(c) \/ AttachCodes(c))
  BY <1>4, <1>8, <1>12
<1>q. QED BY <1>5, <1>7, <1>8, <1>9, <1>10, <1>11, <1>12 DEF Step

-----------------------------------------------------------------------------
\* The empty pool and the empty file.
LEMMA InitLogInv == Init => LogInv
<1> SUFFICES ASSUME Init PROVE LogInv
  OBVIOUS
<1>1. /\ \A b \in Buf : state[b] = "UNUSED" /\ rec[b] = 0 /\ off[b] = 0 /\ left[b] = 0
      /\ \A c \in Ctx : pc[c] = "idle" /\ ~has[c] /\ ~more[c]
      /\ current_codes = -1 /\ nrec = 0 /\ file = <<>> /\ DOMAIN committed = {}
      /\ DOMAIN file = {}
  BY DEF Init
<1>2. MoreInv
  BY <1>1, ContextFacts DEF MoreInv, Searching
<1>3. NumberInv
  <2>1. Unnumbered = {}
    BY <1>1 DEF Unnumbered
  <2>q. QED BY <1>1, <2>1, FS_EmptySet, SizesAssumption DEF NumberInv
<1>4. DistinctInv /\ FreshInv /\ FillInv /\ ReadySizeInv
  BY <1>1 DEF DistinctInv, FreshInv, FillInv, ReadySizeInv
<1>5. EntryInv /\ OnceInv /\ WrittenInv /\ KeptInv
  BY <1>1 DEF EntryInv, OnceInv, WrittenInv, KeptInv
<1>6. PartInv /\ TailInv
  BY <1>1 DEF PartInv, TailInv, Partly, Unfinished
<1>7. LoopInv
  BY <1>1, ContextFacts DEF LoopInv
<1>q. QED BY <1>2, <1>3, <1>4, <1>5, <1>6, <1>7 DEF LogInv

\* Nothing happens to the invariant when nothing happens.
LEMMA StutterLogInv == LogInv /\ UNCHANGED vars => LogInv'
<1> SUFFICES ASSUME LogInv, UNCHANGED vars PROVE LogInv'
  OBVIOUS
<1>1. UNCHANGED <<state, rec, off, left, mapped, pending, current_codes, pc, idx,
                  wbuf, has, more, nrec, committed, file>>
  BY DEF vars, pool, locals
<1>2. MoreInv' /\ NumberInv'
  BY <1>1 DEF LogInv, MoreInv, NumberInv, Unnumbered
<1>3. DistinctInv' /\ FreshInv' /\ FillInv' /\ ReadySizeInv'
  BY <1>1 DEF LogInv, DistinctInv, FreshInv, FillInv, ReadySizeInv
<1>4. EntryInv' /\ OnceInv'
  BY <1>1 DEF LogInv, EntryInv, OnceInv
<1>5. WrittenInv' /\ KeptInv'
  BY <1>1 DEF LogInv, WrittenInv, KeptInv, Written, InPool
<1>6. PartInv'
  BY <1>1 DEF LogInv, PartInv, Partly
<1>7. TailInv'
  BY <1>1 DEF LogInv, TailInv, Partly, Written, Unfinished, Last
<1>8. LoopInv'
  BY <1>1 DEF LogInv, LoopInv
<1>q. QED BY <1>2, <1>3, <1>4, <1>5, <1>6, <1>7, <1>8 DEF LogInv

\* Together with IInv the invariant is inductive.
LEMMA NextLogInv == IInv /\ LogInv /\ [Next]_vars => LogInv'
<1> SUFFICES ASSUME IInv, LogInv, [Next]_vars PROVE LogInv'
  OBVIOUS
<1>1. CASE Next
  <2>1. PICK c \in Ctx : Step(c)
    BY <1>1, NextIsStep
  <2>2. PoolTypes /\ Effect(c)
    BY <2>1, Types, Effects
  <2>3. MoreInv' /\ NumberInv'
    BY <2>1, MoreKept, NumberKept DEF LogInv, IInv
  <2>4. DistinctInv' /\ FreshInv'
    BY <2>2, DistinctKept, FreshKept DEF LogInv
  <2>5. FillInv' /\ LoopInv'
    BY <2>1, FillKept, LoopKept DEF LogInv, IInv
  <2>6. ReadySizeInv' /\ EntryInv' /\ OnceInv'
    BY <2>2, ReadySizeKept, EntryKept, OnceKept DEF LogInv
  <2>7. WrittenInv' /\ KeptInv'
    BY <2>2, WrittenKept, KeptKept DEF LogInv
  <2>8. PartInv' /\ TailInv'
    BY <2>2, PartKept, TailKept DEF LogInv
  <2>q. QED BY <2>3, <2>4, <2>5, <2>6, <2>7, <2>8 DEF LogInv
<1>2. CASE UNCHANGED vars
  BY <1>2, StutterLogInv
<1>q. QED BY <1>1, <1>2

\* What the buffers and the file hold, in every reachable state.
THEOREM LogInvariant == Spec => []LogInv
<1>1. IInv /\ LogInv /\ IInv' /\ [Next]_vars => LogInv'
  BY NextLogInv
<1>q. QED BY <1>1, InitLogInv, InductiveInvariant, PTL DEF Spec

\* A committed record is in a READY buffer or whole in the file and gets there
\* once, for any number of buffers, sizes and contexts, and wherever write()
\* stops.
THEOREM RecordsExactlyOnce == Spec => []ExactlyOnce
<1>1. LogInv => ExactlyOnce
  <2> SUFFICES ASSUME LogInv PROVE ExactlyOnce
    OBVIOUS
  <2>1. \A r : InFile(r) <=> Ended(file, r)
    BY DEF InFile, Ended
  <2>2. ASSUME NEW r \in DOMAIN committed, InFile(r), InPool(r)
        PROVE  Releasing(r)
    <3>1. PICK b \in Buf : state[b] = "READY" /\ rec[b] = r
      BY <2>2 DEF InPool
    <3>2. Written(b)
      BY <2>1, <2>2, <3>1 DEF LogInv, WrittenInv
    <3>q. QED BY <3>1, <3>2 DEF Written, Releasing
  <2>3. ASSUME NEW r \in DOMAIN committed, ~InFile(r)
        PROVE  InPool(r)
    BY <2>1, <2>3 DEF LogInv, KeptInv
  <2>4. \A r \in DOMAIN committed : IF InFile(r) THEN InPool(r) => Releasing(r)
                                                 ELSE InPool(r)
    BY <2>2, <2>3
  <2>q. QED BY <2>4 DEF ExactlyOnce, LogInv, EntryInv, OnceInv
<1>q. QED BY <1>1, LogInvariant, PTL

\* When the buffers are gone everything that was committed is in the file.
THEOREM NothingLeftBehind == Spec => []ShutdownFlushes
<1>1. IInv /\ LogInv => ShutdownFlushes
  <2> SUFFICES ASSUME IInv, LogInv, ~mapped
               PROVE  /\ \A r \in DOMAIN committed : InFile(r)
                      /\ current_codes = -1
                      /\ \A b \in Buf : state[b] = "UNUSED"
    BY DEF ShutdownFlushes
  <2>1. \A b \in Buf : state[b] = "UNUSED"
    BY DEF LogInv, LoopInv
  <2>2. current_codes = -1
    BY DEF IInv, MappedInv
  <2>3. \A r \in DOMAIN committed : Ended(file, r)
    BY <2>1 DEF LogInv, KeptInv, InPool
  <2>q. QED BY <2>1, <2>2, <2>3 DEF Ended, InFile
<1>q. QED BY <1>1, InductiveInvariant, LogInvariant, PTL

-----------------------------------------------------------------------------
\* Before the first session the log is closed and empty.
LEMMA InitIsLogInit == Init => Log!LogInit
<1> SUFFICES ASSUME Init PROVE Log!LogInit
  OBVIOUS
<1>1. mapped = FALSE /\ committed = <<>> /\ file = <<>>
  BY DEF Init
<1>2. Waiting = {}
  BY <1>1 DEF Waiting
<1>q. QED BY <1>1, <1>2 DEF Log!LogInit

\* A step that shows neither in the file nor in the committed records.
LEMMA Invisible ==
  ASSUME UNCHANGED <<mapped, committed, file>>
  PROVE  UNCHANGED Log!logVars
<1>1. Waiting' = Waiting
  BY DEF Waiting, InFile
<1>q. QED BY <1>1 DEF Log!logVars

\* prepare_concurrent_bufs opens the log.
LEMMA PrepareOpens ==
  ASSUME IInv, Prepare
  PROVE  Log!Open
<1>1. ~mapped /\ mapped' = TRUE /\ committed' = <<>> /\ file' = <<>>
  BY DEF Prepare
<1>2. Waiting' = {}
  BY <1>1 DEF Waiting
<1>q. QED BY <1>1, <1>2 DEF Log!Open

\* commit_buffer hands over a new record.
LEMMA CommitAccepts ==
  ASSUME IInv, LogInv, NEW c \in Ctx, Commit(c)
  PROVE  Log!Accept
<1>1. CommitEffect(c)
  BY CommitFacts
<1>2. /\ pc[c] = "commit" /\ idx[c] \in Buf /\ state[idx[c]] = "FILLING"
      /\ UNCHANGED <<mapped, file>>
  BY <1>1 DEF CommitEffect
<1> DEFINE r == rec[idx[c]]
           n == left[idx[c]]
<1>3. mapped
  BY <1>2 DEF IInv, MappedInv, Idle
<1>4. r \in 1 .. MaxRecords
  <2>1. r \in 1 .. nrec /\ nrec \in Nat
    BY <1>2 DEF IInv, RecordInv, TypeOK, HistoryType
  <2>2. Cardinality(Unnumbered) \in Nat
    BY ContextsFinite DEF Unnumbered
  <2>3. nrec <= MaxRecords
    BY <2>1, <2>2, SizesAssumption DEF LogInv, NumberInv
  <2>q. QED BY <2>1, <2>3, SizesAssumption
<1>5. n \in 1 .. MaxSize
  BY <1>2 DEF LogInv, FillInv
<1>6. r \notin DOMAIN committed
  BY <1>2 DEF LogInv, FreshInv
<1>7. committed' = [q \in DOMAIN committed \cup {r} |-> IF q = r THEN n ELSE committed[q]]
  BY DEF Commit
<1>8. ~InFile(r)
  BY <1>6 DEF LogInv, EntryInv, InFile
<1>9. \A q : InFile(q)' <=> InFile(q)
  BY <1>2 DEF InFile
<1>10. Waiting' = Waiting \cup {r}
  BY <1>7, <1>8, <1>9 DEF Waiting
<1>q. QED BY <1>2, <1>3, <1>4, <1>5, <1>6, <1>7, <1>10 DEF Log!Accept

\* What the holder of the lock writes comes next in the file.
LEMMA WriterResumes ==
  ASSUME IInv, LogInv, NEW c \in Ctx, pc[c] = "write"
  PROVE  /\ wbuf[c] \in Buf /\ rec[wbuf[c]] \in Waiting
         /\ Log!Unfinished => file[Len(file)].id = rec[wbuf[c]]
         /\ Log!Resume(rec[wbuf[c]]) = off[wbuf[c]]
         /\ committed[rec[wbuf[c]]] = off[wbuf[c]] + left[wbuf[c]]
         /\ off[wbuf[c]] \in Nat /\ left[wbuf[c]] \in Nat /\ left[wbuf[c]] > 0
         /\ mapped
<1> DEFINE b == wbuf[c]
<1>1. /\ b \in Buf /\ state[b] = "READY" /\ (pending # -1 => pending = b)
      /\ \A d \in Buf : ~Written(d)
  BY WriterFacts DEF Written, Section
<1>2. /\ rec[b] \in DOMAIN committed /\ off[b] + left[b] = committed[rec[b]]
      /\ left[b] > 0
  BY <1>1 DEF LogInv, ReadySizeInv
<1>3. rec[b] \in Waiting
  <2>1. ~Ended(file, rec[b])
    BY <1>1 DEF LogInv, WrittenInv
  <2>q. QED BY <1>2, <2>1 DEF Waiting, InFile, Ended
<1>4. off[b] \in Nat /\ left[b] \in Nat /\ -1 \notin Buf
  BY <1>1, Types DEF PoolTypes
<1>5. Unfinished => Last.id = rec[b] /\ Last.upto = off[b]
  <2>1. ASSUME NEW d \in Buf, Partly(d) PROVE d = b
    BY <1>1, <1>4, <2>1 DEF LogInv, PartInv
  <2>q. QED BY <1>1, <2>1 DEF LogInv, TailInv
<1>6. ~Unfinished => off[b] = 0
  BY <1>1, <1>4 DEF LogInv, TailInv, Partly
<1>7. Log!Resume(rec[b]) = off[b] /\ (Log!Unfinished => file[Len(file)].id = rec[b])
  BY <1>5, <1>6 DEF Log!Resume, Log!Unfinished, Unfinished, Last
<1>8. mapped
  BY DEF IInv, MappedInv, Idle
<1>q. QED BY <1>1, <1>2, <1>3, <1>4, <1>7, <1>8

\* The write() that succeeds ends a record.
LEMMA WriteAllEmits ==
  ASSUME IInv, LogInv, NEW c \in Ctx, WriteAll(c)
  PROVE  Log!Emit
<1> DEFINE r == rec[wbuf[c]]
           n == off[wbuf[c]] + left[wbuf[c]]
<1>1. WriteAllEffect(c) /\ pc[c] = "write"
  BY WriteAllFacts DEF WriteAllEffect
<1>2. UNCHANGED <<mapped, committed>>
  BY <1>1 DEF WriteAllEffect
<1>3. file' = Append(file, [id |-> r, from |-> off[wbuf[c]], upto |-> n, size |-> n])
  BY <1>1 DEF WriteAllEffect, Chunk
<1>4. \A q : InFile(q)' <=> InFile(q) \/ q = r
  <2>1. \A q : Ended(file', q) <=> Ended(file, q) \/ q = r
    BY <1>1 DEF WriteAllEffect, Appended, Chunk
  <2>q. QED BY <2>1 DEF Ended, InFile
<1>5. Waiting' = Waiting \ {r}
  BY <1>2, <1>4 DEF Waiting
<1>6. n \in off[wbuf[c]] + 1 .. n
  BY <1>1, WriterResumes
<1>q. QED BY <1>1, <1>2, <1>3, <1>5, <1>6, WriterResumes DEF Log!Emit

\* A short write() gets a record nearer to its end.
LEMMA WriteSomeEmits ==
  ASSUME IInv, LogInv, NEW c \in Ctx, WriteSome(c)
  PROVE  Log!Emit
<1> DEFINE r == rec[wbuf[c]]
           o == off[wbuf[c]]
           l == left[wbuf[c]]
<1>1. WriteSomeEffect(c) /\ pc[c] = "write"
  BY WriteSomeFacts DEF WriteSomeEffect
<1>2. UNCHANGED <<mapped, committed>>
  BY <1>1 DEF WriteSomeEffect
<1>3. PICK k \in 1 .. l - 1 : /\ ~IsWhole(Chunk(wbuf[c], k))
                              /\ file' = Append(file, Chunk(wbuf[c], k))
                              /\ Appended(Chunk(wbuf[c], k))
  BY <1>1 DEF WriteSomeEffect
<1>4. file' = Append(file, [id |-> r, from |-> o, upto |-> o + k, size |-> o + l])
  BY <1>3 DEF Chunk
<1>5. \A q : InFile(q)' <=> InFile(q)
  <2>1. \A q : Ended(file', q) <=> Ended(file, q)
    BY <1>3 DEF Appended
  <2>q. QED BY <2>1 DEF Ended, InFile
<1>6. Waiting' = Waiting
  BY <1>2, <1>5 DEF Waiting
<1>7. o + k \in o + 1 .. o + l /\ o + k # o + l
  BY <1>1, <1>3, WriterResumes
<1>q. QED BY <1>1, <1>2, <1>4, <1>6, <1>7, WriterResumes DEF Log!Emit

\* vmprof_disable lets go of the buffers only when nothing waits.
LEMMA UnmapCloses ==
  ASSUME IInv, LogInv, Unmap
  PROVE  Log!Close
<1>1. /\ pc[Closer] = "unmap" /\ mapped /\ mapped' = FALSE
      /\ UNCHANGED <<state, rec, committed, file>>
  BY UnmapFacts DEF UnmapEffect, Unmap
<1>2. \A b \in Buf : state[b] # "READY"
  BY <1>1 DEF LogInv, LoopInv
<1>3. \A r \in DOMAIN committed : Ended(file, r)
  BY <1>2 DEF LogInv, KeptInv, InPool
<1>4. Waiting = {}
  BY <1>3 DEF Waiting, InFile, Ended
<1>5. Waiting' = Waiting
  BY <1>1 DEF Waiting, InFile
<1>q. QED BY <1>1, <1>4, <1>5 DEF Log!Close

\* The pool implements the abstract log: an append-only file that receives
\* every accepted record in pieces, finishes one before it begins the next, and
\* is closed when nothing waits.
THEOREM PoolImplementsLog == Spec => ImplementsLog
<1>1. IInv /\ LogInv /\ [Next]_vars => [Log!LogNext]_(Log!logVars)
  <2> SUFFICES ASSUME IInv, LogInv, [Next]_vars
               PROVE  Log!LogNext \/ UNCHANGED Log!logVars
    OBVIOUS
  <2>1. CASE UNCHANGED vars
    BY <2>1, Invisible DEF vars, pool
  <2>2. CASE Next
    <3>1. PICK c \in Ctx : Step(c)
      BY <2>2, NextIsStep
    <3>2. CASE Looks(c)
      BY <3>2, LooksKeep, Invisible DEF LooksEffect
    <3>3. CASE Takes(c)
      BY <3>3, TakesFacts, Invisible DEF TakesEffect
    <3>4. CASE Fills(c)
      BY <3>4, FillsFacts, Invisible DEF FillsEffect
    <3>5. CASE c \in Handlers /\ Cancel(c)
      BY <3>5, CancelFacts, Invisible DEF CancelEffect
    <3>6. CASE SetUnused(c)
      BY <3>6, SetUnusedFacts, Invisible DEF SetUnusedEffect
    <3>7. CASE Commit(c)
      BY <3>7, CommitAccepts DEF Log!LogNext
    <3>8. CASE WriteAll(c) \/ WriteSome(c)
      BY <3>8, WriteAllEmits, WriteSomeEmits DEF Log!LogNext
    <3>9. CASE Prepare
      BY <3>9, PrepareOpens DEF Log!LogNext
    <3>10. CASE Unmap
      BY <3>10, UnmapCloses DEF Log!LogNext
    <3>q. QED BY <3>1, <3>2, <3>3, <3>4, <3>5, <3>6, <3>7, <3>8, <3>9, <3>10,
                 StepCases
  <2>q. QED BY <2>1, <2>2
<1>q. QED BY <1>1, InitIsLogInit, InductiveInvariant, LogInvariant, PTL
          DEF Spec, ImplementsLog, Log!LogSpec
=============================================================================
