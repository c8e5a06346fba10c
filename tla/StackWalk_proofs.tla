-------------------------- MODULE StackWalk_proofs --------------------------
(***************************************************************************)
(* The walk, for every size of the buffer and every stack.  It stays       *)
(* inside the buffer: TypeOK is inductive, and what it says of the number  *)
(* of words bounds the record.  And it records what it should: WalkInv     *)
(* says at every step which frames are in the words, where, and why one of *)
(* them is missing; with NativePairs it says what the reader makes of them.*)
(***************************************************************************)
EXTENDS StackWalk, FiniteSetTheorems, TLAPS

USE StackAssumption

\* A native stack is a sequence, no longer than MaxFrames and not empty.
LEMMA NativeStack ==
  ASSUME NEW n \in 1..MaxFrames, NEW s \in [1..n -> NativeKinds]
  PROVE  s \in Seq(NativeKinds) /\ Len(s) = n
  OBVIOUS

\* The initial states have the types.
LEMMA InitTypeOK == Init => TypeOK
<1> SUFFICES ASSUME Init PROVE TypeOK
  OBVIOUS
<1>1. PICK n \in 1..MaxFrames : cstack \in [1..n -> NativeKinds]
  BY DEF Init
<1>2. cstack \in Seq(NativeKinds) /\ Len(cstack) = n
  BY <1>1, NativeStack
<1>4. lines \in BOOLEAN /\ rss \in BOOLEAN /\ signal \in BOOLEAN /\ native \in BOOLEAN
  BY DEF Init
<1>5. Len(cstack) <= MaxFrames /\ python \in 0..MaxFrames
  BY <1>2 DEF Init
<1>6. InputOK
  BY <1>2, <1>4, <1>5 DEF InputOK
<1> QED
  BY <1>1, <1>2, <1>4, <1>6 DEF Init, TypeOK, MaxDepth

\* A native frame is written only as far as there is room for it.
LEMMA NativeFits ==
  ASSUME TypeOK, HasRoom
  PROVE  NativeWords(cursor) \in Seq(Words) /\ Len(NativeWords(cursor)) <= MaxDepth
<1>1. cursor \in 1..MaxFrames
  BY DEF TypeOK, InputOK
<1>2. Word("zero", cursor) \in Words /\ Word("address", cursor) \in Words
  BY <1>1 DEF Word, Words
<1>3. CASE ~lines
  BY <1>2, <1>3 DEF TypeOK, HasRoom, PerLoop, NativeWords, MaxDepth
<1>4. CASE lines
  <2> DEFINE pair == <<Word("zero", cursor), Word("address", cursor)>>
  <2>1. pair \in Seq(Words) /\ Len(pair) = 2
    BY <1>2
  <2>2. words \o pair \in Seq(Words) /\ Len(words \o pair) = Len(words) + 2
    BY <2>1 DEF TypeOK
  <2> QED
    BY <1>4, <2>2 DEF TypeOK, HasRoom, PerLoop, NativeWords, MaxDepth
<1> QED
  BY <1>3, <1>4

\* So is a Python frame.
LEMMA PythonFits ==
  ASSUME TypeOK, HasRoom, frame <= python
  PROVE  CodeWords(frame) \in Seq(Words) /\ Len(CodeWords(frame)) <= MaxDepth
<1>1. frame \in 1..MaxFrames
  BY DEF TypeOK, InputOK
<1>2. Word("line", frame) \in Words /\ Word("code", frame) \in Words
  BY <1>1 DEF Word, Words
<1>3. CASE ~lines
  BY <1>2, <1>3 DEF TypeOK, HasRoom, PerLoop, CodeWords, MaxDepth
<1>4. CASE lines
  <2> DEFINE pair == <<Word("line", frame), Word("code", frame)>>
  <2>1. pair \in Seq(Words) /\ Len(pair) = 2
    BY <1>2
  <2>2. words \o pair \in Seq(Words) /\ Len(words \o pair) = Len(words) + 2
    BY <2>1 DEF TypeOK
  <2> QED
    BY <1>4, <2>2 DEF TypeOK, HasRoom, PerLoop, CodeWords, MaxDepth
<1> QED
  BY <1>3, <1>4

\* No step leaves the types.
LEMMA StepTypeOK == TypeOK /\ [Next]_vars => TypeOK'
<1> SUFFICES ASSUME TypeOK, [Next]_vars PROVE TypeOK'
  OBVIOUS
<1> USE DEF TypeOK, InputOK, input, Python
<1>1. CASE PythonOnly
  BY <1>1 DEF PythonOnly, MaxDepth
<1>2. CASE UnwindUnavailable
  BY <1>2 DEF UnwindUnavailable, MaxDepth
<1>3. CASE SkipSignalFrame
  BY <1>3 DEF SkipSignalFrame, MaxDepth
<1>4. CASE FoundEval
  BY <1>4 DEF FoundEval, MaxDepth
<1>5. CASE NativeFrame
  <2>1. NativeWords(cursor) \in Seq(Words) /\ Len(NativeWords(cursor)) <= MaxDepth
    BY <1>5, NativeFits DEF NativeFrame
  <2>2. words' \in Seq(Words) /\ Len(words') <= MaxDepth
    <3>1. words' \in {words, <<>>, NativeWords(cursor)}
      BY <1>5 DEF NativeFrame
    <3>2. <<>> \in Seq(Words) /\ Len(<<>>) <= MaxDepth
      BY DEF MaxDepth
    <3> QED
      BY <2>1, <3>1, <3>2
  <2> QED
    BY <1>5, <2>2 DEF NativeFrame, MaxDepth
<1>6. CASE NativeFull
  BY <1>6 DEF NativeFull, MaxDepth
<1>7. CASE PythonFrame
  <2>1. CodeWords(frame) \in Seq(Words) /\ Len(CodeWords(frame)) <= MaxDepth
    BY <1>7, PythonFits DEF PythonFrame
  <2> QED
    BY <1>7, <2>1 DEF PythonFrame, MaxDepth
<1>8. CASE PythonEnd
  BY <1>8 DEF PythonEnd, MaxDepth
<1>9. CASE SampleStack
  BY <1>9 DEF SampleStack, MaxDepth
<1>10. CASE UNCHANGED vars
  BY <1>10 DEF vars, MaxDepth
<1> QED
  BY <1>1, <1>2, <1>3, <1>4, <1>5, <1>6, <1>7, <1>8, <1>9, <1>10 DEF Next

\* The walk never writes past MAX_STACK_DEPTH-1 words of the buffer it was given.
THEOREM WalkInBounds == Spec => []TypeOK
<1> QED
  BY InitTypeOK, StepTypeOK, PTL DEF Spec

\* A record without a resident set size fits into the buffer.
THEOREM RecordInBuffer == Spec => []RecordFitsWithoutRss
<1>1. TypeOK => RecordFitsWithoutRss
  <2> SUFFICES ASSUME TypeOK, ~rss PROVE Len(Record) <= BufWords
    BY DEF RecordFitsWithoutRss
  <2>1. Record = words \o <<Word("thread", 0)>> \o <<>>
    BY DEF Record
  <2>2. Len(Record) = Len(words) + 1
    BY <2>1 DEF TypeOK
  <2> QED
    BY <2>2 DEF TypeOK, MaxDepth
<1> QED
  BY <1>1, WalkInBounds, PTL

-----------------------------------------------------------------------------
(* What is in the words, at every step of the walk.                        *)

\* The words of the native part, and the frames the walk has passed.
IsNative(j) == words[j].kind \in {"address", "zero"}
Passed == {k \in 1..cursor - 1 : cstack[k] = "native"}

\* No native frame is written any more: it would be the last pair.
Full == lines /\ Len(words) + 2 >= MaxDepth

\* The Python frames are the last words, in pairs in line mode.
PythonTail ==
  /\ NativeSize >= 0 /\ (lines => NativeSize % 2 = 0)
  /\ \A f \in 1..Frames :
       /\ words[NativeSize + PerLoop * f] = Word("code", f)
       /\ lines => words[NativeSize + 2 * f - 1] = Word("line", f)
  /\ \A j \in 1..NativeSize : IsNative(j)

\* The addresses are those of frames that were passed, in order.
NativeOrder ==
  /\ \A j \in 1..Len(words) : IsAddress(j) => words[j].of \in Passed /\ (lines => j % 2 = 0)
  /\ \A j, k \in 1..Len(words) : j < k /\ IsAddress(k) =>
       words[j].kind = "zero" \/ (IsAddress(j) /\ words[j].of < words[k].of)

\* A frame that was passed is missing only when the buffer has become full; the
\* words are no more than what the frames that were passed take.
NativePhase ==
  pc = "native" =>
    /\ \A k \in Passed : Recorded(k) \/ Full
    /\ \A j, k \in Passed : j < k /\ Recorded(k) => Recorded(j)
    /\ Len(words) <= PerLoop * Cardinality(Passed)
    /\ (\A k \in Passed : Recorded(k))
         \/ Len(words) + PerLoop <= PerLoop * Cardinality(Passed)

\* The same once the interpreter loop was found or the native part was removed.
NativeDone ==
  pc \notin {"start", "native"} =>
    /\ (\E j \in 1..Len(words) : IsAddress(j)) => cstack[cursor] = "eval"
    /\ native /\ cstack[cursor] = "eval" /\ (pc = "python" \/ words # <<>>) =>
         /\ \A j, k \in Passed : j < k /\ Recorded(k) => Recorded(j)
         /\ (\A k \in Passed : Recorded(k))
              \/ PerLoop * (Cardinality(Passed) + 1) > MaxDepth

\* The walk ends with the last frame or without room, if it has recorded any.
Order ==
  /\ pc = "start" => words = <<>> /\ cursor = 1
  /\ pc \in {"start", "native"} => frame = 1
  /\ pc = "walked" => words = <<>> \/ frame > python \/ ~HasRoom
  /\ pc = "sampled" => words # <<>> /\ (frame > python \/ ~HasRoom)

WalkInv == TypeOK /\ PythonTail /\ NativeOrder /\ NativePhase /\ NativeDone /\ Order

\* The invariant holds before the walk begins.
LEMMA InitWalk == Init => WalkInv
<1> SUFFICES ASSUME Init PROVE WalkInv
  OBVIOUS
<1>1. words = <<>> /\ cursor = 1 /\ frame = 1 /\ pc = "start"
  BY DEF Init
<1>2. TypeOK
  BY InitTypeOK
<1>3. Len(words) = 0 /\ NativeSize = 0 /\ Frames = 0
  BY <1>1 DEF NativeSize, Frames, PerLoop
<1> QED
  BY <1>1, <1>2, <1>3 DEF WalkInv, PythonTail, NativeOrder, NativePhase, NativeDone, Order

\* A native frame leaves the words alone when the buffer is full, and is else
\* behind all that was written.
LEMMA NativeAppends ==
  ASSUME TypeOK, NEW s, s = NativeWords(cursor)
  PROVE  \/ s = words /\ Full
         \/ /\ Len(s) = Len(words) + PerLoop /\ ~Full
            /\ \A j \in 1..Len(words) : s[j] = words[j]
            /\ s[Len(s)] = Word("address", cursor)
            /\ lines => s[Len(s) - 1] = Word("zero", cursor)
<1> DEFINE pair == <<Word("zero", cursor), Word("address", cursor)>>
<1>1. words \in Seq(Words) /\ Len(words) \in Nat /\ lines \in BOOLEAN
  BY DEF TypeOK, InputOK
<1>2. CASE ~lines
  BY <1>1, <1>2 DEF NativeWords, PerLoop, Full
<1>3. CASE lines /\ Len(words) + 2 >= MaxDepth
  BY <1>3 DEF NativeWords, Full
<1>4. CASE lines /\ ~(Len(words) + 2 >= MaxDepth)
  <2>1. s = words \o pair
    BY <1>4 DEF NativeWords
  <2>2. Len(s) = Len(words) + 2 /\ \A j \in 1..Len(words) : s[j] = words[j]
    BY <1>1, <2>1
  <2>3. s[Len(words) + 1] = pair[1] /\ s[Len(words) + 2] = pair[2]
    BY <1>1, <2>1
  <2> QED
    BY <1>1, <1>4, <2>2, <2>3 DEF PerLoop, Full
<1> QED
  BY <1>1, <1>2, <1>3, <1>4

\* So is a Python frame.
LEMMA PythonAppends ==
  ASSUME TypeOK, NEW s, s = CodeWords(frame)
  PROVE  /\ Len(s) = Len(words) + PerLoop
         /\ \A j \in 1..Len(words) : s[j] = words[j]
         /\ s[Len(s)] = Word("code", frame)
         /\ lines => s[Len(s) - 1] = Word("line", frame)
<1> DEFINE pair == <<Word("line", frame), Word("code", frame)>>
<1>1. words \in Seq(Words) /\ Len(words) \in Nat /\ lines \in BOOLEAN
  BY DEF TypeOK, InputOK
<1>2. CASE ~lines
  BY <1>1, <1>2 DEF CodeWords, PerLoop
<1>3. CASE lines
  <2>1. s = words \o pair
    BY <1>3 DEF CodeWords
  <2>2. Len(s) = Len(words) + 2 /\ \A j \in 1..Len(words) : s[j] = words[j]
    BY <1>1, <2>1
  <2>3. s[Len(words) + 1] = pair[1] /\ s[Len(words) + 2] = pair[2]
    BY <1>1, <2>1
  <2> QED
    BY <1>1, <1>3, <2>2, <2>3 DEF PerLoop
<1> QED
  BY <1>1, <1>2, <1>3

\* The frames that were passed can be counted; passing one with an address counts one more.
LEMMA PassedFinite == TypeOK => IsFiniteSet(Passed) /\ Cardinality(Passed) \in Nat
<1> SUFFICES ASSUME TypeOK PROVE IsFiniteSet(Passed)
  BY FS_CardinalityType
<1>1. cursor - 1 \in Int /\ 1 \in Int
  BY DEF TypeOK, InputOK
<1>2. IsFiniteSet(1..cursor - 1)
  BY <1>1, FS_Interval
<1> QED
  BY <1>2, FS_Subset DEF Passed

LEMMA PassOne ==
  ASSUME TypeOK, UNCHANGED cstack, cursor' = cursor + 1
  PROVE  /\ cstack[cursor] = "native" =>
              Passed' = Passed \cup {cursor} /\ Cardinality(Passed') = Cardinality(Passed) + 1
         /\ cstack[cursor] # "native" => Passed' = Passed
         /\ cursor \notin Passed
<1>1. cursor \in Nat \ {0}
  BY DEF TypeOK, InputOK
<1>2. cursor \notin Passed
  BY <1>1 DEF Passed
<1>3. ASSUME cstack[cursor] = "native" PROVE Passed' = Passed \cup {cursor}
  BY <1>1, <1>3 DEF Passed
<1>4. ASSUME cstack[cursor] # "native" PROVE Passed' = Passed
  BY <1>1, <1>4 DEF Passed
<1>5. ASSUME cstack[cursor] = "native" PROVE Cardinality(Passed') = Cardinality(Passed) + 1
  BY <1>2, <1>3, <1>5, PassedFinite, FS_AddElement
<1> QED
  BY <1>2, <1>3, <1>4, <1>5

\* A native frame that is passed over, and why it is missing if it is.
LEMMA NativeFrameStep ==
  ASSUME WalkInv, NativeFrame
  PROVE  WalkInv'
<1>1. TypeOK /\ TypeOK' /\ PythonTail /\ NativeOrder /\ NativePhase /\ Order
  BY StepTypeOK DEF WalkInv, Next
<1>2. /\ pc = "native" /\ HasRoom /\ cstack[cursor] # "eval" /\ frame = 1
      /\ UNCHANGED <<lines, native, cstack, python, frame>>
  BY <1>1 DEF NativeFrame, input, Order
<1>3. /\ Len(words) \in Nat /\ Len(words') \in Nat /\ lines \in BOOLEAN
      /\ cursor \in Nat \ {0} /\ MaxDepth \in Nat
  BY <1>1 DEF TypeOK, InputOK, MaxDepth
<1>4. \A j \in 1..Len(words) : IsNative(j)
  BY <1>1, <1>2, <1>3 DEF PythonTail, NativeSize, Frames, PerLoop
<1>5. lines => Len(words) % 2 = 0
  BY <1>1, <1>2, <1>3 DEF PythonTail, NativeSize, Frames, PerLoop
<1>6. ASSUME cursor >= Len(cstack)
      PROVE  WalkInv'
  <2>1. words' = <<>> /\ pc' = "python" /\ cursor' = cursor
    BY <1>3, <1>6 DEF NativeFrame, TypeOK, InputOK
  <2>2. Len(words') = 0 /\ NativeSize' = 0 /\ Frames' = 0
    BY <1>2, <2>1 DEF NativeSize, Frames, PerLoop
  <2>3. PythonTail' /\ NativeOrder'
    BY <2>2 DEF PythonTail, NativeOrder
  <2>4. NativePhase' /\ NativeDone' /\ Order'
    BY <1>2, <2>1, <2>2 DEF NativePhase, NativeDone, Order
  <2> QED
    BY <1>1, <2>3, <2>4 DEF WalkInv
<1>7. ASSUME cursor < Len(cstack)
      PROVE  WalkInv'
  <2>1. /\ words' = IF cstack[cursor] = "native" THEN NativeWords(cursor) ELSE words
        /\ cursor' = cursor + 1 /\ pc' = "native"
    BY <1>2, <1>7 DEF NativeFrame
  <2>2. /\ cstack[cursor] = "native" =>
             Passed' = Passed \cup {cursor} /\ Cardinality(Passed') = Cardinality(Passed) + 1
        /\ cstack[cursor] # "native" => Passed' = Passed
        /\ cursor \notin Passed
        /\ Cardinality(Passed) \in Nat
    BY <1>1, <1>2, <2>1, PassOne, PassedFinite
  <2>3. \A k \in Passed : k \in Nat /\ k < cursor
    BY <1>3 DEF Passed
  <2>4. ~Recorded(cursor)
    BY <1>1, <2>2 DEF Recorded, NativeOrder, IsAddress, Word
  <2>5. Order' /\ NativeDone'
    BY <1>2, <2>1 DEF Order, NativeDone
  <2>6. CASE words' = words /\ (cstack[cursor] = "native" => Full)
    <3>1. PythonTail'
      BY <1>1, <1>2, <2>6 DEF PythonTail, NativeSize, Frames, PerLoop, IsNative
    <3>2. NativeOrder'
      BY <1>1, <1>2, <2>2, <2>6 DEF NativeOrder, IsAddress
    <3>3. \A k : Recorded(k)' = Recorded(k)
      BY <2>6 DEF Recorded
    <3>4. (Full <=> Full') /\ PerLoop' = PerLoop /\ PerLoop \in {1, 2}
      BY <1>2, <2>6 DEF Full, PerLoop
    <3>5. CASE cstack[cursor] = "native"
      <4>1. Full'
        BY <2>6, <3>4, <3>5
      <4>a. ASSUME NEW j \in Passed', NEW k \in Passed', j < k, Recorded(k)'
            PROVE  Recorded(j)'
        <5>1. Recorded(k) /\ k # cursor
          BY <2>4, <3>3, <4>a
        <5>2. k \in Passed /\ j \in Passed
          BY <1>3, <2>2, <2>3, <3>5, <4>a, <5>1
        <5> QED
          BY <1>1, <1>2, <3>3, <4>a, <5>1, <5>2 DEF NativePhase
      <4>2. Len(words') + PerLoop' <= PerLoop' * Cardinality(Passed')
        BY <1>1, <1>2, <1>3, <2>2, <2>6, <3>4, <3>5 DEF NativePhase
      <4>3. Len(words') <= PerLoop' * Cardinality(Passed')
        BY <1>1, <1>2, <1>3, <2>2, <2>6, <3>4, <3>5 DEF NativePhase
      <4>4. NativePhase'
        BY <4>1, <4>a, <4>2, <4>3 DEF NativePhase
      <4> QED
        BY <1>1, <2>5, <3>1, <3>2, <4>4 DEF WalkInv
    <3>6. CASE cstack[cursor] # "native"
      <4>1. /\ \A k \in Passed' : Recorded(k)' \/ Full'
            /\ \A j, k \in Passed' : j < k /\ Recorded(k)' => Recorded(j)'
        BY <1>1, <1>2, <2>2, <3>3, <3>4, <3>6 DEF NativePhase
      <4>2. /\ Len(words') <= PerLoop' * Cardinality(Passed')
            /\ \/ \A k \in Passed' : Recorded(k)'
               \/ Len(words') + PerLoop' <= PerLoop' * Cardinality(Passed')
        BY <1>1, <1>2, <2>2, <2>6, <3>3, <3>4, <3>6 DEF NativePhase
      <4>3. NativePhase'
        BY <4>1, <4>2 DEF NativePhase
      <4> QED
        BY <1>1, <2>5, <3>1, <3>2, <4>3 DEF WalkInv
    <3> QED
      BY <3>5, <3>6
  <2>7. CASE /\ cstack[cursor] = "native" /\ ~Full
             /\ Len(words') = Len(words) + PerLoop
             /\ \A j \in 1..Len(words) : words'[j] = words[j]
             /\ words'[Len(words')] = Word("address", cursor)
             /\ lines => words'[Len(words') - 1] = Word("zero", cursor)
    <3>1. PerLoop' = PerLoop /\ PerLoop = IF lines THEN 2 ELSE 1
      BY <1>2 DEF PerLoop
    <3>2. \A j \in 1..Len(words') : \/ j \in 1..Len(words) /\ words'[j] = words[j]
                                    \/ j = Len(words') /\ words'[j] = Word("address", cursor)
                                    \/ lines /\ j = Len(words') - 1 /\ words'[j] = Word("zero", cursor)
      BY <1>3, <2>7, <3>1
    <3>3. \A j \in 1..Len(words') : IsNative(j)'
      BY <1>4, <3>2 DEF IsNative, Word
    <3>a. Frames' = 0 /\ NativeSize' = Len(words')
      BY <1>2, <1>3, <3>1 DEF NativeSize, Frames
    <3>b. lines => Len(words') % 2 = 0
      BY <1>3, <1>5, <2>7, <3>1
    <3>4. NativeSize' = Len(words') /\ Frames' = 0 /\ (lines => Len(words') % 2 = 0)
      BY <3>a, <3>b
    <3>5. PythonTail'
      BY <1>2, <1>3, <3>3, <3>4 DEF PythonTail
    <3>6. \A j \in 1..Len(words') : IsAddress(j)' =>
             \/ j \in 1..Len(words) /\ IsAddress(j) /\ words'[j] = words[j]
             \/ j = Len(words') /\ words'[j].of = cursor
      BY <3>2 DEF IsAddress, Word
    <3>7. NativeOrder'
      <4>1. ASSUME NEW j \in 1..Len(words'), IsAddress(j)'
            PROVE  words'[j].of \in Passed' /\ (lines' => j % 2 = 0)
        BY <1>1, <1>2, <2>2, <2>7, <3>4, <3>6, <4>1 DEF NativeOrder
      <4>2. ASSUME NEW j \in 1..Len(words'), NEW k \in 1..Len(words'), j < k, IsAddress(k)'
            PROVE  words'[j].kind = "zero" \/ (IsAddress(j)' /\ words'[j].of < words'[k].of)
        <5>1. CASE k \in 1..Len(words)
          BY <1>1, <1>3, <2>7, <4>2, <5>1 DEF NativeOrder, IsAddress
        <5>2. CASE k \notin 1..Len(words)
          <6>1. k = Len(words') /\ words'[k].of = cursor
            BY <3>6, <4>2, <5>2
          <6>2. words'[j].kind \in {"address", "zero"}
            BY <3>3 DEF IsNative
          <6>3. ASSUME IsAddress(j)'
                PROVE  words'[j].of < cursor
            <7>1. j \in 1..Len(words) /\ IsAddress(j) /\ words'[j] = words[j]
              BY <3>6, <4>2, <6>1, <6>3
            <7> QED
              BY <1>1, <2>3, <7>1 DEF NativeOrder
          <6> QED
            BY <6>1, <6>2, <6>3 DEF IsAddress
        <5> QED
          BY <5>1, <5>2
      <4> QED
        BY <4>1, <4>2 DEF NativeOrder
    <3>8. \A k \in Passed' : Recorded(k)'
      <4>1. \A k \in Passed : Recorded(k)
        BY <1>1, <1>2, <2>7 DEF NativePhase
      <4>2. ASSUME NEW k \in Passed PROVE Recorded(k)'
        <5>1. PICK j \in 1..Len(words) : words[j] = Word("address", k)
          BY <4>1 DEF Recorded
        <5>2. j \in 1..Len(words') /\ words'[j] = Word("address", k)
          BY <1>3, <2>7, <3>1, <5>1
        <5> QED
          BY <5>2 DEF Recorded, Word
      <4>3. Len(words') \in 1..Len(words')
        BY <1>3, <2>7, <3>1
      <4>4. ASSUME NEW k, k = cursor PROVE Recorded(k)'
        BY <2>7, <4>3, <4>4 DEF Recorded, Word
      <4>5. Passed' = Passed \cup {cursor}
        BY <2>2, <2>7
      <4> QED
        BY <4>2, <4>4, <4>5
    <3>9. Len(words') <= PerLoop' * Cardinality(Passed')
      BY <1>1, <1>2, <1>3, <2>2, <2>7, <3>1 DEF NativePhase
    <3>10. NativePhase'
      BY <3>8, <3>9 DEF NativePhase
    <3> QED
      BY <1>1, <2>5, <3>5, <3>7, <3>10 DEF WalkInv
  <2>8. CASE cstack[cursor] = "native"
    BY <1>1, <2>1, <2>6, <2>7, <2>8, NativeAppends
  <2> QED
    BY <2>1, <2>6, <2>8
<1> QED
  BY <1>3, <1>6, <1>7 DEF TypeOK, InputOK

\* A Python frame comes behind all that was written.
LEMMA PythonFrameStep ==
  ASSUME WalkInv, PythonFrame
  PROVE  WalkInv'
<1>1. TypeOK /\ TypeOK' /\ PythonTail /\ NativeOrder /\ NativeDone
  BY StepTypeOK DEF WalkInv, Next
<1>2. /\ pc = "python" /\ pc' = "python" /\ words' = CodeWords(frame) /\ frame' = frame + 1
      /\ UNCHANGED <<lines, native, cstack, cursor, python>>
  BY DEF PythonFrame, input
<1>3. /\ Len(words) \in Nat /\ lines \in BOOLEAN /\ frame \in Nat \ {0}
      /\ PerLoop' = PerLoop /\ PerLoop = IF lines THEN 2 ELSE 1
  BY <1>1, <1>2 DEF TypeOK, InputOK, PerLoop
<1>4. /\ Len(words') = Len(words) + PerLoop
      /\ \A j \in 1..Len(words) : words'[j] = words[j]
      /\ words'[Len(words')] = Word("code", frame)
      /\ lines => words'[Len(words') - 1] = Word("line", frame)
  BY <1>1, <1>2, PythonAppends
<1>5. \A j \in 1..Len(words') : \/ j \in 1..Len(words) /\ words'[j] = words[j]
                                \/ words'[j].kind \in {"code", "line"}
  BY <1>3, <1>4 DEF Word
<1>6. NativeSize' = NativeSize /\ Frames' = Frames + 1 /\ NativeSize \in Int
  <2>1. Frames \in Nat /\ Frames' = Frames + 1
    BY <1>2, <1>3 DEF Frames
  <2>2. CASE lines
    BY <1>3, <1>4, <2>1, <2>2 DEF NativeSize
  <2>3. CASE ~lines
    BY <1>3, <1>4, <2>1, <2>3 DEF NativeSize
  <2> QED
    BY <2>1, <2>2, <2>3
<1>7. NativeSize >= 0 /\ NativeSize + PerLoop * Frames = Len(words) /\ Frames \in Nat
  BY <1>1, <1>3 DEF PythonTail, NativeSize, Frames
<1>8. PythonTail'
  <2>1. ASSUME NEW f \in 1..Frames'
        PROVE  /\ words'[NativeSize + PerLoop * f] = Word("code", f)
               /\ lines => words'[NativeSize + 2 * f - 1] = Word("line", f)
    <3>1. CASE f = Frames'
      <4>1. NativeSize + PerLoop * f = Len(words') /\ f = frame
        BY <1>3, <1>4, <1>6, <1>7, <3>1 DEF Frames
      <4>2. lines => NativeSize + 2 * f - 1 = Len(words') - 1
        BY <1>3, <1>6, <4>1
      <4> QED
        BY <1>4, <4>1, <4>2
    <3>2. CASE f # Frames'
      <4>1. f \in 1..Frames
        BY <1>6, <1>7, <2>1, <3>2
      <4>2. NativeSize + PerLoop * f \in 1..Len(words)
        BY <1>3, <1>6, <1>7, <4>1
      <4>3. lines => NativeSize + 2 * f - 1 \in 1..Len(words)
        BY <1>3, <1>6, <1>7, <4>1
      <4> QED
        BY <1>1, <1>4, <4>1, <4>2, <4>3 DEF PythonTail
    <3> QED
      BY <3>1, <3>2
  <2>2. ASSUME NEW j \in 1..NativeSize' PROVE IsNative(j)'
    <3>1. j \in 1..NativeSize /\ j \in 1..Len(words)
      BY <1>3, <1>6, <1>7, <2>2
    <3> QED
      BY <1>1, <1>4, <3>1 DEF PythonTail, IsNative
  <2>3. NativeSize' >= 0 /\ (lines' => NativeSize' % 2 = 0)
    BY <1>1, <1>2, <1>6 DEF PythonTail
  <2> QED
    BY <1>2, <1>3, <1>6, <2>1, <2>2, <2>3 DEF PythonTail
<1>9. \A j \in 1..Len(words') : IsAddress(j)' =>
         j \in 1..Len(words) /\ IsAddress(j) /\ words'[j] = words[j]
  BY <1>5 DEF IsAddress
<1>10. Passed' = Passed
  BY <1>2 DEF Passed
<1>11. NativeOrder'
  <2>1. ASSUME NEW j \in 1..Len(words'), IsAddress(j)'
        PROVE  words'[j].of \in Passed' /\ (lines' => j % 2 = 0)
    BY <1>1, <1>2, <1>9, <1>10, <2>1 DEF NativeOrder
  <2>2. ASSUME NEW j \in 1..Len(words'), NEW k \in 1..Len(words'), j < k, IsAddress(k)'
        PROVE  words'[j].kind = "zero" \/ (IsAddress(j)' /\ words'[j].of < words'[k].of)
    <3>1. k \in 1..Len(words) /\ IsAddress(k) /\ words'[k] = words[k]
      BY <1>9, <2>2
    <3>2. j \in 1..Len(words) /\ words'[j] = words[j]
      BY <1>3, <1>4, <2>2, <3>1
    <3> QED
      BY <1>1, <2>2, <3>1, <3>2 DEF NativeOrder, IsAddress
  <2> QED
    BY <2>1, <2>2 DEF NativeOrder
<1>12. ASSUME NEW k PROVE Recorded(k)' <=> Recorded(k)
  <2>1. ASSUME NEW j \in 1..Len(words'), words'[j] = Word("address", k)
        PROVE  j \in 1..Len(words) /\ words[j] = Word("address", k)
    BY <1>5, <2>1 DEF Word
  <2>2. ASSUME NEW j \in 1..Len(words), words[j] = Word("address", k)
        PROVE  j \in 1..Len(words') /\ words'[j] = Word("address", k)
    BY <1>3, <1>4, <2>2
  <2> QED
    BY <2>1, <2>2 DEF Recorded, Word
<1>13. NativeDone'
  <2>1. (\E j \in 1..Len(words') : IsAddress(j)') => cstack'[cursor'] = "eval"
    BY <1>1, <1>2, <1>9 DEF NativeDone
  <2>2. native' /\ cstack'[cursor'] = "eval" =>
          /\ \A j, k \in Passed' : j < k /\ Recorded(k)' => Recorded(j)'
          /\ (\A k \in Passed' : Recorded(k)')
               \/ PerLoop' * (Cardinality(Passed') + 1) > MaxDepth
    BY <1>1, <1>2, <1>3, <1>10, <1>12 DEF NativeDone
  <2> QED
    BY <2>1, <2>2 DEF NativeDone
<1>14. NativePhase' /\ Order'
  BY <1>2 DEF NativePhase, Order
<1> QED
  BY <1>1, <1>8, <1>11, <1>13, <1>14 DEF WalkInv

\* The interpreter loop is found: what is missing has found the buffer full.
LEMMA FoundEvalStep ==
  ASSUME WalkInv, FoundEval
  PROVE  WalkInv'
<1>1. TypeOK /\ TypeOK' /\ PythonTail /\ NativeOrder /\ NativePhase /\ Order
  BY StepTypeOK DEF WalkInv, Next
<1>2. /\ pc = "native" /\ cstack[cursor] = "eval" /\ pc' = "python"
      /\ UNCHANGED <<lines, native, cstack, python, frame, words, cursor>>
  BY DEF FoundEval, Python, input
<1>3. PythonTail' /\ NativeOrder'
  BY <1>1, <1>2 DEF PythonTail, NativeOrder, NativeSize, PerLoop, Frames, IsNative, IsAddress, Passed
<1>4. (\A k \in Passed : Recorded(k)) \/ PerLoop * (Cardinality(Passed) + 1) > MaxDepth
  <2>1. CASE \A k \in Passed : Recorded(k)
    BY <2>1
  <2>2. CASE Full /\ Len(words) + PerLoop <= PerLoop * Cardinality(Passed)
    <3>1. PerLoop = 2 /\ Len(words) + 2 >= MaxDepth
      BY <2>2 DEF Full, PerLoop
    <3>2. Len(words) \in Nat /\ Cardinality(Passed) \in Nat /\ MaxDepth \in Nat
      BY <1>1, PassedFinite DEF TypeOK, MaxDepth
    <3> QED
      BY <2>2, <3>1, <3>2
  <2> QED
    BY <1>1, <1>2, <2>1, <2>2 DEF NativePhase
<1>5. /\ Passed' = Passed /\ PerLoop' = PerLoop
      /\ \A k : Recorded(k)' = Recorded(k)
  BY <1>2 DEF Passed, PerLoop, Recorded
<1>6. \A j, k \in Passed : j < k /\ Recorded(k) => Recorded(j)
  BY <1>1, <1>2 DEF NativePhase
<1>7. NativeDone'
  BY <1>2, <1>4, <1>5, <1>6 DEF NativeDone
<1>8. NativePhase' /\ Order'
  BY <1>1, <1>2 DEF NativePhase, Order
<1> QED
  BY <1>1, <1>3, <1>7, <1>8 DEF WalkInv

\* The buffer is full before the interpreter loop was found: what was passed
\* takes more than there is room for.
LEMMA NativeFullStep ==
  ASSUME WalkInv, NativeFull
  PROVE  WalkInv'
<1>1. TypeOK /\ TypeOK' /\ NativePhase /\ Order
  BY StepTypeOK DEF WalkInv, Next
<1>2. /\ pc = "native" /\ ~HasRoom /\ words' = <<>> /\ pc' = "python" /\ frame = 1
      /\ UNCHANGED <<lines, native, cstack, python, frame, cursor>>
  BY <1>1 DEF NativeFull, Python, input, Order
<1>3. Len(words') = 0 /\ NativeSize' = 0 /\ Frames' = 0
  BY <1>2 DEF NativeSize, Frames, PerLoop
<1>4. PerLoop * (Cardinality(Passed) + 1) > MaxDepth
  <2>1. Len(words) + PerLoop > MaxDepth /\ PerLoop \in {1, 2}
    BY <1>1, <1>2 DEF HasRoom, PerLoop, TypeOK, MaxDepth
  <2>2. Len(words) <= PerLoop * Cardinality(Passed)
    BY <1>1, <1>2 DEF NativePhase
  <2>3. Len(words) \in Nat /\ Cardinality(Passed) \in Nat /\ MaxDepth \in Nat
    BY <1>1, PassedFinite DEF TypeOK, MaxDepth
  <2> QED
    BY <2>1, <2>2, <2>3
<1>5. Passed' = Passed /\ PerLoop' = PerLoop
  BY <1>2 DEF Passed, PerLoop
<1>6. PythonTail' /\ NativeOrder'
  BY <1>3 DEF PythonTail, NativeOrder
<1>7. NativeDone'
  BY <1>3, <1>4, <1>5 DEF NativeDone, Recorded
<1>8. NativePhase' /\ Order'
  BY <1>2 DEF NativePhase, Order
<1> QED
  BY <1>1, <1>6, <1>7, <1>8 DEF WalkInv

\* No step of the walk breaks the invariant.
LEMMA StepWalk == WalkInv /\ [Next]_vars => WalkInv'
<1> SUFFICES ASSUME WalkInv, [Next]_vars PROVE WalkInv'
  OBVIOUS
<1>1. TypeOK /\ TypeOK' /\ PythonTail /\ NativeOrder /\ NativePhase /\ NativeDone /\ Order
  BY StepTypeOK DEF WalkInv
<1>2. ASSUME UNCHANGED <<lines, cstack, python, words, cursor, frame>>
      PROVE  /\ PythonTail' /\ NativeOrder'
             /\ Passed' = Passed /\ PerLoop' = PerLoop /\ HasRoom' = HasRoom
             /\ \A k : Recorded(k)' = Recorded(k)
             /\ \A j : IsAddress(j)' = IsAddress(j)
  BY <1>1, <1>2 DEF PythonTail, NativeOrder, NativeSize, PerLoop, Frames, IsNative, IsAddress,
                    Passed, Recorded, HasRoom
<1>3. ASSUME pc = "start", words' = words, pc' \in {"python", "walked"},
             UNCHANGED <<lines, cstack, python, words, cursor, frame>>,
             native' => pc' = "walked"
      PROVE  WalkInv'
  <2>1. words' = <<>> /\ Len(words') = 0
    BY <1>1, <1>3 DEF Order
  <2>2. NativePhase' /\ Order' /\ NativeDone'
    BY <1>1, <1>3, <2>1 DEF NativePhase, Order, NativeDone
  <2> QED
    BY <1>1, <1>2, <1>3, <2>2 DEF WalkInv
<1>4. CASE PythonOnly
  BY <1>1, <1>3, <1>4 DEF PythonOnly, input
<1>5. CASE UnwindUnavailable
  BY <1>3, <1>5 DEF UnwindUnavailable, Python, input
<1>6. CASE SkipSignalFrame
  <2>1. /\ pc = "start" /\ words' = <<>> /\ words = <<>> /\ cursor = 1
        /\ UNCHANGED <<lines, native, cstack, python, words, cursor, frame>>
        /\ pc' \in {"native", "walked"}
    BY <1>1, <1>6 DEF SkipSignalFrame, input, Order
  <2>2. Passed = {} /\ Cardinality(Passed) = 0 /\ Len(words) = 0
    BY <2>1, FS_EmptySet DEF Passed
  <2>a. Passed' = {} /\ Len(words') = 0
    BY <1>2, <2>1, <2>2
  <2>b. Len(words') <= PerLoop' * Cardinality(Passed')
    BY <2>2, <2>a DEF PerLoop
  <2>3. NativePhase'
    BY <2>a, <2>b DEF NativePhase
  <2>4. NativeDone' /\ Order'
    BY <1>1, <2>1, <2>2 DEF NativeDone, Order
  <2> QED
    BY <1>1, <1>2, <2>1, <2>3, <2>4 DEF WalkInv
<1>7. CASE FoundEval
  BY <1>7, FoundEvalStep
<1>8. CASE NativeFrame
  BY <1>8, NativeFrameStep
<1>9. CASE NativeFull
  BY <1>9, NativeFullStep
<1>10. CASE PythonFrame
  BY <1>10, PythonFrameStep
<1>11. ASSUME pc \notin {"start", "native"}, pc' \notin {"start", "native", "python"},
              UNCHANGED <<lines, native, cstack, python, words, cursor, frame>>,
              Order'
       PROVE  WalkInv'
  <2>1. NativeDone' /\ NativePhase'
    BY <1>1, <1>2, <1>11 DEF NativeDone, NativePhase
  <2> QED
    BY <1>1, <1>2, <1>11, <2>1 DEF WalkInv
<1>12. CASE PythonEnd
  <2>1. Order'
    BY <1>1, <1>12 DEF PythonEnd, Order, input, HasRoom, PerLoop
  <2> QED
    BY <1>11, <1>12, <2>1 DEF PythonEnd, input
<1>13. CASE SampleStack
  <2>1. Order'
    BY <1>1, <1>13 DEF SampleStack, Order, input, HasRoom, PerLoop
  <2> QED
    BY <1>11, <1>13, <2>1 DEF SampleStack, input
<1>14. CASE UNCHANGED vars
  <2>1. UNCHANGED <<lines, native, cstack, python, words, cursor, frame, pc>>
    BY <1>14 DEF vars, input
  <2>2. NativeDone' /\ NativePhase' /\ Order'
    BY <1>1, <1>2, <2>1 DEF NativeDone, NativePhase, Order, Full
  <2> QED
    BY <1>1, <1>2, <2>1, <2>2 DEF WalkInv
<1> QED
  BY <1>4, <1>5, <1>6, <1>7, <1>8, <1>9, <1>10, <1>12, <1>13, <1>14 DEF Next

LEMMA WalkAlways == Spec => []WalkInv
<1> QED
  BY InitWalk, StepWalk, PTL DEF Spec

\* A sample ends with the Python frames, from the innermost on and without a gap,
\* as many as there are or as fit, for every stack and every size of the buffer.
THEOREM PythonFramesRecorded == Spec => []PythonPrefix
<1>1. WalkInv => PythonPrefix
  <2> SUFFICES ASSUME PythonTail, Order, pc = "sampled", TypeOK PROVE PythonPrefix
    BY DEF WalkInv, PythonPrefix, Sampled
  <2>1. \A j \in 1..NativeSize : words[j].kind \notin {"code", "line"}
    BY DEF PythonTail, IsNative
  <2>2. frame <= python => ~HasRoom
    BY DEF Order, TypeOK, InputOK
  <2> QED
    BY <2>1, <2>2 DEF PythonTail, PythonPrefix
<1> QED
  BY <1>1, WalkAlways, PTL

\* The native frames of a sample are those above the interpreter loop that have an
\* address, in their order; outer ones are missing only for want of room.
THEOREM NativeFramesRecorded == Spec => []NativeComplete
<1>1. WalkInv => NativeComplete
  <2> SUFFICES ASSUME WalkInv, Sampled PROVE NativeComplete
    BY DEF NativeComplete
  <2>1. TypeOK /\ NativeOrder /\ NativeDone /\ words # <<>> /\ pc = "sampled"
    BY DEF WalkInv, Order, Sampled
  <2>2. Passed \subseteq Wanted /\ Wanted \subseteq Passed \cup {cursor}
    BY <2>1 DEF Passed, Wanted, TypeOK, InputOK
  <2>3. \A j \in 1..Len(words) : IsAddress(j) => words[j].of \in Wanted /\ (lines => j % 2 = 0)
    BY <2>1, <2>2 DEF NativeOrder
  <2>4. ASSUME native, cstack[cursor] = "eval"
        PROVE  /\ \A j \in Missing, k \in Wanted : j < k => k \in Missing
               /\ Missing = {} \/ PerLoop * (Cardinality(Wanted) + 1) > MaxDepth
    <3>1. Wanted = Passed
      BY <2>2, <2>4 DEF Wanted
    <3>2. \A j, k \in Passed : j < k /\ Recorded(k) => Recorded(j)
      BY <2>1, <2>4 DEF NativeDone
    <3>3. (\A k \in Passed : Recorded(k)) \/ PerLoop * (Cardinality(Passed) + 1) > MaxDepth
      BY <2>1, <2>4 DEF NativeDone
    <3> QED
      BY <3>1, <3>2, <3>3 DEF Missing
  <2> QED
    BY <2>1, <2>3, <2>4 DEF NativeComplete, NativeOrder, NativeDone
<1> QED
  BY <1>1, WalkAlways, PTL

\* The words of the native part are pairs in line mode, and addresses else.
NativePairs ==
  \A j \in 1..NativeSize : (lines => j % 2 = 0) =>
    \E k \in 1..Len(cstack) :
      words[j] = Word("address", k) /\ (lines => words[j - 1] = Word("zero", k))

\* No step of the walk breaks a pair.
LEMMA StepPairs == WalkInv /\ WalkInv' /\ NativePairs /\ [Next]_vars => NativePairs'
<1> SUFFICES ASSUME WalkInv, WalkInv', NativePairs, [Next]_vars PROVE NativePairs'
  OBVIOUS
<1>1. TypeOK /\ TypeOK' /\ PythonTail /\ PythonTail' /\ Order /\ UNCHANGED <<lines, cstack>>
  BY DEF WalkInv, Next, vars, input, Python, PythonOnly, UnwindUnavailable, SkipSignalFrame,
         FoundEval, NativeFrame, NativeFull, PythonFrame, PythonEnd, SampleStack
<1>2. /\ Len(words) \in Nat /\ Len(words') \in Nat /\ lines \in BOOLEAN
      /\ cursor \in 1..Len(cstack) /\ Len(cstack) \in Nat /\ frame \in Nat \ {0}
      /\ PerLoop' = PerLoop /\ PerLoop = IF lines THEN 2 ELSE 1
  BY <1>1 DEF TypeOK, InputOK, PerLoop
<1>3. CASE UNCHANGED <<words, frame>>
  <2>1. NativeSize' = NativeSize
    BY <1>2, <1>3 DEF NativeSize, Frames
  <2> QED
    BY <1>1, <1>3, <2>1 DEF NativePairs
<1>4. CASE words' = <<>> /\ frame' = 1
  <2>1. NativeSize' = 0
    BY <1>2, <1>4 DEF NativeSize, Frames
  <2> QED
    BY <2>1 DEF NativePairs
<1>5. CASE NativeFrame
  <2>1. frame = 1 /\ frame' = 1 /\ NativeSize = Len(words) /\ NativeSize' = Len(words')
    BY <1>1, <1>2, <1>5 DEF NativeFrame, Order, NativeSize, Frames
  <2>2. words' \in {words, <<>>, NativeWords(cursor)}
    BY <1>5 DEF NativeFrame
  <2>3. CASE /\ Len(words') = Len(words) + PerLoop
             /\ \A j \in 1..Len(words) : words'[j] = words[j]
             /\ words'[Len(words')] = Word("address", cursor)
             /\ lines => words'[Len(words') - 1] = Word("zero", cursor)
    <3>1. ASSUME NEW j \in 1..Len(words'), lines => j % 2 = 0
          PROVE  \E k \in 1..Len(cstack) :
                   words'[j] = Word("address", k) /\ (lines => words'[j - 1] = Word("zero", k))
      <4>1. CASE j = Len(words')
        BY <1>2, <2>3, <4>1
      <4>2. CASE j # Len(words')
        <5>1. lines => Len(words) % 2 = 0
          BY <1>1, <2>1 DEF PythonTail
        <5>2. j \in 1..Len(words)
          BY <1>2, <2>3, <3>1, <4>2, <5>1
        <5>3. lines => j - 1 \in 1..Len(words)
          BY <1>2, <3>1, <5>2
        <5>4. PICK k \in 1..Len(cstack) :
                words[j] = Word("address", k) /\ (lines => words[j - 1] = Word("zero", k))
          BY <2>1, <3>1, <5>2 DEF NativePairs
        <5> QED
          BY <2>3, <5>2, <5>3, <5>4
      <4> QED
        BY <4>1, <4>2
    <3> QED
      BY <1>1, <2>1, <3>1 DEF NativePairs, Word
  <2> QED
    BY <1>1, <1>3, <1>4, <2>1, <2>2, <2>3, NativeAppends
<1>6. CASE PythonFrame
  <2>1. /\ Len(words') = Len(words) + PerLoop
        /\ \A j \in 1..Len(words) : words'[j] = words[j]
        /\ frame' = frame + 1
    BY <1>1, <1>6, PythonAppends DEF PythonFrame
  <2>2. NativeSize' = NativeSize /\ NativeSize \in Nat /\ NativeSize <= Len(words)
    <3>1. frame - 1 \in Nat /\ NativeSize >= 0
      BY <1>1, <1>2 DEF PythonTail
    <3>2. CASE lines
      BY <1>2, <2>1, <3>1, <3>2 DEF NativeSize, Frames
    <3>3. CASE ~lines
      BY <1>2, <2>1, <3>1, <3>3 DEF NativeSize, Frames
    <3> QED
      BY <1>2, <3>2, <3>3
  <2>3. ASSUME NEW j \in 1..NativeSize, lines => j % 2 = 0
        PROVE  words'[j] = words[j] /\ (lines => words'[j - 1] = words[j - 1])
    BY <1>2, <2>1, <2>2, <2>3
  <2>4. ASSUME NEW j \in 1..NativeSize, lines => j % 2 = 0
        PROVE  \E k \in 1..Len(cstack) :
                 words'[j] = Word("address", k) /\ (lines => words'[j - 1] = Word("zero", k))
    BY <2>3, <2>4 DEF NativePairs
  <2> QED
    BY <1>1, <2>2, <2>4 DEF NativePairs, Word
<1>7. CASE NativeFull
  BY <1>1, <1>4, <1>7 DEF NativeFull, Python, Order
<1> QED
  BY <1>3, <1>5, <1>6, <1>7 DEF Next, vars, input, Python, PythonOnly, UnwindUnavailable,
     SkipSignalFrame, FoundEval, PythonEnd, SampleStack

\* Where the reader has each word, and whether for a line.
LEMMA ReadBackwards ==
  ASSUME TypeOK, NEW k \in 1..Len(words)
  PROVE  ReadTrace[Len(words) - k + 1] =
           IF lines /\ k % 2 = 1 THEN [line |-> words[k]] ELSE [addr |-> words[k]]
<1> DEFINE Item(j) == IF lines /\ j % 2 = 1 THEN [line |-> Record[j]] ELSE [addr |-> Record[j]]
           items == [j \in 1..Len(words) |-> Item(j)]
<1>1. words \in Seq(Words) /\ Len(words) \in Nat
  BY DEF TypeOK
<1>2. Record[k] = words[k]
  <2>1. CASE rss
    <3>1. Record = words \o <<Word("thread", 0)>> \o <<Word("rss", 0)>>
      BY <2>1 DEF Record
    <3> QED
      BY <1>1, <3>1
  <2>2. CASE ~rss
    <3>1. Record = words \o <<Word("thread", 0)>> \o <<>>
      BY <2>2 DEF Record
    <3> QED
      BY <1>1, <3>1
  <2> QED
    BY <2>1, <2>2
<1>3. Len(items) = Len(words)
  BY <1>1
<1>4. ReadTrace = Reverse(items)
  BY DEF ReadTrace
<1>5. Len(words) - k + 1 \in 1..Len(words) /\ Len(words) - (Len(words) - k + 1) + 1 = k
  BY <1>1
<1>6. ReadTrace[Len(words) - k + 1] = items[k]
  BY <1>3, <1>4, <1>5 DEF Reverse
<1> QED
  BY <1>2, <1>6

\* The reader has every frame of the sample with its own line and in its order:
\* no word that the walk leaves out shifts the ones before or behind it.
THEOREM TraceReadAsWritten == Spec => []ReadAsWritten
<1>1. WalkInv /\ NativePairs => ReadAsWritten
  <2> SUFFICES ASSUME TypeOK, PythonTail, NativePairs PROVE ReadAsWritten
    BY DEF WalkInv
  <2>1. /\ Len(words) \in Nat /\ lines \in BOOLEAN /\ frame \in Nat \ {0}
        /\ PerLoop = IF lines THEN 2 ELSE 1
    BY DEF TypeOK, InputOK, PerLoop
  <2>2. /\ Frames \in Nat /\ NativeSize \in Nat /\ (lines => NativeSize % 2 = 0)
        /\ Len(words) = NativeSize + PerLoop * Frames
    BY <2>1 DEF PythonTail, NativeSize, Frames
  <2>3. Len(words) % PerLoop = 0
    BY <2>1, <2>2
  <2>4. ASSUME NEW i \in 1..Len(words) \div PerLoop
        PROVE  LET k == Len(words) - PerLoop * (i - 1)
               IN  /\ k \in 1..Len(words) /\ ReadTrace[PerLoop * (i - 1) + 1] = [addr |-> words[k]]
                   /\ lines => ReadTrace[PerLoop * (i - 1) + 2] = [line |-> words[k - 1]]
    <3> DEFINE k == Len(words) - PerLoop * (i - 1)
    <3>1. CASE lines
      <4>1. k \in 2..Len(words) /\ k % 2 = 0
        BY <2>1, <2>3, <2>4, <3>1
      <4>2. PerLoop * (i - 1) + 1 = Len(words) - k + 1 /\ (k - 1) % 2 = 1
        BY <2>1, <4>1
      <4>3. ReadTrace[Len(words) - k + 1] = [addr |-> words[k]]
        <5>1. k \in 1..Len(words) /\ k % 2 # 1
          BY <2>1, <4>1
        <5> QED
          BY <5>1, ReadBackwards
      <4>4. ReadTrace[Len(words) - k + 2] = [line |-> words[k - 1]]
        <5>1. k - 1 \in 1..Len(words) /\ Len(words) - (k - 1) + 1 = Len(words) - k + 2
          BY <2>1, <4>1
        <5>2. ReadTrace[Len(words) - (k - 1) + 1] = [line |-> words[k - 1]]
          BY <3>1, <4>2, <5>1, ReadBackwards
        <5> QED
          BY <5>1, <5>2
      <4> QED
        BY <2>1, <4>1, <4>2, <4>3, <4>4
    <3>2. CASE ~lines
      <4>1. k \in 1..Len(words) /\ PerLoop * (i - 1) + 1 = Len(words) - k + 1
        BY <2>1, <2>4, <3>2
      <4>2. ReadTrace[Len(words) - k + 1] = [addr |-> words[k]]
        BY <2>1, <3>2, <4>1, ReadBackwards
      <4> QED
        BY <3>2, <4>1, <4>2
    <3> QED
      BY <2>1, <3>1, <3>2
  <2>5. ASSUME NEW i \in 1..Frames
        PROVE  ReadAs(i, Word("code", frame - i), Word("line", frame - i))
    <3> DEFINE k == Len(words) - PerLoop * (i - 1)
               f == frame - i
    <3>1. f \in 1..Frames /\ i \in 1..Len(words) \div PerLoop
      BY <2>1, <2>2 DEF Frames
    <3>2. k = NativeSize + PerLoop * f /\ (lines => k - 1 = NativeSize + 2 * f - 1)
      BY <2>1, <2>2, <3>1 DEF Frames
    <3>3. words[k] = Word("code", f) /\ (lines => words[k - 1] = Word("line", f))
      <4>1. /\ words[NativeSize + PerLoop * f] = Word("code", f)
            /\ lines => words[NativeSize + 2 * f - 1] = Word("line", f)
        <5> HIDE DEF f
        <5> QED
          BY <3>1 DEF PythonTail
      <4> QED
        BY <3>2, <4>1
    <3>4. /\ ReadTrace[PerLoop * (i - 1) + 1] = [addr |-> words[k]]
          /\ lines => ReadTrace[(PerLoop * (i - 1) + 1) + 1] = [line |-> words[k - 1]]
      <4>1. (PerLoop * (i - 1) + 1) + 1 = PerLoop * (i - 1) + 2
        BY <2>1, <2>2
      <4> QED
        BY <2>4, <3>1, <4>1
    <3> HIDE DEF k
    <3> QED
      BY <3>3, <3>4 DEF ReadAs
  <2>6. ASSUME NEW i \in Frames + 1..Len(words) \div PerLoop
        PROVE  \E k \in 1..Len(cstack) : ReadAs(i, Word("address", k), Word("zero", k))
    <3> DEFINE j == Len(words) - PerLoop * (i - 1)
    <3>1. i \in 1..Len(words) \div PerLoop /\ j \in 1..NativeSize /\ (lines => j % 2 = 0)
      BY <2>1, <2>2
    <3>2. PICK k \in 1..Len(cstack) :
            words[j] = Word("address", k) /\ (lines => words[j - 1] = Word("zero", k))
      <4> HIDE DEF j
      <4> QED
        BY <3>1 DEF NativePairs
    <3>3. /\ ReadTrace[PerLoop * (i - 1) + 1] = [addr |-> words[j]]
          /\ lines => ReadTrace[(PerLoop * (i - 1) + 1) + 1] = [line |-> words[j - 1]]
      <4>1. (PerLoop * (i - 1) + 1) + 1 = PerLoop * (i - 1) + 2
        BY <2>1, <2>2
      <4> QED
        BY <2>4, <3>1, <4>1
    <3> HIDE DEF j
    <3> QED
      BY <3>2, <3>3 DEF ReadAs
  <2> QED
    BY <2>3, <2>5, <2>6 DEF ReadAsWritten
<1>2. Init => NativePairs
  <2> SUFFICES ASSUME Init PROVE NativePairs
    OBVIOUS
  <2>1. NativeSize = 0
    BY DEF Init, NativeSize, Frames, PerLoop
  <2> QED
    BY <2>1 DEF NativePairs
<1> QED
  BY <1>1, <1>2, WalkAlways, StepPairs, PTL DEF Spec
=============================================================================
