------------------------- MODULE WinSampler_proofs -------------------------
(***************************************************************************)
(* Proofs about WinSampler: whole records in every session that begins     *)
(* with the sampling thread asleep, as long as nothing is written where    *)
(* the reader of disable() has the offset, and at most one late sample.    *)
(***************************************************************************)
EXTENDS WinSampler, TLAPS

Kinds == Records \cup {"sample"}
Parts == [kind : Kinds \cup {"torn"}, from : 0 .. Size, upto : 0 .. Size]

\* In these places the program has asked for a record to be written.
Asking == pc \in {"wait", "write"}

TypeInv ==
  /\ enabled \in BOOLEAN /\ is_enabled \in BOOLEAN
  /\ clean \in BOOLEAN /\ cut \in BOOLEAN /\ mixed \in BOOLEAN
  /\ session \in Nat /\ write_mutex = session
  /\ fd \in {session, NoFile, Stdin} /\ sfd \in Int /\ smutex \in 0 .. session
  /\ owner \in {"none", "program", "sampler"}
  /\ pc \in {"idle", "wait", "write", "start", "off", "close"} \cup Readings
  /\ is_enabled \/ pc # "idle" => session > 0
  /\ record \in Records \cup {None} /\ (record \in Records <=> Asking)
  /\ mleft \in 0 .. Size /\ (pc = "write" => mleft > 0)
  /\ spc \in {"sleep", "suspend", "walk", "wait", "write"}
  /\ sleft \in 0 .. Size /\ (spc = "write" => sleft > 0)
  /\ file \in Seq(Parts) /\ off \in 0 .. Len(file)
  /\ late \in Nat \cup {-1}

\* Where the program goes on when a record is written.
BackInv ==
  /\ record \in {None, "codes"} => back = None
  /\ record = "header" => back = "start"
  /\ record = "trailer" => back = "off"
  /\ record = "name" => back \in {"idle"} \cup Readings

\* The mutex of the last session is held by whoever writes under it.
MutexInv ==
  /\ owner = "program" <=> pc = "write"
  /\ owner = "sampler" <=> spc = "write" /\ smutex = write_mutex

\* Where the descriptor and the sampling thread are in a session that began with
\* the thread asleep; the header is written before anything else.
CleanInv ==
  clean =>
    /\ session > 0
    /\ spc \in {"wait", "write"} => smutex = write_mutex
    /\ spc = "write" => sfd \in {session, NoFile, Stdin}
    /\ spc = "write" /\ sfd = session => file # <<>>
    /\ record = "header" \/ pc = "start" => fd = session /\ ~enabled /\ spc = "sleep"
    /\ fd = session /\ file = <<>> => record = "header"
    /\ is_enabled => fd = session /\ record # "header" /\ pc # "start"
    /\ pc \in {"off", "close"} \cup Readings \/ record \in Records \ {"header"} => is_enabled
    /\ record = "header" /\ (pc = "wait" \/ mleft = Size) => file = <<>>

\* The offset is behind the last record, but for the reading of disable() and what
\* that has led to.
OffsetInv == Reading \/ mixed \/ off = Len(file)

Last == file[Len(file)]

\* The program, or the sampling thread, is in the middle of its record.
ProgramMidst == pc = "write" /\ mleft < Size
SamplerMidst == spc = "write" /\ sfd = session /\ sleft < Size

\* The file ends in n words of a record of this kind.
EndsIn(kind, n) == file # <<>> /\ Last.kind = kind /\ Last.upto = n

MidstInv ==
  clean /\ ~mixed =>
    /\ ProgramMidst /\ fd = session => EndsIn(record, Size - mleft)
    /\ SamplerMidst => EndsIn("sample", Size - sleft)

\* Records are whole but for the one that somebody is writing.
FileInv ==
  clean /\ ~cut /\ ~mixed =>
    /\ \A i \in 1 .. Len(file) : /\ file[i].from = 0
                                 /\ i < Len(file) => file[i].upto = Size
                                 /\ file[i].kind = "header" <=> i = 1
    /\ file # <<>> => Last.upto = Size \/ SamplerMidst \/ ProgramMidst

\* A sample that will get into the file if nothing fails.
Pending == \/ fd = session /\ spc \in {"suspend", "walk", "wait"}
           \/ spc = "write" /\ sfd = session /\ sleft = Size

\* From the moment disable() clears the flag to the end of its call.
Disabling == \/ pc \in {"off", "close"} \/ Reading
             \/ record \in {"codes", "trailer"}

LateInv ==
  clean /\ late >= 0 =>
    /\ \/ ~enabled /\ Disabling
       \/ pc = "idle" /\ fd = NoFile /\ ~is_enabled
    /\ Pending => late = 0
    /\ late <= 1

Inv == /\ TypeInv /\ BackInv /\ MutexInv /\ CleanInv
       /\ OffsetInv /\ MidstInv /\ FileInv /\ LateInv

-----------------------------------------------------------------------------
(* What a write does to the file *)

Part(kind, from, upto) == [kind |-> kind, from |-> from, upto |-> upto]

\* Wherever the offset is: the file is one of parts, and not empty.
LEMMA PutType ==
  ASSUME NEW f \in Int, NEW kind \in Kinds, NEW rest \in 1 .. Size, NEW n \in 1 .. rest,
         file \in Seq(Parts), off \in 0 .. Len(file), mixed \in BOOLEAN,
         Put(f, kind, rest, n)
  PROVE  /\ file' \in Seq(Parts) /\ off' \in 0 .. Len(file') /\ mixed' \in BOOLEAN
         /\ mixed => mixed'
         /\ IF f # session THEN UNCHANGED log ELSE file' # <<>>
<1>1. CASE f # session
  BY <1>1 DEF Put, log
<1>2. CASE f = session
  <2> DEFINE from   == Size - rest
             goesOn == off > 0 /\ from > 0 /\ file[off].kind = kind /\ file[off].upto = from
             before == SubSeq(file, 1, off)
             after  == IF off = Len(file) THEN <<>>
                                          ELSE <<Torn>> \o SubSeq(file, off + 2, Len(file))
             front  == IF goesOn THEN [before EXCEPT ![off].upto = from + n]
                       ELSE Append(before, [kind |-> kind, from |-> from, upto |-> from + n])
             here   == IF goesOn THEN off ELSE off + 1
  <2>1. /\ file' = front \o after
        /\ off' = here
        /\ mixed' = (mixed \/ (Reading /\ off < Len(file)))
    BY <1>2, Zenon DEF Put
  <2>2. before \in Seq(Parts) /\ Len(before) = off
    OBVIOUS
  <2>3. after \in Seq(Parts)
    <3>1. Torn \in Parts
      BY DEF Torn, Parts, Size
    <3>2. CASE off # Len(file)
      <4>1. SubSeq(file, off + 2, Len(file)) \in Seq(Parts) /\ <<Torn>> \in Seq(Parts)
        BY <3>1
      <4>q. QED BY <3>2, <4>1
    <3>3. CASE off = Len(file)
      BY <3>3
    <3>q. QED BY <3>2, <3>3
  <2>4. front \in Seq(Parts) /\ Len(front) = here /\ here \in Nat /\ here > 0
    <3>1. CASE goesOn
      <4>1. off \in 1 .. Len(before) /\ before[off] \in Parts /\ from + n \in 0 .. Size
        BY <2>2, <3>1 DEF Size
      <4>2. [before[off] EXCEPT !.upto = from + n] \in Parts
        BY <4>1 DEF Parts
      <4> HIDE DEF before, from
      <4>q. QED BY <2>2, <3>1, <4>1, <4>2
    <3>2. CASE ~goesOn
      <4>1. [kind |-> kind, from |-> from, upto |-> from + n] \in Parts
        BY DEF Parts, Size
      <4> HIDE DEF before, from
      <4>q. QED BY <2>2, <3>2, <4>1
    <3>q. QED BY <3>1, <3>2
  <2> HIDE DEF front, after, here
  <2>5. file' \in Seq(Parts) /\ Len(file') = here + Len(after) /\ Len(after) \in Nat
    <3>1. Len(front \o after) = Len(front) + Len(after) /\ front \o after \in Seq(Parts)
      BY <2>3, <2>4
    <3>2. Len(after) \in Nat
      BY <2>3
    <3>q. QED BY <2>1, <2>4, <3>1, <3>2
  <2>6. file' # <<>> /\ off' \in 0 .. Len(file')
    BY <2>1, <2>4, <2>5
  <2>q. QED BY <1>2, <2>1, <2>5, <2>6
<1>q. QED BY <1>1, <1>2

\* What a write to the end of the file of the session does to it.
Begins(kind, n) == /\ file' = Append(file, Part(kind, 0, n)) /\ n \in 1 .. Size
                   /\ file' \in Seq(Parts)
GoesOn(kind) == /\ EndsIn(kind, 1)
                /\ file' = [file EXCEPT ![Len(file)].upto = Size]
                /\ file' \in Seq(Parts) /\ Len(file') = Len(file)

\* That is what happens as long as nothing gets mixed up.
LEMMA PutEffect ==
  ASSUME NEW kind \in Kinds, NEW rest \in 1 .. Size, NEW n \in 1 .. rest,
         file \in Seq(Parts), off \in 0 .. Len(file), mixed \in BOOLEAN, session \in Int,
         Put(session, kind, rest, n), OffsetInv, ~mixed',
         rest < Size => EndsIn(kind, Size - rest)
  PROVE  \/ rest = Size /\ Begins(kind, n)
         \/ rest = 1 /\ n = 1 /\ GoesOn(kind)
<1>1. off = Len(file) /\ file' \in Seq(Parts)
  <2>1. mixed' = (mixed \/ (Reading /\ off < Len(file))) /\ file' \in Seq(Parts)
    BY PutType DEF Put
  <2>2. ~mixed /\ ~(Reading /\ off < Len(file))
    BY <2>1, Zenon
  <2>3. Reading \/ off = Len(file)
    BY <2>2, Zenon DEF OffsetInv
  <2>4. CASE off < Len(file)
    BY <2>2, <2>3, <2>4
  <2>5. CASE ~(off < Len(file))
    BY <2>1, <2>5
  <2>q. QED BY <2>4, <2>5
<1>2. SubSeq(file, 1, off) = file
  BY <1>1
<1>3. CASE rest = Size
  <2>1. file' = Append(file, Part(kind, 0, n)) \o <<>>
    BY <1>1, <1>2, <1>3 DEF Put, Size, Part
  <2>2. Part(kind, 0, n) \in Parts
    BY DEF Part, Parts, Size
  <2>3. file' = Append(file, Part(kind, 0, n))
    BY <2>1, <2>2
  <2>q. QED BY <1>1, <1>3, <2>3 DEF Begins
<1>4. CASE rest < Size
  <2>1. rest = 1 /\ n = 1 /\ EndsIn(kind, 1)
    BY <1>4 DEF Size
  <2>2. off > 0 /\ file[off].kind = kind /\ file[off].upto = 1
    BY <1>1, <2>1 DEF EndsIn, Last
  <2> DEFINE s == [file EXCEPT ![Len(file)].upto = Size]
  <2>3. file' = s \o <<>>
    <3>1. Size - rest = 1 /\ 1 + n = Size
      BY <2>1 DEF Size
    <3>2. file' = [SubSeq(file, 1, off) EXCEPT ![off].upto = Size - rest + n] \o <<>>
      BY <1>1, <2>1, <2>2, <3>1 DEF Put
    <3>q. QED BY <1>1, <1>2, <3>1, <3>2
  <2>4. s \in Seq(Parts) /\ Len(s) = Len(file)
    <3>1. Len(file) \in 1 .. Len(file) /\ Last \in Parts
      BY <2>1 DEF EndsIn, Last
    <3>2. [Last EXCEPT !.upto = Size] \in Parts
      BY <3>1 DEF Parts, Size
    <3>q. QED BY <3>1, <3>2 DEF Last
  <2>5. file' = s
    <3> HIDE DEF s
    <3>q. QED BY <2>3, <2>4
  <2>q. QED BY <1>1, <2>1, <2>4, <2>5 DEF GoesOn
<1>q. QED BY <1>3, <1>4 DEF Size

\* What MainWrite and Write do, as far as the file is concerned.
LEMMA MainPut ==
  ASSUME TypeInv, OffsetInv, MidstInv, clean, MainWrite, ~mixed'
  PROVE  /\ ~mixed
         /\ \/ fd # session /\ file' = file
            \/ fd = session /\ mleft = Size /\ Begins(record, Size - mleft')
            \/ fd = session /\ mleft = 1 /\ mleft' = 0 /\ GoesOn(record)
<1> PICK n \in 1 .. mleft : Put(fd, record, mleft, n) /\ mleft' = mleft - n
  BY DEF MainWrite
<1>1. /\ mleft \in 1 .. Size /\ record \in Kinds /\ pc = "write" /\ fd \in Int
      /\ file \in Seq(Parts) /\ off \in 0 .. Len(file) /\ mixed \in BOOLEAN /\ session \in Int
  BY DEF MainWrite, TypeInv, Asking, Kinds, Size, NoFile, Stdin
<1>2. ~mixed
  BY <1>1, PutType
<1>3. CASE fd # session
  BY <1>2, <1>3 DEF Put, log
<1>4. CASE fd = session
  <2>0. mleft < Size => EndsIn(record, Size - mleft)
    BY <1>1, <1>2, <1>4 DEF MidstInv, ProgramMidst
  <2>1. \/ mleft = Size /\ Begins(record, n)
        \/ mleft = 1 /\ n = 1 /\ GoesOn(record)
    BY <1>1, <1>4, <2>0, PutEffect
  <2>2. n = Size - mleft' \/ mleft # Size
    BY <1>1 DEF Size
  <2>q. QED BY <1>2, <1>4, <2>1, <2>2
<1>q. QED BY <1>3, <1>4

LEMMA SamplerPut ==
  ASSUME TypeInv, OffsetInv, MidstInv, clean, Write, ~mixed'
  PROVE  /\ ~mixed
         /\ \/ sfd # session /\ file' = file
            \/ sfd = session /\ sleft = Size /\ Begins("sample", Size - sleft')
            \/ sfd = session /\ sleft = 1 /\ sleft' = 0 /\ GoesOn("sample")
<1> PICK n \in 1 .. sleft : Put(sfd, "sample", sleft, n) /\ sleft' = sleft - n
  BY DEF Write
<1>1. /\ sleft \in 1 .. Size /\ "sample" \in Kinds /\ spc = "write" /\ sfd \in Int
      /\ file \in Seq(Parts) /\ off \in 0 .. Len(file) /\ mixed \in BOOLEAN /\ session \in Int
  BY DEF Write, TypeInv, Kinds, Size
<1>2. ~mixed
  BY <1>1, PutType
<1>3. CASE sfd # session
  BY <1>2, <1>3 DEF Put, log
<1>4. CASE sfd = session
  <2>0. sleft < Size => EndsIn("sample", Size - sleft)
    BY <1>1, <1>2, <1>4 DEF MidstInv, SamplerMidst
  <2>1. \/ sleft = Size /\ Begins("sample", n)
        \/ sleft = 1 /\ n = 1 /\ GoesOn("sample")
    BY <1>1, <1>4, <2>0, PutEffect
  <2>2. n = Size - sleft' \/ sleft # Size
    BY <1>1 DEF Size
  <2>q. QED BY <1>2, <1>4, <2>1, <2>2
<1>q. QED BY <1>3, <1>4

\* A write that begins a record makes the file longer by it, one that goes on
\* completes the last.
LEMMA BeginsPart ==
  ASSUME NEW kind \in Kinds, NEW n, file \in Seq(Parts), Begins(kind, n)
  PROVE  /\ Len(file') = Len(file) + 1 /\ file' # <<>>
         /\ \A i \in 1 .. Len(file) : file'[i] = file[i]
         /\ Last' = Part(kind, 0, n)
         /\ \A i \in 1 .. Len(file') : i \in 1 .. Len(file) \/ i = Len(file')
BY DEF Begins, Last, Part

LEMMA GoesOnPart ==
  ASSUME NEW kind \in Kinds, file \in Seq(Parts), GoesOn(kind)
  PROVE  /\ Len(file') = Len(file) /\ file' # <<>> /\ file # <<>>
         /\ \A i \in 1 .. Len(file) :
              /\ file'[i].kind = file[i].kind /\ file'[i].from = file[i].from
              /\ i < Len(file) => file'[i].upto = file[i].upto
         /\ Last'.kind = kind /\ Last'.upto = Size
<1>1. file # <<>> /\ Len(file) \in 1 .. Len(file)
  BY DEF GoesOn, EndsIn
<1>2. \A i \in 1 .. Len(file) : file[i] \in Parts
  OBVIOUS
<1>3. Len(file') = Len(file)
  BY DEF GoesOn
<1>4. \A i \in 1 .. Len(file) :
        file'[i] = IF i = Len(file) THEN [file[i] EXCEPT !.upto = Size] ELSE file[i]
  BY DEF GoesOn
<1>5. file' # <<>>
  BY <1>1, <1>3
<1>q. QED BY <1>1, <1>2, <1>3, <1>4, <1>5 DEF GoesOn, EndsIn, Last, Parts

-----------------------------------------------------------------------------
(* The steps *)

\* Every step keeps the types.
LEMMA NextType ==
  ASSUME TypeInv, BackInv, [Next]_vars
  PROVE  TypeInv'
<1> USE DEF TypeInv, BackInv,
       Asking, Asks, Returns, None, Records, NoFile, Stdin, Size, Readings,
       flags, mutex, program, sampler, log, ghosts, Others
<1>1. CASE EnableBegin
  <2>1. /\ session' = session + 1 /\ write_mutex' = session' /\ fd' = session'
        /\ pc' = "wait" /\ record' = "header" /\ back' = "start" /\ owner' = "none"
        /\ late' = -1 /\ cut' = FALSE /\ mixed' = FALSE /\ file' = <<>> /\ off' = 0
        /\ clean' \in BOOLEAN
        /\ UNCHANGED <<flags, mleft, suspended, sampler, writes>>
    BY <1>1 DEF EnableBegin
  <2>2. session' \in Nat /\ smutex' \in 0 .. session'
    BY <2>1
  <2>3. file' \in Seq(Parts) /\ off' \in 0 .. Len(file')
    BY <2>1
  <2>4. enabled' \in BOOLEAN /\ is_enabled' \in BOOLEAN
    BY <2>1
  <2>5. cut' \in BOOLEAN /\ mixed' \in BOOLEAN
    BY <2>1
  <2>6. UNCHANGED <<mleft, spc, sleft, smutex, sfd>>
    BY <2>1
  <2>q. QED BY <2>1, <2>2, <2>3, <2>4, <2>5, <2>6
<1>2. CASE IgnoreSignals
  BY <1>2 DEF IgnoreSignals
<1>3. CASE RegisterName
  BY <1>3 DEF RegisterName
<1>4. CASE DisableStop
  <2>1. /\ pc' = "detect" /\ pc = "idle" /\ is_enabled /\ enabled' = FALSE /\ late' = 0
        /\ UNCHANGED <<is_enabled, fd, write_mutex, owner, record, mleft, spc, sleft, smutex,
                        sfd, file, off, mixed, cut, session, clean>>
    BY <1>4 DEF DisableStop
  <2>2. enabled' \in BOOLEAN
    BY <2>1
  <2>q. QED BY <2>1, <2>2
<1>5. CASE EnableEnd
  <2>1. enabled' \in BOOLEAN /\ is_enabled' \in BOOLEAN
    BY <1>5 DEF EnableEnd
  <2>2. /\ pc = "start" /\ pc' = "idle"
        /\ UNCHANGED <<fd, mutex, record, mleft, sampler, log, cut, late, ghosts>>
    BY <1>5 DEF EnableEnd
  <2>q. QED BY <2>1, <2>2
<1>6. CASE DetectFileSizes
  BY <1>6 DEF DetectFileSizes, ReadStep
<1>7. CASE ReadRecord
  BY <1>7 DEF ReadRecord, ReadStep
<1>8. CASE ReadEnd
  BY <1>8 DEF ReadEnd, ReadStep
<1>9. CASE ReadFails
  BY <1>9 DEF ReadFails, ReadStep
<1>10. CASE DisableOff
  BY <1>10 DEF DisableOff
<1>11. CASE DisableClose
  BY <1>11 DEF DisableClose
<1>12. CASE MainAcquire
  BY <1>12 DEF MainAcquire
<1>13. CASE MainWrite
  <2> PICK n \in 1 .. mleft : Put(fd, record, mleft, n) /\ mleft' = mleft - n
    BY <1>13 DEF MainWrite
  <2>1. record \in Kinds /\ mleft \in 1 .. Size /\ fd \in Int
    BY <1>13 DEF MainWrite, Kinds
  <2>2. file' \in Seq(Parts) /\ off' \in 0 .. Len(file') /\ mixed' \in BOOLEAN
    BY <2>1, PutType
  <2> HIDE DEF log
  <2>q. QED BY <1>13, <2>1, <2>2 DEF MainWrite
<1>14. CASE MainWriteFails
  BY <1>14 DEF MainWriteFails, Cut
<1>15. CASE Wake
  BY <1>15 DEF Wake
<1>16. CASE Suspend
  BY <1>16 DEF Suspend
<1>17. CASE Resume
  BY <1>17 DEF Resume
<1>18. CASE Acquire
  BY <1>18 DEF Acquire
<1>19. CASE WriteFails
  <2>1. cut' \in BOOLEAN
    BY <1>19 DEF WriteFails, Cut
  <2>q. QED BY <1>19, <2>1 DEF WriteFails, SampleDone, Release
<1>20. CASE Write
  <2> PICK n \in 1 .. sleft : Put(sfd, "sample", sleft, n) /\ sleft' = sleft - n
    BY <1>20 DEF Write
  <2>1. "sample" \in Kinds /\ sleft \in 1 .. Size
    BY <1>20 DEF Write, Kinds
  <2>2. file' \in Seq(Parts) /\ off' \in 0 .. Len(file') /\ mixed' \in BOOLEAN
    BY <2>1, PutType
  <2> HIDE DEF log
  <2>q. QED BY <1>20, <2>1, <2>2 DEF Write, SampleDone, Release
<1>21. CASE UNCHANGED vars
  BY <1>21 DEF vars
<1>q. QED BY <1>1, <1>2, <1>3, <1>4, <1>5, <1>6, <1>7, <1>8, <1>9, <1>10, <1>11, <1>12,
       <1>13, <1>14, <1>15, <1>16, <1>17, <1>18, <1>19, <1>20, <1>21
  DEF Next, CallStep, SamplerStep

\* Every call of vmp_write_all returns to where it was made.
LEMMA NextBack ==
  ASSUME TypeInv, BackInv, [Next]_vars
  PROVE  BackInv'
<1> USE DEF TypeInv, BackInv,
       Asking, Asks, Returns, None, Records, NoFile, Stdin, Size, Readings,
       flags, mutex, program, sampler, log, ghosts, Others
<1>1. CASE EnableBegin
  BY <1>1 DEF EnableBegin
<1>2. CASE IgnoreSignals
  BY <1>2 DEF IgnoreSignals
<1>3. CASE RegisterName
  BY <1>3 DEF RegisterName
<1>4. CASE DisableStop
  BY <1>4 DEF DisableStop
<1>5. CASE EnableEnd
  BY <1>5 DEF EnableEnd
<1>6. CASE DetectFileSizes
  BY <1>6 DEF DetectFileSizes, ReadStep
<1>7. CASE ReadRecord
  BY <1>7 DEF ReadRecord, ReadStep
<1>8. CASE ReadEnd
  BY <1>8 DEF ReadEnd, ReadStep
<1>9. CASE ReadFails
  BY <1>9 DEF ReadFails, ReadStep
<1>10. CASE DisableOff
  BY <1>10 DEF DisableOff
<1>11. CASE DisableClose
  BY <1>11 DEF DisableClose
<1>12. CASE MainAcquire
  BY <1>12 DEF MainAcquire
<1>13. CASE MainWrite
  BY <1>13 DEF MainWrite
<1>14. CASE MainWriteFails
  BY <1>14 DEF MainWriteFails, Cut
<1>15. CASE Wake
  BY <1>15 DEF Wake
<1>16. CASE Suspend
  BY <1>16 DEF Suspend
<1>17. CASE Resume
  BY <1>17 DEF Resume
<1>18. CASE Acquire
  BY <1>18 DEF Acquire
<1>19. CASE WriteFails
  BY <1>19 DEF WriteFails, SampleDone, Release, Cut
<1>20. CASE Write
  BY <1>20 DEF Write, SampleDone, Release
<1>21. CASE UNCHANGED vars
  BY <1>21 DEF vars
<1>q. QED BY <1>1, <1>2, <1>3, <1>4, <1>5, <1>6, <1>7, <1>8, <1>9, <1>10, <1>11, <1>12,
       <1>13, <1>14, <1>15, <1>16, <1>17, <1>18, <1>19, <1>20, <1>21
  DEF Next, CallStep, SamplerStep

\* One step at a time, the mutex belongs to whoever writes under it; an enable
\* makes a new one that nobody has.
LEMMA NextMutex ==
  ASSUME TypeInv, BackInv, MutexInv, [Next]_vars
  PROVE  MutexInv'
<1> USE DEF TypeInv, BackInv, MutexInv,
       Asking, Asks, Returns, None, Records, NoFile, Stdin, Size, Readings,
       flags, mutex, program, sampler, log, ghosts, Others
<1>1. CASE EnableBegin
  BY <1>1 DEF EnableBegin
<1>2. CASE IgnoreSignals
  BY <1>2 DEF IgnoreSignals
<1>3. CASE RegisterName
  BY <1>3 DEF RegisterName
<1>4. CASE DisableStop
  BY <1>4 DEF DisableStop
<1>5. CASE EnableEnd
  BY <1>5 DEF EnableEnd
<1>6. CASE DetectFileSizes
  BY <1>6 DEF DetectFileSizes, ReadStep
<1>7. CASE ReadRecord
  BY <1>7 DEF ReadRecord, ReadStep
<1>8. CASE ReadEnd
  BY <1>8 DEF ReadEnd, ReadStep
<1>9. CASE ReadFails
  BY <1>9 DEF ReadFails, ReadStep
<1>10. CASE DisableOff
  BY <1>10 DEF DisableOff
<1>11. CASE DisableClose
  BY <1>11 DEF DisableClose
<1>12. CASE MainAcquire
  BY <1>12 DEF MainAcquire
<1>13. CASE MainWrite
  BY <1>13 DEF MainWrite
<1>14. CASE MainWriteFails
  BY <1>14 DEF MainWriteFails, Cut
<1>15. CASE Wake
  BY <1>15 DEF Wake
<1>16. CASE Suspend
  BY <1>16 DEF Suspend
<1>17. CASE Resume
  BY <1>17 DEF Resume
<1>18. CASE Acquire
  BY <1>18 DEF Acquire
<1>19. CASE WriteFails
  BY <1>19 DEF WriteFails, SampleDone, Release, Cut
<1>20. CASE Write
  BY <1>20 DEF Write, SampleDone, Release
<1>21. CASE UNCHANGED vars
  BY <1>21 DEF vars
<1>q. QED BY <1>1, <1>2, <1>3, <1>4, <1>5, <1>6, <1>7, <1>8, <1>9, <1>10, <1>11, <1>12,
       <1>13, <1>14, <1>15, <1>16, <1>17, <1>18, <1>19, <1>20, <1>21
  DEF Next, CallStep, SamplerStep

\* The sampling thread of a clean session has the mutex and the descriptor of
\* that session, or none.
LEMMA NextClean ==
  ASSUME TypeInv, BackInv, MutexInv, CleanInv, [Next]_vars
  PROVE  CleanInv'
<1> USE DEF TypeInv, BackInv, CleanInv,
       Asking, Asks, Returns, None, Records, NoFile, Stdin, Size, Readings,
       flags, mutex, program, sampler, log, ghosts, Others
<1>1. CASE EnableBegin
  BY <1>1 DEF EnableBegin
<1>2. CASE IgnoreSignals
  BY <1>2 DEF IgnoreSignals
<1>3. CASE RegisterName
  BY <1>3 DEF RegisterName
<1>4. CASE DisableStop
  BY <1>4 DEF DisableStop
<1>5. CASE EnableEnd
  BY <1>5 DEF EnableEnd
<1>6. CASE DetectFileSizes
  BY <1>6 DEF DetectFileSizes, ReadStep
<1>7. CASE ReadRecord
  BY <1>7 DEF ReadRecord, ReadStep
<1>8. CASE ReadEnd
  BY <1>8 DEF ReadEnd, ReadStep
<1>9. CASE ReadFails
  BY <1>9 DEF ReadFails, ReadStep
<1>10. CASE DisableOff
  BY <1>10 DEF DisableOff
<1>11. CASE DisableClose
  BY <1>11 DEF DisableClose
<1>12. CASE MainAcquire
  BY <1>12 DEF MainAcquire
<1>13. CASE MainWrite
  <2> PICK n \in 1 .. mleft : Put(fd, record, mleft, n) /\ mleft' = mleft - n
    BY <1>13 DEF MainWrite
  <2>1. record \in Kinds /\ mleft \in 1 .. Size /\ fd \in Int
    BY <1>13 DEF MainWrite, Kinds
  <2>2. IF fd # session THEN UNCHANGED log ELSE file' # <<>>
    BY <2>1, PutType
  <2>q. QED BY <1>13, <2>1, <2>2 DEF MainWrite
<1>14. CASE MainWriteFails
  BY <1>14 DEF MainWriteFails, Cut
<1>15. CASE Wake
  BY <1>15 DEF Wake
<1>16. CASE Suspend
  BY <1>16 DEF Suspend
<1>17. CASE Resume
  BY <1>17 DEF Resume
<1>18. CASE Acquire
  BY <1>18 DEF Acquire
<1>19. CASE WriteFails
  BY <1>19 DEF WriteFails, SampleDone, Release, Cut
<1>20. CASE Write
  <2> PICK n \in 1 .. sleft : Put(sfd, "sample", sleft, n) /\ sleft' = sleft - n
    BY <1>20 DEF Write
  <2>1. "sample" \in Kinds /\ sleft \in 1 .. Size
    BY <1>20 DEF Write, Kinds
  <2>2. IF sfd # session THEN UNCHANGED log ELSE file' # <<>>
    BY <2>1, PutType
  <2>q. QED BY <1>20, <2>1, <2>2 DEF Write, SampleDone, Release
<1>21. CASE UNCHANGED vars
  BY <1>21 DEF vars
<1>q. QED BY <1>1, <1>2, <1>3, <1>4, <1>5, <1>6, <1>7, <1>8, <1>9, <1>10, <1>11, <1>12,
       <1>13, <1>14, <1>15, <1>16, <1>17, <1>18, <1>19, <1>20, <1>21
  DEF Next, CallStep, SamplerStep

\* At the end of the file a write leaves the offset at its end.
LEMMA PutOffset ==
  ASSUME NEW f \in Int, NEW kind \in Kinds, NEW rest \in 1 .. Size, NEW n \in 1 .. rest,
         file \in Seq(Parts), off \in 0 .. Len(file), mixed \in BOOLEAN,
         Put(f, kind, rest, n), OffsetInv
  PROVE  mixed' \/ Reading \/ off' = Len(file')
<1>1. CASE f # session
  BY <1>1 DEF Put, log, OffsetInv
<1>2. CASE f = session /\ off = Len(file)
  <2> DEFINE from   == Size - rest
             goesOn == off > 0 /\ from > 0 /\ file[off].kind = kind /\ file[off].upto = from
             p == [kind |-> kind, from |-> from, upto |-> from + n]
             e == [file EXCEPT ![off].upto = from + n]
  <2>1. SubSeq(file, 1, off) = file
    BY <1>2
  <2>2. /\ file' = (IF goesOn THEN e ELSE Append(file, p)) \o <<>>
        /\ off' = IF goesOn THEN off ELSE off + 1
    BY <1>2, <2>1 DEF Put
  <2>3. e \in Seq(Parts) \/ ~goesOn
    <3>1. ASSUME goesOn  PROVE e \in Seq(Parts)
      <4>1. off \in 1 .. Len(file) /\ file[off] \in Parts /\ from + n \in 0 .. Size
        BY <3>1 DEF Size
      <4>2. [file[off] EXCEPT !.upto = from + n] \in Parts
        BY <4>1 DEF Parts
      <4>q. QED BY <4>1, <4>2
    <3>q. QED BY <3>1
  <2>4. Len(e) = Len(file) /\ p \in Parts
    BY DEF Parts, Size
  <2>5. CASE goesOn
    <3> HIDE DEF e, p
    <3>q. QED BY <1>2, <2>2, <2>3, <2>4, <2>5
  <2>6. CASE ~goesOn
    <3> HIDE DEF e, p, goesOn
    <3>q. QED BY <1>2, <2>2, <2>4, <2>6
  <2>q. QED BY <2>5, <2>6
<1>3. CASE f = session /\ off # Len(file)
  BY <1>3 DEF Put, OffsetInv
<1>q. QED BY <1>1, <1>2, <1>3

\* Only the reader of disable() moves the offset, and what it leaves elsewhere
\* than at the end is counted as mixed.
LEMMA NextOffset ==
  ASSUME TypeInv, BackInv, OffsetInv, [Next]_vars
  PROVE  OffsetInv'
<1> USE DEF TypeInv, BackInv, OffsetInv, Reading,
       Asking, Asks, Returns, None, Records, NoFile, Stdin, Size, Readings,
       flags, mutex, program, sampler, log, ghosts, Others
<1>1. CASE EnableBegin
  BY <1>1 DEF EnableBegin
<1>2. CASE IgnoreSignals
  BY <1>2 DEF IgnoreSignals
<1>3. CASE RegisterName
  BY <1>3 DEF RegisterName
<1>4. CASE DisableStop
  BY <1>4 DEF DisableStop
<1>5. CASE EnableEnd
  BY <1>5 DEF EnableEnd
<1>6. CASE DetectFileSizes
  BY <1>6 DEF DetectFileSizes, ReadStep
<1>7. CASE ReadRecord
  BY <1>7 DEF ReadRecord, ReadStep
<1>8. CASE ReadEnd
  <2>1. (mixed' <=> mixed \/ off < Len(file)) /\ UNCHANGED <<file, off>>
    BY <1>8 DEF ReadEnd, ReadStep
  <2>2. CASE mixed'
    BY <2>2
  <2>3. CASE ~mixed'
    <3>1. ~(off < Len(file)) /\ off \in 0 .. Len(file)
      BY <2>1, <2>3
    <3>q. QED BY <2>1, <3>1
  <2>q. QED BY <2>2, <2>3
<1>9. CASE ReadFails
  <2>1. (mixed' <=> mixed \/ off < Len(file)) /\ UNCHANGED <<file, off>>
    BY <1>9 DEF ReadFails, ReadStep
  <2>2. CASE mixed'
    BY <2>2
  <2>3. CASE ~mixed'
    <3>1. ~(off < Len(file)) /\ off \in 0 .. Len(file)
      BY <2>1, <2>3
    <3>q. QED BY <2>1, <3>1
  <2>q. QED BY <2>2, <2>3
<1>10. CASE DisableOff
  BY <1>10 DEF DisableOff
<1>11. CASE DisableClose
  BY <1>11 DEF DisableClose
<1>12. CASE MainAcquire
  BY <1>12 DEF MainAcquire
<1>13. CASE MainWrite
  <2> PICK n \in 1 .. mleft : Put(fd, record, mleft, n) /\ mleft' = mleft - n
    BY <1>13 DEF MainWrite
  <2>1. record \in Kinds /\ mleft \in 1 .. Size /\ fd \in Int
    BY <1>13 DEF MainWrite, Kinds
  <2>2. mixed' \/ Reading \/ off' = Len(file')
    BY <2>1, PutOffset
  <2> HIDE DEF log
  <2>q. QED BY <1>13, <2>1, <2>2 DEF MainWrite
<1>14. CASE MainWriteFails
  BY <1>14 DEF MainWriteFails, Cut
<1>15. CASE Wake
  BY <1>15 DEF Wake
<1>16. CASE Suspend
  BY <1>16 DEF Suspend
<1>17. CASE Resume
  BY <1>17 DEF Resume
<1>18. CASE Acquire
  BY <1>18 DEF Acquire
<1>19. CASE WriteFails
  BY <1>19 DEF WriteFails, SampleDone, Release, Cut
<1>20. CASE Write
  <2> PICK n \in 1 .. sleft : Put(sfd, "sample", sleft, n) /\ sleft' = sleft - n
    BY <1>20 DEF Write
  <2>1. "sample" \in Kinds /\ sleft \in 1 .. Size
    BY <1>20 DEF Write, Kinds
  <2>2. mixed' \/ Reading \/ off' = Len(file')
    BY <2>1, PutOffset
  <2> HIDE DEF log
  <2>q. QED BY <1>20, <2>1, <2>2 DEF Write, SampleDone, Release
<1>21. CASE UNCHANGED vars
  BY <1>21 DEF vars
<1>q. QED BY <1>1, <1>2, <1>3, <1>4, <1>5, <1>6, <1>7, <1>8, <1>9, <1>10, <1>11, <1>12,
       <1>13, <1>14, <1>15, <1>16, <1>17, <1>18, <1>19, <1>20, <1>21
  DEF Next, CallStep, SamplerStep

\* Nobody writes between the two pieces of a record.
LEMMA NextMidst ==
  ASSUME TypeInv, BackInv, MutexInv, CleanInv, OffsetInv, MidstInv, [Next]_vars
  PROVE  MidstInv'
<1> USE DEF TypeInv, BackInv, MutexInv, CleanInv, MidstInv,
       ProgramMidst, SamplerMidst, EndsIn, Last,
       Asking, Asks, Returns, None, Records, NoFile, Stdin, Size, Readings,
       flags, mutex, program, sampler, log, ghosts, Others
<1>1. CASE EnableBegin
  BY <1>1 DEF EnableBegin
<1>2. CASE IgnoreSignals
  BY <1>2 DEF IgnoreSignals
<1>3. CASE RegisterName
  BY <1>3 DEF RegisterName
<1>4. CASE DisableStop
  BY <1>4 DEF DisableStop
<1>5. CASE EnableEnd
  BY <1>5 DEF EnableEnd
<1>6. CASE DetectFileSizes
  BY <1>6 DEF DetectFileSizes, ReadStep
<1>7. CASE ReadRecord
  BY <1>7 DEF ReadRecord, ReadStep
<1>8. CASE ReadEnd
  BY <1>8 DEF ReadEnd, ReadStep
<1>9. CASE ReadFails
  BY <1>9 DEF ReadFails, ReadStep
<1>10. CASE DisableOff
  BY <1>10 DEF DisableOff
<1>11. CASE DisableClose
  BY <1>11 DEF DisableClose
<1>12. CASE MainAcquire
  BY <1>12 DEF MainAcquire
<1>13. CASE MainWrite
  <2> SUFFICES ASSUME clean, ~mixed'  PROVE MidstInv'
    BY <1>13 DEF MainWrite
  <2>0. ~mixed
    BY <1>13, MainPut
  <2>1. record \in Kinds /\ spc' = spc /\ sfd' = sfd /\ sleft' = sleft
    BY <1>13 DEF MainWrite, Kinds
  <2>2. CASE fd # session /\ file' = file
    BY <1>13, <2>0, <2>2 DEF MainWrite
  <2>3. CASE fd = session /\ mleft = Size /\ Begins(record, Size - mleft')
    <3>0. file' # <<>> /\ Last' = Part(record, 0, Size - mleft')
      BY <2>1, <2>3, BeginsPart
    <3>1. Last'.kind = record /\ Last'.upto = Size - mleft'
      BY <3>0 DEF Part
    <3>2. spc # "write"
      BY <1>13 DEF MainWrite
    <3>3. mleft' # 0 => pc' = pc /\ record' = record
      BY <1>13 DEF MainWrite
    <3>4. pc' = "write" => mleft' # 0
      BY <1>13 DEF MainWrite
    <3>q. QED BY <2>1, <3>0, <3>1, <3>2, <3>3, <3>4
  <2>4. CASE fd = session /\ mleft = 1 /\ mleft' = 0 /\ GoesOn(record)
    BY <1>13, <2>0, <2>1, <2>4, GoesOnPart DEF MainWrite
  <2>q. QED BY <1>13, <2>2, <2>3, <2>4, MainPut
<1>14. CASE MainWriteFails
  BY <1>14 DEF MainWriteFails, Cut
<1>15. CASE Wake
  BY <1>15 DEF Wake
<1>16. CASE Suspend
  BY <1>16 DEF Suspend
<1>17. CASE Resume
  BY <1>17 DEF Resume
<1>18. CASE Acquire
  BY <1>18 DEF Acquire
<1>19. CASE WriteFails
  BY <1>19 DEF WriteFails, SampleDone, Release, Cut
<1>20. CASE Write
  <2> SUFFICES ASSUME clean, ~mixed'  PROVE MidstInv'
    BY <1>20 DEF Write
  <2>0. ~mixed
    BY <1>20, SamplerPut
  <2>1. "sample" \in Kinds
    BY DEF Kinds
  <2>2. CASE sfd # session /\ file' = file
    BY <1>20, <2>0, <2>2 DEF Write, SampleDone, Release
  <2>3. CASE sfd = session /\ sleft = Size /\ Begins("sample", Size - sleft')
    <3>0. file' # <<>> /\ Last' = Part("sample", 0, Size - sleft')
      BY <2>1, <2>3, BeginsPart
    <3>1. Last'.kind = "sample" /\ Last'.upto = Size - sleft'
      BY <3>0 DEF Part
    <3>2. pc # "write" /\ pc' = pc
      BY <1>20 DEF Write
    <3>q. QED BY <3>0, <3>1, <3>2
  <2>4. CASE sfd = session /\ sleft = 1 /\ sleft' = 0 /\ GoesOn("sample")
    BY <1>20, <2>0, <2>1, <2>4, GoesOnPart DEF Write, SampleDone, Release
  <2>q. QED BY <1>20, <2>2, <2>3, <2>4, SamplerPut
<1>21. CASE UNCHANGED vars
  BY <1>21 DEF vars
<1>q. QED BY <1>1, <1>2, <1>3, <1>4, <1>5, <1>6, <1>7, <1>8, <1>9, <1>10, <1>11, <1>12,
       <1>13, <1>14, <1>15, <1>16, <1>17, <1>18, <1>19, <1>20, <1>21
  DEF Next, CallStep, SamplerStep

\* A record begins only behind a whole one.
LEMMA NextFile ==
  ASSUME Inv, [Next]_vars
  PROVE  FileInv'
<1> USE DEF TypeInv, BackInv, MutexInv, CleanInv, FileInv, MidstInv, ProgramMidst, SamplerMidst,
       EndsIn, Last, Cut, Inv,
       Asking, Asks, Returns, None, Records, NoFile, Stdin, Size, Readings,
       flags, mutex, program, sampler, log, ghosts, Others
<1>1. CASE EnableBegin
  BY <1>1 DEF EnableBegin
<1>2. CASE IgnoreSignals
  BY <1>2 DEF IgnoreSignals
<1>3. CASE RegisterName
  BY <1>3 DEF RegisterName
<1>4. CASE DisableStop
  BY <1>4 DEF DisableStop
<1>5. CASE EnableEnd
  BY <1>5 DEF EnableEnd
<1>6. CASE DetectFileSizes
  BY <1>6 DEF DetectFileSizes, ReadStep
<1>7. CASE ReadRecord
  BY <1>7 DEF ReadRecord, ReadStep
<1>8. CASE ReadEnd
  BY <1>8 DEF ReadEnd, ReadStep
<1>9. CASE ReadFails
  BY <1>9 DEF ReadFails, ReadStep
<1>10. CASE DisableOff
  BY <1>10 DEF DisableOff
<1>11. CASE DisableClose
  BY <1>11 DEF DisableClose
<1>12. CASE MainAcquire
  BY <1>12 DEF MainAcquire
<1>13. CASE MainWrite
  <2> SUFFICES ASSUME clean, ~mixed'  PROVE FileInv'
    BY <1>13 DEF MainWrite
  <2>0. ~mixed
    BY <1>13, MainPut
  <2>1. record \in Kinds /\ spc' = spc /\ sfd' = sfd /\ sleft' = sleft
    BY <1>13 DEF MainWrite, Kinds
  <2>2. CASE fd # session /\ file' = file
    BY <1>13, <2>0, <2>2 DEF MainWrite
  <2>3. CASE fd = session /\ mleft = Size /\ Begins(record, Size - mleft')
    <3> SUFFICES ASSUME ~cut  PROVE FileInv'
      BY <1>13 DEF MainWrite
    <3>1. /\ Len(file') = Len(file) + 1 /\ file' # <<>>
          /\ \A i \in 1 .. Len(file) : file'[i] = file[i]
          /\ Last' = Part(record, 0, Size - mleft')
          /\ \A i \in 1 .. Len(file') : i \in 1 .. Len(file) \/ i = Len(file')
      BY <2>1, <2>3, BeginsPart
    <3>2. /\ ~SamplerMidst /\ ~ProgramMidst /\ spc # "write"
          /\ (file = <<>> <=> record = "header")
      BY <1>13, <2>3 DEF MainWrite
    <3>3. Last'.kind = record /\ Last'.from = 0 /\ Last'.upto = Size - mleft'
      BY <3>1 DEF Part
    <3>4. file # <<>> => Last.upto = Size
      BY <2>0, <3>2
    <3>5. ASSUME NEW i \in 1 .. Len(file')
          PROVE  /\ file'[i].from = 0
                 /\ i < Len(file') => file'[i].upto = Size
                 /\ file'[i].kind = "header" <=> i = 1
      BY <2>0, <3>1, <3>2, <3>3, <3>4, <3>5
    <3>6. mleft' = 0 \/ ProgramMidst'
      BY <1>13, <2>1, <2>3 DEF MainWrite
    <3>7. Last'.upto = Size \/ SamplerMidst' \/ ProgramMidst'
      BY <3>3, <3>6
    <3>q. QED BY <3>5, <3>7
  <2>4. CASE fd = session /\ mleft = 1 /\ mleft' = 0 /\ GoesOn(record)
    BY <1>13, <2>0, <2>1, <2>4, GoesOnPart DEF MainWrite
  <2>q. QED BY <1>13, <2>2, <2>3, <2>4, MainPut
<1>14. CASE MainWriteFails
  BY <1>14 DEF MainWriteFails, Cut
<1>15. CASE Wake
  BY <1>15 DEF Wake
<1>16. CASE Suspend
  BY <1>16 DEF Suspend
<1>17. CASE Resume
  BY <1>17 DEF Resume
<1>18. CASE Acquire
  BY <1>18 DEF Acquire
<1>19. CASE WriteFails
  <2> SUFFICES ASSUME clean, ~cut', ~mixed  PROVE FileInv'
    BY <1>19 DEF WriteFails
  <2>1. UNCHANGED <<file, pc, mleft, record>> /\ spc = "write"
    BY <1>19 DEF WriteFails
  <2>2. ~cut /\ (sfd = session => ~(sleft < Size))
    <3>1. CASE sfd = NoFile
      BY <1>19, <3>1 DEF WriteFails
    <3>2. CASE sfd # NoFile
      BY <1>19, <3>2 DEF WriteFails
    <3>q. QED BY <3>1, <3>2
  <2>q. QED BY <2>1, <2>2
<1>20. CASE Write
  <2> SUFFICES ASSUME clean, ~mixed'  PROVE FileInv'
    BY <1>20 DEF Write
  <2>0. ~mixed
    BY <1>20, SamplerPut
  <2>1. "sample" \in Kinds
    BY DEF Kinds
  <2>2. CASE sfd # session /\ file' = file
    BY <1>20, <2>0, <2>2 DEF Write, SampleDone, Release
  <2>3. CASE sfd = session /\ sleft = Size /\ Begins("sample", Size - sleft')
    <3> SUFFICES ASSUME ~cut  PROVE FileInv'
      BY <1>20 DEF Write, SampleDone
    <3>1. /\ Len(file') = Len(file) + 1 /\ file' # <<>>
          /\ \A i \in 1 .. Len(file) : file'[i] = file[i]
          /\ Last' = Part("sample", 0, Size - sleft')
          /\ \A i \in 1 .. Len(file') : i \in 1 .. Len(file) \/ i = Len(file')
      BY <2>1, <2>3, BeginsPart
    <3>2. /\ ~SamplerMidst /\ ~ProgramMidst /\ pc # "write"
          /\ file # <<>>
      BY <1>20, <2>3 DEF Write, SampleDone
    <3>3. Last'.kind = "sample" /\ Last'.from = 0 /\ Last'.upto = Size - sleft'
      BY <3>1 DEF Part
    <3>4. file # <<>> => Last.upto = Size
      BY <2>0, <3>2
    <3>5. ASSUME NEW i \in 1 .. Len(file')
          PROVE  /\ file'[i].from = 0
                 /\ i < Len(file') => file'[i].upto = Size
                 /\ file'[i].kind = "header" <=> i = 1
      BY <2>0, <3>1, <3>2, <3>3, <3>4, <3>5
    <3>6. sleft' = 0 \/ SamplerMidst'
      BY <1>20, <2>1, <2>3 DEF Write, SampleDone
    <3>7. Last'.upto = Size \/ SamplerMidst' \/ ProgramMidst'
      BY <3>3, <3>6
    <3>q. QED BY <3>5, <3>7
  <2>4. CASE sfd = session /\ sleft = 1 /\ sleft' = 0 /\ GoesOn("sample")
    BY <1>20, <2>0, <2>1, <2>4, GoesOnPart DEF Write, SampleDone, Release
  <2>q. QED BY <1>20, <2>2, <2>3, <2>4, SamplerPut
<1>21. CASE UNCHANGED vars
  BY <1>21 DEF vars
<1>q. QED BY <1>1, <1>2, <1>3, <1>4, <1>5, <1>6, <1>7, <1>8, <1>9, <1>10, <1>11, <1>12,
       <1>13, <1>14, <1>15, <1>16, <1>17, <1>18, <1>19, <1>20, <1>21
  DEF Next, CallStep, SamplerStep

\* A second sample would need the flag that disable() has cleared.
LEMMA NextLate ==
  ASSUME Inv, [Next]_vars
  PROVE  LateInv'
<1> USE DEF TypeInv, BackInv, MutexInv, CleanInv, LateInv, Disabling, Pending, Reading,
       Inv,
       Asking, Asks, Returns, None, Records, NoFile, Stdin, Size, Readings,
       flags, mutex, program, sampler, log, ghosts, Others
<1>1. CASE EnableBegin
  BY <1>1 DEF EnableBegin
<1>2. CASE IgnoreSignals
  BY <1>2 DEF IgnoreSignals
<1>3. CASE RegisterName
  BY <1>3 DEF RegisterName
<1>4. CASE DisableStop
  BY <1>4 DEF DisableStop
<1>5. CASE EnableEnd
  BY <1>5 DEF EnableEnd
<1>6. CASE DetectFileSizes
  BY <1>6 DEF DetectFileSizes, ReadStep
<1>7. CASE ReadRecord
  BY <1>7 DEF ReadRecord, ReadStep
<1>8. CASE ReadEnd
  BY <1>8 DEF ReadEnd, ReadStep
<1>9. CASE ReadFails
  BY <1>9 DEF ReadFails, ReadStep
<1>10. CASE DisableOff
  BY <1>10 DEF DisableOff
<1>11. CASE DisableClose
  BY <1>11 DEF DisableClose
<1>12. CASE MainAcquire
  BY <1>12 DEF MainAcquire
<1>13. CASE MainWrite
  BY <1>13 DEF MainWrite
<1>14. CASE MainWriteFails
  BY <1>14 DEF MainWriteFails, Cut
<1>15. CASE Wake
  BY <1>15 DEF Wake
<1>16. CASE Suspend
  BY <1>16 DEF Suspend
<1>17. CASE Resume
  BY <1>17 DEF Resume
<1>18. CASE Acquire
  BY <1>18 DEF Acquire
<1>19. CASE WriteFails
  BY <1>19 DEF WriteFails, SampleDone, Release, Cut
<1>20. CASE Write
  BY <1>20 DEF Write, SampleDone, Release
<1>21. CASE UNCHANGED vars
  BY <1>21 DEF vars
<1>q. QED BY <1>1, <1>2, <1>3, <1>4, <1>5, <1>6, <1>7, <1>8, <1>9, <1>10, <1>11, <1>12,
       <1>13, <1>14, <1>15, <1>16, <1>17, <1>18, <1>19, <1>20, <1>21
  DEF Next, CallStep, SamplerStep

LEMMA NextInv == Inv /\ [Next]_vars => Inv'
BY NextType, NextBack, NextMutex, NextClean, NextOffset, NextMidst, NextFile, NextLate DEF Inv

LEMMA InitInv == Init => Inv
<1> SUFFICES ASSUME Init  PROVE Inv
  OBVIOUS
<1>1. file = <<>> /\ file \in Seq(Parts) /\ off = 0
  BY DEF Init
<1>2. TypeInv /\ BackInv
  <2>1. /\ enabled \in BOOLEAN /\ is_enabled \in BOOLEAN
        /\ clean \in BOOLEAN /\ cut \in BOOLEAN /\ mixed \in BOOLEAN
    BY DEF Init
  <2>2. /\ session = 0 /\ write_mutex = 0 /\ fd = -1 /\ sfd = -1 /\ smutex = 0
        /\ mleft = 0 /\ sleft = 0 /\ late = -1
        /\ owner = "none" /\ pc = "idle" /\ record = "none" /\ back = "none"
        /\ spc = "sleep" /\ ~is_enabled
    BY DEF Init, None, NoFile
  <2>q. QED BY <1>1, <2>1, <2>2 DEF TypeInv, BackInv, Asking, None, NoFile, Stdin, Size,
         Records, Readings
<1>3. MutexInv
  BY DEF Init, MutexInv
<1>4. CleanInv /\ OffsetInv /\ MidstInv /\ FileInv /\ LateInv
  BY <1>1 DEF Init, CleanInv, OffsetInv, MidstInv, FileInv, LateInv
<1>q. QED BY <1>2, <1>3, <1>4 DEF Inv

-----------------------------------------------------------------------------
\* The mutex of vmp_write_all keeps the pieces of two writers apart, for any
\* number of sessions: in a session that begins with the sampling thread asleep,
\* and whose writes do not fail, the file is its header and whole records, unless
\* something was written where disable() had the offset.
THEOREM RecordsAreWhole == Spec => []RecordsWhole
<1>1. Inv => RecordsWhole
  <2> SUFFICES ASSUME Inv, clean, ~cut, ~mixed, NEW i \in DOMAIN file
               PROVE  /\ file[i].from = 0
                      /\ i < Len(file) => file[i].upto = Size
                      /\ file[i].kind = "header" <=> i = 1
    BY DEF RecordsWhole
  <2>1. i \in 1 .. Len(file)
    BY DEF Inv, TypeInv
  <2>q. QED BY <2>1 DEF Inv, FileInv
<1>q. QED BY <1>1, InitInv, NextInv, PTL DEF Spec

\* After disable() has stopped sampling one sample at most is begun in the file:
\* the sampling thread may be past its look at the flag, but looks again.
THEOREM OneSampleIsLate == Spec => []OneLateSample
<1>1. Inv => OneLateSample
  BY DEF Inv, TypeInv, LateInv, OneLateSample
<1>q. QED BY <1>1, InitInv, NextInv, PTL DEF Spec
=============================================================================
