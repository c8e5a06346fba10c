--------------------------- MODULE Session_proofs ---------------------------
(***************************************************************************)
(* Proofs about Session, for any number of threads and of stop_sampling    *)
(* calls.  That a stopped session is quiet holds however often the process *)
(* forks; the other invariants need that it forks at most once, for a fork *)
(* by the child arms the timer of a process that has no file.              *)
(***************************************************************************)
EXTENDS Session, FiniteSetTheorems, TLAPS

HandlerPlaces == {"off", "arrived", "lookup", "enter", "load", "body", "exit"}
Starting == {"en_header", "en_native", "en_rss", "en_handler", "en_timer",
             "en_gate", "en_set"}
Reading  == {"read", "di_gate"}
Ending   == {"di_native", "di_timer", "di_handler", "di_flush", "di_close",
             "di_set"}

\* The types of what is counted or compared; the switches are only ever tested.
TypeOK ==
  /\ fd \in {NoFile, Stdin, File} /\ lock \in 0 .. 2
  /\ action \in {"default", "handler", "ignored"}
  /\ forks \in Nat /\ strays \in Nat
  /\ ignore \in Nat /\ entries \in Int /\ stops \in Nat
  /\ hpc \in [Threads -> HandlerPlaces]
  /\ pc \in {"idle", "wait", "fork"} \cup Starting \cup Reading \cup Ending

\* signal_handler_entries counts the handlers past vmprof_enter_signal, and
\* those that a fork has left behind.
EntriesCount == entries = Cardinality(Counted) + strays

\* The gate is shut as often as the program asked for it, and once more while
\* vmprof.disable() works.
IgnoreInv ==
  /\ stops <= ignore
  /\ pc = "wait" /\ ~disabling => stops > 0
  /\ (pc = "wait" /\ disabling) \/ pc \in Reading => stops < ignore
  /\ pc \in Ending => stops = 0 /\ ignore = 1

\* Behind a gate that was shut when nobody was inside, nobody is inside.
Quiet == pc \in Reading \cup Ending \/ (stops > 0 /\ pc # "wait")
QuietInv == Quiet => \A t \in Threads : hpc[t] # "body"

\* The invariant of StopIsQuiet.
GateInv == TypeOK /\ EntriesCount /\ IgnoreInv /\ QuietInv

\* What enable_vmprof has set up at each of its steps.
StartInv ==
  /\ pc \in Starting => ~enabled /\ fd = File /\ mapped
  /\ pc \in {"en_timer", "en_gate", "en_set"} => action = "handler"
  /\ pc \in {"en_gate", "en_set"} => timer
  /\ pc = "en_set" => ignore = 0 /\ stops = 0

\* What vmprof_disable has taken down at each of its steps.
EndInv ==
  /\ pc \in Ending => ~interval
  /\ pc \in Ending \ {"di_native", "di_timer"} => ~timer
  /\ pc \in {"di_close", "di_set"} => lock = 2

AllOff == \A t \in Threads : hpc[t] = "off"

\* A process that does not profile has no timer and no handler inside; where the
\* gate is open nevertheless - in a child - it has no handler at all.
Disabled == ~enabled /\ \/ pc \notin {"fork", "en_gate", "en_set"}
                        \/ pc = "fork" /\ ~interval
DisabledInv ==
  Disabled => /\ ~timer
              /\ \A t \in Threads : hpc[t] # "body"
              /\ ignore = stops => AllOff

\* Before the fork, and in the fork hooks, profile_interval_usec tells that there
\* is a file; in the child it does not.
IntervalInv ==
  /\ pc = "fork" => forks > 0
  /\ interval /\ (forks = 0 \/ pc = "fork") =>
       /\ fd = File /\ mapped
       /\ enabled \/ pc \in {"fork", "en_handler", "en_timer", "en_gate", "en_set"}

\* Where only the program keeps the gate shut there is something to write to, or
\* nobody who writes.
OpenInv == ignore = stops => (fd >= 0 /\ mapped) \/ (~timer /\ AllOff)

NoFileInv == fd = NoFile => ~timer

\* What SamplingOn says, also while the program waits in stop_sampling and
\* between the fork hooks.
Profiling == \/ enabled /\ pc = "idle"
             \/ enabled /\ pc = "wait" /\ ~disabling
             \/ pc = "fork" /\ (enabled \/ interval)
OnInv ==
  Profiling /\ fd = File /\ lock # 2 =>
    /\ ignore = stops
    /\ action = "handler"
    /\ timer \/ (pc = "fork" /\ interval)

\* The library is open, with all its functions, under every walk and wherever a
\* handler may begin one; a half-found one stays open only until the session
\* that found it ends.
UnwinderInv ==
  /\ \A t \in Threads : t \in walks => hpc[t] = "body" /\ lib = "loaded"
  /\ native => lib = "loaded"
  /\ lib \in {"closed", "partial", "loaded"}
  /\ lib = "partial" => /\ "symbol" \in CanFail
                        /\ enabled \/ pc \in Starting \ {"en_header", "en_native"}
  /\ pc \in Ending \ {"di_native"} => lib = "closed"

\* A function of libunwind may be missing in a process that does not fork and
\* whose vmprof_enable fails nowhere later: otherwise the next vmp_native_enable
\* takes the library that was left open for a complete one.
UnwinderAssumption ==
  /\ MaxForks <= 1
  /\ "context" \notin CanFail
  /\ "symbol" \in CanFail => MaxForks = 0 /\ "rss" \notin CanFail

\* The invariant of the other properties, for a process that forks once at most.
IInv == /\ GateInv
        /\ StartInv /\ EndInv /\ DisabledInv /\ IntervalInv /\ OpenInv
        /\ HandlerHasFile /\ NoFileInv /\ OnInv
-----------------------------------------------------------------------------
\* A handler leaves everything alone that the calls decide on.
LEMMA HandlerKeeps ==
  ASSUME NEW t \in Threads, Signal(t) \/ HandlerStep(t)
  PROVE  UNCHANGED <<flags, fd, mapped, lock, clock, fork, ignore, pc, calls>>
BY DEF HandlerStep, Signal, Spin, Lookup, EnterSignal, LoadIgnore, WalkNative,
       SampleBody, ExitSignal, flags, pool, clock, fork, gate, calls

LEMMA CountedFinite == IsFiniteSet(Counted) /\ Cardinality(Counted) \in Nat
<1>1. Counted \subseteq Threads
  BY DEF Counted
<1>q. QED BY <1>1, SessionAssumption, FS_Subset, FS_CardinalityType

\* vmprof_enter_signal and vmprof_exit_signal count one handler in and out; the
\* other steps of a handler do not count, nor do the calls; a fork turns the
\* handlers inside into strays.
LEMMA EntriesCountStep ==
  ASSUME TypeOK, EntriesCount, Next
  PROVE  EntriesCount'
<1> USE DEF TypeOK, HandlerPlaces, EntriesCount
<1>1. ASSUME NEW t \in Threads, EnterSignal(t)
     PROVE  EntriesCount'
  <2>1. Counted' = Counted \cup {t} /\ t \notin Counted
    BY <1>1 DEF EnterSignal, HGoto, Counted
  <2>2. Cardinality(Counted') = Cardinality(Counted) + 1
    BY <2>1, CountedFinite, FS_AddElement
  <2>q. QED BY <1>1, <2>2, CountedFinite DEF EnterSignal, fork
<1>2. ASSUME NEW t \in Threads, ExitSignal(t)
     PROVE  EntriesCount'
  <2>1. Counted' = Counted \ {t} /\ t \in Counted
    BY <1>2 DEF ExitSignal, HGoto, Counted
  <2>2. Cardinality(Counted') = Cardinality(Counted) - 1
    BY <2>1, CountedFinite, FS_RemoveElement
  <2>q. QED BY <1>2, <2>2, CountedFinite DEF ExitSignal, fork
<1>3. ASSUME NEW t \in Threads,
             \/ Signal(t) \/ Spin(t) \/ Lookup(t) \/ LoadIgnore(t)
             \/ WalkNative(t) \/ SampleBody(t)
     PROVE  EntriesCount'
  <2>1. Counted' = Counted
    BY <1>3 DEF Signal, Spin, Lookup, LoadIgnore, WalkNative, SampleBody, HGoto,
       Counted
  <2>q. QED BY <1>3, <2>1
            DEF Signal, Spin, Lookup, LoadIgnore, WalkNative, SampleBody, gate,
                fork
<1>4. CASE UNCHANGED <<hpc, entries, strays>>
  BY <1>4 DEF Counted
<1>5. CASE ForkChild
  <2>1. Counted' = {}
    BY <1>5 DEF ForkChild, Counted
  <2>2. Cardinality(Counted') = 0
    BY <2>1, FS_EmptySet
  <2>q. QED BY <1>5, <2>2, CountedFinite DEF ForkChild, gate
<1>6. \/ \E t \in Threads : Signal(t) \/ HandlerStep(t)
      \/ ForkChild
      \/ UNCHANGED <<hpc, entries, strays>>
  BY DEF Next, CallStep, gate, fork, EnableBegin, EnableHeader, EnableNative,
         EnableHooks,
         EnableHandler, EnableTimer, EnableGate, EnableSet, StopSampling,
         WaitHandlers, StartSampling, EmitCodes, DisableGate, DisableNative,
         DisableTimer, DisableHandler, DisableFlush, DisableClose, DisableSet,
         ForkPrepare,
         ForkParent
<1>q. QED BY <1>1, <1>2, <1>3, <1>4, <1>5, <1>6 DEF HandlerStep

\* The variables keep to their types: a counter that goes down is positive.
LEMMA TypeOKStep ==
  ASSUME TypeOK, IgnoreInv, EntriesCount, Next
  PROVE  TypeOK'
<1> USE DEF flags, pool, clock, fork, gate, calls, Starting, Reading,
    Ending, TypeOK, IgnoreInv, HandlerPlaces, NoFile, Stdin, File
<1>1. ASSUME NEW t \in Threads, Signal(t) \/ HandlerStep(t)
     PROVE  TypeOK'
  <2>1. CASE Signal(t) \/ Spin(t) \/ Lookup(t)
    BY <2>1 DEF HGoto, Signal, Spin, Lookup
  <2>2. CASE EnterSignal(t)
    BY <2>2 DEF HGoto, EnterSignal
  <2>3. CASE LoadIgnore(t)
    BY <2>3 DEF HGoto, LoadIgnore
  <2>4. CASE WalkNative(t) \/ SampleBody(t)
    BY <2>4 DEF HGoto, WalkNative, SampleBody
  <2>5. CASE ExitSignal(t)
    BY <2>5 DEF HGoto, ExitSignal
  <2>q. QED BY <1>1, <2>1, <2>2, <2>3, <2>4, <2>5 DEF HandlerStep
<1>2. CASE EnableBegin \/ EnableHeader \/ EnableNative \/ EnableHooks \/
      EnableHandler \/ EnableTimer \/ EnableGate \/ EnableSet
  BY <1>2 DEF EnableBegin, EnableHeader, EnableNative, EnableHooks,
     EnableHandler, EnableTimer, EnableGate, EnableSet
<1>3. CASE (\E d \in BOOLEAN : StopSampling(d)) \/ WaitHandlers \/
      StartSampling
  BY <1>3 DEF StopSampling, WaitHandlers, StartSampling
<1>4. CASE EmitCodes \/ DisableGate \/ DisableNative \/ DisableTimer \/
      DisableHandler \/ DisableFlush \/ DisableClose \/ DisableSet
  BY <1>4 DEF EmitCodes, DisableGate, DisableNative, DisableTimer,
     DisableHandler, DisableFlush, DisableClose, DisableSet
<1>5. CASE ForkPrepare \/ ForkParent \/ ForkChild
  <2>1. CASE ForkPrepare \/ ForkParent
    BY <2>1 DEF ForkPrepare, ForkParent
  <2>2. CASE ForkChild
    BY <2>2, CountedFinite DEF ForkChild
  <2>q. QED BY <1>5, <2>1, <2>2
<1>q. QED BY <1>1, <1>2, <1>3, <1>4, <1>5 DEF Next, CallStep

\* Every call moves the gate and the program's share of it together.
LEMMA IgnoreInvStep ==
  ASSUME TypeOK, IgnoreInv, Next
  PROVE  IgnoreInv'
<1> USE DEF flags, pool, clock, fork, gate, calls, Starting, Reading,
    Ending, TypeOK, IgnoreInv
<1>1. ASSUME NEW t \in Threads, Signal(t) \/ HandlerStep(t)
     PROVE  IgnoreInv'
  BY <1>1, HandlerKeeps
<1>2. CASE EnableBegin \/ EnableHeader \/ EnableNative \/ EnableHooks \/
      EnableHandler \/ EnableTimer \/ EnableGate \/ EnableSet
  BY <1>2 DEF EnableBegin, EnableHeader, EnableNative, EnableHooks,
     EnableHandler, EnableTimer, EnableGate, EnableSet
<1>3. CASE (\E d \in BOOLEAN : StopSampling(d)) \/ WaitHandlers \/
      StartSampling
  BY <1>3 DEF StopSampling, WaitHandlers, StartSampling
<1>4. CASE EmitCodes \/ DisableGate \/ DisableNative \/ DisableTimer \/
      DisableHandler \/ DisableFlush \/ DisableClose \/ DisableSet
  BY <1>4 DEF EmitCodes, DisableGate, DisableNative, DisableTimer,
     DisableHandler, DisableFlush, DisableClose, DisableSet
<1>5. CASE ForkPrepare \/ ForkParent \/ ForkChild
  BY <1>5 DEF ForkPrepare, ForkParent, ForkChild
<1>q. QED BY <1>1, <1>2, <1>3, <1>4, <1>5 DEF Next, CallStep

\* The wait of stop_sampling ends when the counter is 0, so nobody is inside
\* then; and nobody enters while the gate is shut.
LEMMA QuietInvStep ==
  ASSUME TypeOK, EntriesCount, IgnoreInv, QuietInv, Next
  PROVE  QuietInv'
<1> USE DEF flags, pool, clock, fork, gate, calls, Starting, Reading,
    Ending, TypeOK, IgnoreInv, QuietInv, Quiet
<1>1. ASSUME NEW t \in Threads, Signal(t) \/ HandlerStep(t)
     PROVE  QuietInv'
  <2>1. CASE LoadIgnore(t)
    BY <2>1 DEF HGoto, LoadIgnore
  <2>2. CASE Signal(t) \/ Spin(t) \/ Lookup(t) \/ EnterSignal(t) \/
        WalkNative(t) \/ SampleBody(t) \/ ExitSignal(t)
    BY <2>2 DEF HGoto, Signal, Spin, Lookup, EnterSignal, WalkNative,
       SampleBody, ExitSignal
  <2>q. QED BY <1>1, <2>1, <2>2 DEF HandlerStep
<1>2. CASE EnableBegin \/ EnableHeader \/ EnableNative \/ EnableHooks \/
      EnableHandler \/ EnableTimer \/ EnableGate \/ EnableSet
  BY <1>2 DEF EnableBegin, EnableHeader, EnableNative, EnableHooks,
     EnableHandler, EnableTimer, EnableGate, EnableSet
<1>3. CASE (\E d \in BOOLEAN : StopSampling(d)) \/ WaitHandlers \/
      StartSampling
  <2>1. CASE WaitHandlers
    <3>1. Cardinality(Counted) = 0 /\ Counted = {}
      BY <2>1, CountedFinite, FS_EmptySet, FS_CardinalityType
         DEF WaitHandlers, EntriesCount
    <3>2. \A t \in Threads : hpc[t] # "body"
      BY <3>1 DEF Counted
    <3>q. QED BY <2>1, <3>2 DEF WaitHandlers
  <2>2. CASE (\E d \in BOOLEAN : StopSampling(d)) \/ StartSampling
    BY <2>2 DEF StopSampling, StartSampling
  <2>q. QED BY <1>3, <2>1, <2>2
<1>4. CASE EmitCodes \/ DisableGate \/ DisableNative \/ DisableTimer \/
      DisableHandler \/ DisableFlush \/ DisableClose \/ DisableSet
  BY <1>4 DEF EmitCodes, DisableGate, DisableNative, DisableTimer,
     DisableHandler, DisableFlush, DisableClose, DisableSet
<1>5. CASE ForkPrepare \/ ForkParent \/ ForkChild
  BY <1>5 DEF ForkPrepare, ForkParent, ForkChild
<1>q. QED BY <1>1, <1>2, <1>3, <1>4, <1>5 DEF Next, CallStep

\* Nothing runs beside enable_vmprof that could undo a step of it.
LEMMA StartInvStep ==
  ASSUME TypeOK, IgnoreInv, StartInv, Next
  PROVE  StartInv'
<1> USE DEF flags, pool, clock, fork, gate, calls, Starting, Reading,
    Ending, TypeOK, StartInv
<1>1. ASSUME NEW t \in Threads, Signal(t) \/ HandlerStep(t)
     PROVE  StartInv'
  BY <1>1, HandlerKeeps
<1>2. CASE EnableBegin \/ EnableHeader \/ EnableNative \/ EnableHooks \/
      EnableHandler \/ EnableTimer \/ EnableGate \/ EnableSet
  BY <1>2 DEF EnableBegin, EnableHeader, EnableNative, EnableHooks,
     EnableHandler, EnableTimer, EnableGate, EnableSet
<1>3. CASE (\E d \in BOOLEAN : StopSampling(d)) \/ WaitHandlers \/
      StartSampling
  BY <1>3 DEF StopSampling, WaitHandlers, StartSampling
<1>4. CASE EmitCodes \/ DisableGate \/ DisableNative \/ DisableTimer \/
      DisableHandler \/ DisableFlush \/ DisableClose \/ DisableSet
  BY <1>4 DEF EmitCodes, DisableGate, DisableNative, DisableTimer,
     DisableHandler, DisableFlush, DisableClose, DisableSet
<1>5. CASE ForkPrepare \/ ForkParent \/ ForkChild
  BY <1>5 DEF ForkPrepare, ForkParent, ForkChild
<1>q. QED BY <1>1, <1>2, <1>3, <1>4, <1>5 DEF Next, CallStep

\* Nothing runs beside vmprof_disable that could undo a step of it.
LEMMA EndInvStep ==
  ASSUME TypeOK, IgnoreInv, EndInv, Next
  PROVE  EndInv'
<1> USE DEF flags, pool, clock, fork, gate, calls, Starting, Reading,
    Ending, TypeOK, EndInv
<1>1. ASSUME NEW t \in Threads, Signal(t) \/ HandlerStep(t)
     PROVE  EndInv'
  BY <1>1, HandlerKeeps
<1>2. CASE EnableBegin \/ EnableHeader \/ EnableNative \/ EnableHooks \/
      EnableHandler \/ EnableTimer \/ EnableGate \/ EnableSet
  BY <1>2 DEF EnableBegin, EnableHeader, EnableNative, EnableHooks,
     EnableHandler, EnableTimer, EnableGate, EnableSet
<1>3. CASE (\E d \in BOOLEAN : StopSampling(d)) \/ WaitHandlers \/
      StartSampling
  BY <1>3 DEF StopSampling, WaitHandlers, StartSampling
<1>4. CASE EmitCodes \/ DisableGate \/ DisableNative \/ DisableTimer \/
      DisableHandler \/ DisableFlush \/ DisableClose \/ DisableSet
  BY <1>4 DEF EmitCodes, DisableGate, DisableNative, DisableTimer,
     DisableHandler, DisableFlush, DisableClose, DisableSet
<1>5. CASE ForkPrepare \/ ForkParent \/ ForkChild
  BY <1>5 DEF ForkPrepare, ForkParent, ForkChild
<1>q. QED BY <1>1, <1>2, <1>3, <1>4, <1>5 DEF Next, CallStep

\* A process that does not profile has neither a timer nor a handler inside.
LEMMA DisabledInvStep ==
  ASSUME GateInv, StartInv, EndInv, DisabledInv, Next
  PROVE  DisabledInv'
<1> USE DEF flags, pool, clock, fork, gate, calls, Starting, Reading,
    Ending, GateInv, TypeOK, IgnoreInv, QuietInv, Quiet, StartInv, EndInv,
    DisabledInv, Disabled, AllOff
<1>1. ASSUME NEW t \in Threads, Signal(t) \/ HandlerStep(t)
     PROVE  DisabledInv'
  <2>1. CASE LoadIgnore(t)
    BY <2>1 DEF HGoto, LoadIgnore
  <2>2. CASE Signal(t)
    BY <2>2 DEF HGoto, Signal
  <2>3. CASE Spin(t) \/ Lookup(t) \/ EnterSignal(t) \/ WalkNative(t) \/
        SampleBody(t) \/ ExitSignal(t)
    BY <2>3 DEF HGoto, Spin, Lookup, EnterSignal, WalkNative, SampleBody,
       ExitSignal
  <2>q. QED BY <1>1, <2>1, <2>2, <2>3 DEF HandlerStep
<1>2. CASE EnableBegin \/ EnableHeader \/ EnableNative \/ EnableHooks \/
      EnableHandler \/ EnableTimer \/ EnableGate \/ EnableSet
  BY <1>2 DEF EnableBegin, EnableHeader, EnableNative, EnableHooks,
     EnableHandler, EnableTimer, EnableGate, EnableSet
<1>3. CASE (\E d \in BOOLEAN : StopSampling(d)) \/ WaitHandlers \/
      StartSampling
  BY <1>3 DEF StopSampling, WaitHandlers, StartSampling
<1>4. CASE EmitCodes \/ DisableGate \/ DisableNative \/ DisableTimer \/
      DisableHandler \/ DisableFlush \/ DisableClose \/ DisableSet
  BY <1>4 DEF EmitCodes, DisableGate, DisableNative, DisableTimer,
     DisableHandler, DisableFlush, DisableClose, DisableSet
<1>5. CASE ForkPrepare \/ ForkParent \/ ForkChild
  BY <1>5 DEF ForkPrepare, ForkParent, ForkChild
<1>q. QED BY <1>1, <1>2, <1>3, <1>4, <1>5 DEF Next, CallStep

\* With one fork the fork hooks run in a process that has its file if
\* profile_interval_usec is set.
LEMMA IntervalInvStep ==
  ASSUME MaxForks <= 1, GateInv, StartInv, EndInv, IntervalInv, Next
  PROVE  IntervalInv'
<1> USE SessionAssumption DEF flags, pool, clock, fork, gate, calls,
    Starting, Reading, Ending, GateInv, TypeOK, IgnoreInv, StartInv, EndInv,
    IntervalInv
<1>1. ASSUME NEW t \in Threads, Signal(t) \/ HandlerStep(t)
     PROVE  IntervalInv'
  BY <1>1, HandlerKeeps
<1>2. CASE EnableBegin \/ EnableHeader \/ EnableNative \/ EnableHooks \/
      EnableHandler \/ EnableTimer \/ EnableGate \/ EnableSet
  BY <1>2 DEF EnableBegin, EnableHeader, EnableNative, EnableHooks,
     EnableHandler, EnableTimer, EnableGate, EnableSet
<1>3. CASE (\E d \in BOOLEAN : StopSampling(d)) \/ WaitHandlers \/
      StartSampling
  <2>1. CASE (\E d \in BOOLEAN : StopSampling(d))
    BY <2>1 DEF StopSampling
  <2>2. CASE WaitHandlers \/ StartSampling
    BY <2>2 DEF WaitHandlers, StartSampling
  <2>q. QED BY <1>3, <2>1, <2>2
<1>4. CASE EmitCodes \/ DisableGate \/ DisableNative \/ DisableTimer \/
      DisableHandler \/ DisableFlush \/ DisableClose \/ DisableSet
  BY <1>4 DEF EmitCodes, DisableGate, DisableNative, DisableTimer,
     DisableHandler, DisableFlush, DisableClose, DisableSet
<1>5. CASE ForkPrepare \/ ForkParent \/ ForkChild
  BY <1>5 DEF ForkPrepare, ForkParent, ForkChild
<1>q. QED BY <1>1, <1>2, <1>3, <1>4, <1>5 DEF Next, CallStep

\* The gate opens only where there is a file and a pool, or nobody to use
\* them.
LEMMA OpenInvStep ==
  ASSUME GateInv, StartInv, EndInv, DisabledInv, IntervalInv, OpenInv, Next
  PROVE  OpenInv'
<1> USE DEF flags, pool, clock, fork, gate, calls, Starting, Reading,
    Ending, GateInv, TypeOK, IgnoreInv, StartInv, DisabledInv, Disabled,
    IntervalInv, OpenInv, AllOff, NoFile, Stdin, File
<1>1. ASSUME NEW t \in Threads, Signal(t) \/ HandlerStep(t)
     PROVE  OpenInv'
  BY <1>1 DEF HandlerStep, HGoto, Signal, Spin, Lookup, EnterSignal,
     LoadIgnore, WalkNative, SampleBody, ExitSignal
<1>2. CASE EnableBegin \/ EnableHeader \/ EnableNative \/ EnableHooks \/
      EnableHandler \/ EnableTimer \/ EnableGate \/ EnableSet
  BY <1>2 DEF EnableBegin, EnableHeader, EnableNative, EnableHooks,
     EnableHandler, EnableTimer, EnableGate, EnableSet
<1>3. CASE (\E d \in BOOLEAN : StopSampling(d)) \/ WaitHandlers \/
      StartSampling
  BY <1>3 DEF StopSampling, WaitHandlers, StartSampling
<1>4. CASE EmitCodes \/ DisableGate \/ DisableNative \/ DisableTimer \/
      DisableHandler \/ DisableFlush \/ DisableClose \/ DisableSet
  BY <1>4 DEF EmitCodes, DisableGate, DisableNative, DisableTimer,
     DisableHandler, DisableFlush, DisableClose, DisableSet
<1>5. CASE ForkPrepare \/ ForkParent \/ ForkChild
  BY <1>5 DEF ForkPrepare, ForkParent, ForkChild
<1>q. QED BY <1>1, <1>2, <1>3, <1>4, <1>5 DEF Next, CallStep

\* The file and the pool go away behind a shut gate or in a fresh child.
LEMMA HandlerHasFileStep ==
  ASSUME GateInv, StartInv, EndInv, DisabledInv, OpenInv, HandlerHasFile, Next
  PROVE  HandlerHasFile'
<1> USE DEF flags, pool, clock, fork, gate, calls, Starting, Reading,
    Ending, GateInv, TypeOK, IgnoreInv, QuietInv, Quiet, StartInv,
    DisabledInv, Disabled, OpenInv, HandlerHasFile, AllOff, NoFile, Stdin,
    File
<1>1. ASSUME NEW t \in Threads, Signal(t) \/ HandlerStep(t)
     PROVE  HandlerHasFile'
  <2>1. CASE LoadIgnore(t)
    BY <2>1 DEF HGoto, LoadIgnore
  <2>2. CASE Signal(t) \/ Spin(t) \/ Lookup(t) \/ EnterSignal(t) \/
        WalkNative(t) \/ SampleBody(t) \/ ExitSignal(t)
    BY <2>2 DEF HGoto, Signal, Spin, Lookup, EnterSignal, WalkNative,
       SampleBody, ExitSignal
  <2>q. QED BY <1>1, <2>1, <2>2 DEF HandlerStep
<1>2. CASE EnableBegin \/ EnableHeader \/ EnableNative \/ EnableHooks \/
      EnableHandler \/ EnableTimer \/ EnableGate \/ EnableSet
  BY <1>2 DEF EnableBegin, EnableHeader, EnableNative, EnableHooks,
     EnableHandler, EnableTimer, EnableGate, EnableSet
<1>3. CASE (\E d \in BOOLEAN : StopSampling(d)) \/ WaitHandlers \/
      StartSampling
  BY <1>3 DEF StopSampling, WaitHandlers, StartSampling
<1>4. CASE EmitCodes \/ DisableGate \/ DisableNative \/ DisableTimer \/
      DisableHandler \/ DisableFlush \/ DisableClose \/ DisableSet
  BY <1>4 DEF EmitCodes, DisableGate, DisableNative, DisableTimer,
     DisableHandler, DisableFlush, DisableClose, DisableSet
<1>5. CASE ForkPrepare \/ ForkParent \/ ForkChild
  BY <1>5 DEF ForkPrepare, ForkParent, ForkChild
<1>q. QED BY <1>1, <1>2, <1>3, <1>4, <1>5 DEF Next, CallStep

\* The timer is stopped before the file is closed, and never armed without
\* one.
LEMMA NoFileInvStep ==
  ASSUME TypeOK, StartInv, EndInv, DisabledInv, IntervalInv, NoFileInv, Next
  PROVE  NoFileInv'
<1> USE DEF flags, pool, clock, fork, gate, calls, Starting, Reading,
    Ending, TypeOK, StartInv, EndInv, DisabledInv, Disabled, IntervalInv,
    NoFileInv, NoFile, Stdin, File
<1>1. ASSUME NEW t \in Threads, Signal(t) \/ HandlerStep(t)
     PROVE  NoFileInv'
  BY <1>1, HandlerKeeps
<1>2. CASE EnableBegin \/ EnableHeader \/ EnableNative \/ EnableHooks \/
      EnableHandler \/ EnableTimer \/ EnableGate \/ EnableSet
  BY <1>2 DEF EnableBegin, EnableHeader, EnableNative, EnableHooks,
     EnableHandler, EnableTimer, EnableGate, EnableSet
<1>3. CASE (\E d \in BOOLEAN : StopSampling(d)) \/ WaitHandlers \/
      StartSampling
  BY <1>3 DEF StopSampling, WaitHandlers, StartSampling
<1>4. CASE EmitCodes \/ DisableGate \/ DisableNative \/ DisableTimer \/
      DisableHandler \/ DisableFlush \/ DisableClose \/ DisableSet
  BY <1>4 DEF EmitCodes, DisableGate, DisableNative, DisableTimer,
     DisableHandler, DisableFlush, DisableClose, DisableSet
<1>5. CASE ForkPrepare \/ ForkParent \/ ForkChild
  BY <1>5 DEF ForkPrepare, ForkParent, ForkChild
<1>q. QED BY <1>1, <1>2, <1>3, <1>4, <1>5 DEF Next, CallStep

\* A process that profiles keeps its timer, its handler and its gate.
LEMMA OnInvStep ==
  ASSUME MaxForks <= 1, GateInv, StartInv, EndInv, IntervalInv, OnInv, Next
  PROVE  OnInv'
<1> USE SessionAssumption DEF flags, pool, clock, fork, gate, calls,
    Starting, Reading, Ending, GateInv, TypeOK, IgnoreInv, StartInv, EndInv,
    IntervalInv, OnInv, Profiling, NoFile, Stdin, File
<1>1. ASSUME NEW t \in Threads, Signal(t) \/ HandlerStep(t)
     PROVE  OnInv'
  BY <1>1, HandlerKeeps
<1>2. CASE EnableBegin \/ EnableHeader \/ EnableNative \/ EnableHooks \/
      EnableHandler \/ EnableTimer \/ EnableGate \/ EnableSet
  BY <1>2 DEF EnableBegin, EnableHeader, EnableNative, EnableHooks,
     EnableHandler, EnableTimer, EnableGate, EnableSet
<1>3. CASE (\E d \in BOOLEAN : StopSampling(d)) \/ WaitHandlers \/
      StartSampling
  BY <1>3 DEF StopSampling, WaitHandlers, StartSampling
<1>4. CASE EmitCodes \/ DisableGate \/ DisableNative \/ DisableTimer \/
      DisableHandler \/ DisableFlush \/ DisableClose \/ DisableSet
  BY <1>4 DEF EmitCodes, DisableGate, DisableNative, DisableTimer,
     DisableHandler, DisableFlush, DisableClose, DisableSet
<1>5. CASE ForkPrepare \/ ForkParent \/ ForkChild
  BY <1>5 DEF ForkPrepare, ForkParent, ForkChild
<1>q. QED BY <1>1, <1>2, <1>3, <1>4, <1>5 DEF Next, CallStep

\* The library is opened and closed when no handler is inside: before the
\* timer runs, and behind the gate of stop_sampling.
LEMMA UnwinderInvStep ==
  ASSUME UnwinderAssumption, IInv, UnwinderInv, Next
  PROVE  UnwinderInv'
<1> USE SessionAssumption DEF UnwinderAssumption, flags, pool, clock, fork, gate,
    calls, unwinder, Starting, Reading, Ending, IInv, GateInv, TypeOK, StartInv,
    UnwinderInv
<1>1. ASSUME NEW t \in Threads, Signal(t) \/ HandlerStep(t)
     PROVE  UnwinderInv'
  <2>1. CASE Signal(t) \/ Spin(t) \/ Lookup(t) \/ EnterSignal(t) \/
        LoadIgnore(t) \/ ExitSignal(t)
    BY <2>1 DEF HGoto, Signal, Spin, Lookup, EnterSignal, LoadIgnore, ExitSignal
  <2>2. CASE WalkNative(t)
    BY <2>2 DEF WalkNative
  <2>3. CASE SampleBody(t)
    BY <2>3 DEF HGoto, SampleBody
  <2>q. QED BY <1>1, <2>1, <2>2, <2>3 DEF HandlerStep
<1>2. CASE EnableNative
  <2>1. \A t \in Threads : t \notin walks
    BY <1>2 DEF EnableNative, DisabledInv, Disabled
  <2>2. lib # "partial"
    BY <1>2 DEF EnableNative
  <2>q. QED BY <1>2, <2>1, <2>2 DEF EnableNative, NativeEnable, NativeDisable
<1>3. CASE DisableNative
  <2>1. \A t \in Threads : t \notin walks
    BY <1>3 DEF DisableNative, QuietInv, Quiet
  <2>q. QED BY <1>3, <2>1 DEF DisableNative, NativeDisable
<1>4. CASE EnableBegin \/ EnableHeader \/ EnableHooks \/ EnableHandler \/
      EnableTimer \/ EnableGate \/ EnableSet
  BY <1>4 DEF EnableBegin, EnableHeader, EnableHooks, EnableHandler,
     EnableTimer, EnableGate, EnableSet
<1>5. CASE (\E d \in BOOLEAN : StopSampling(d)) \/ WaitHandlers \/
      StartSampling
  BY <1>5 DEF StopSampling, WaitHandlers, StartSampling
<1>6. CASE EmitCodes \/ DisableGate \/ DisableTimer \/ DisableHandler \/
      DisableFlush \/ DisableClose \/ DisableSet
  BY <1>6 DEF EmitCodes, DisableGate, DisableTimer, DisableHandler,
     DisableFlush, DisableClose, DisableSet
<1>7. CASE ForkPrepare \/ ForkParent \/ ForkChild
  BY <1>7 DEF ForkPrepare, ForkParent, ForkChild
<1>q. QED BY <1>1, <1>2, <1>3, <1>4, <1>5, <1>6, <1>7 DEF Next, CallStep

-----------------------------------------------------------------------------
\* The invariants hold at the start, where nothing has been enabled.
LEMMA InitIInv == Init => IInv
<1> SUFFICES ASSUME Init PROVE IInv
  OBVIOUS
<1> USE DEF Init, NoFile, Stdin, File
<1>1. TypeOK
  BY DEF TypeOK, HandlerPlaces
<1>2. EntriesCount
  <2>1. Counted = {}
    BY DEF Counted
  <2>q. QED BY <2>1, FS_EmptySet DEF EntriesCount
<1>3. IgnoreInv /\ QuietInv
  BY DEF IgnoreInv, QuietInv, Quiet, Reading, Ending
<1>4. StartInv /\ EndInv
  BY DEF StartInv, EndInv, Starting, Ending
<1>5. DisabledInv /\ IntervalInv /\ OpenInv
  BY DEF DisabledInv, IntervalInv, OpenInv
<1>6. HandlerHasFile /\ NoFileInv /\ OnInv
  BY DEF HandlerHasFile, NoFileInv, OnInv, Profiling
<1>q. QED BY <1>1, <1>2, <1>3, <1>4, <1>5, <1>6 DEF IInv, GateInv

LEMMA NextGateInv == GateInv /\ [Next]_vars => GateInv'
<1> SUFFICES ASSUME GateInv, [Next]_vars PROVE GateInv'
  OBVIOUS
<1>1. CASE Next
  BY <1>1, TypeOKStep, EntriesCountStep, IgnoreInvStep,
     QuietInvStep DEF GateInv
<1>2. CASE UNCHANGED vars
  <2> USE <1>2 DEF vars, flags, pool, clock, fork, gate, calls, GateInv
  <2>1. TypeOK'
    BY DEF TypeOK
  <2>2. EntriesCount'
    BY DEF EntriesCount, Counted
  <2>3. IgnoreInv' /\ QuietInv'
    BY DEF IgnoreInv, QuietInv, Quiet
  <2>q. QED BY <2>1, <2>2, <2>3
<1>q. QED BY <1>1, <1>2

\* With one fork, every step keeps the whole invariant.
LEMMA NextIInv == MaxForks <= 1 /\ IInv /\ [Next]_vars => IInv'
<1> SUFFICES ASSUME MaxForks <= 1, IInv, [Next]_vars PROVE IInv'
  OBVIOUS
<1>1. GateInv'
  BY NextGateInv DEF IInv
<1>2. CASE Next
  <2>1. StartInv' /\ EndInv' /\ DisabledInv'
    BY <1>2, StartInvStep, EndInvStep, DisabledInvStep DEF IInv, GateInv
  <2>2. IntervalInv' /\ OpenInv'
    BY <1>2, IntervalInvStep, OpenInvStep DEF IInv, GateInv
  <2>3. HandlerHasFile' /\ NoFileInv' /\ OnInv'
    BY <1>2, HandlerHasFileStep, NoFileInvStep, OnInvStep DEF IInv, GateInv
  <2>q. QED BY <1>1, <2>1, <2>2, <2>3 DEF IInv
<1>3. CASE UNCHANGED vars
  <2> USE <1>3 DEF vars, flags, pool, clock, fork, gate, calls, IInv
  <2>1. StartInv' /\ EndInv'
    BY DEF StartInv, EndInv
  <2>2. DisabledInv' /\ IntervalInv'
    BY DEF DisabledInv, Disabled, IntervalInv, AllOff
  <2>3. OpenInv' /\ HandlerHasFile'
    BY DEF OpenInv, HandlerHasFile, AllOff
  <2>4. NoFileInv' /\ OnInv'
    BY DEF NoFileInv, OnInv, Profiling
  <2>q. QED BY <1>1, <2>1, <2>2, <2>3, <2>4
<1>q. QED BY <1>2, <1>3

-----------------------------------------------------------------------------
\* The handlers are counted, the gate is shut as often as it was asked for and
\* nobody is behind it, in every run, however often the process forks.
THEOREM GateInvariant == Spec => []GateInv
<1>1. Init => GateInv
  BY InitIInv DEF IInv
<1>q. QED BY <1>1, NextGateInv, PTL DEF Spec

\* Once stop_sampling has returned no handler is inside, until start_sampling.
THEOREM StoppedIsQuiet == Spec => []StopIsQuiet
<1>1. GateInv => StopIsQuiet
  BY DEF GateInv, QuietInv, Quiet, StopIsQuiet, Alone, Reading, Ending
<1>q. QED BY <1>1, GateInvariant, PTL

\* The inductive invariant of a process that forks once at most.
THEOREM OneForkInvariant == ASSUME MaxForks <= 1 PROVE Spec => []IInv
<1>1. IInv /\ [Next]_vars => IInv'
  BY NextIInv
<1>q. QED BY <1>1, InitIInv, PTL DEF Spec

\* A handler that samples has a file and a pool: the assertion of
\* sigprof_handler, fd >= 0.
THEOREM HandlersHaveFile == ASSUME MaxForks <= 1 PROVE Spec => []HandlerHasFile
<1>1. IInv => HandlerHasFile
  BY DEF IInv
<1>q. QED BY <1>1, OneForkInvariant, PTL

\* Only the parent of a fork, and only a process that profiles, has a timer.
THEOREM TimerInParent == ASSUME MaxForks <= 1 PROVE Spec => []TimerOnlyInParent
<1>1. IInv => TimerOnlyInParent
  BY DEF IInv, DisabledInv, Disabled, NoFileInv, TimerOnlyInParent
<1>q. QED BY <1>1, OneForkInvariant, PTL

\* Between calls a profiler that nobody has stopped has an open gate and a timer.
THEOREM SamplingIsOn == ASSUME MaxForks <= 1 PROVE Spec => []SamplingOn
<1>1. IInv => SamplingOn
  BY DEF IInv, OnInv, Profiling, SamplingOn
<1>q. QED BY <1>1, OneForkInvariant, PTL

\* No handler walks the native stack, or is about to, without all of libunwind
\* under it: the library is never closed under the walk of another thread.
THEOREM HandlersHaveUnwinder ==
  ASSUME UnwinderAssumption PROVE Spec => []HandlerHasUnwinder
<1> DEFINE UInv == IInv /\ UnwinderInv
<1>0. MaxForks <= 1
  BY DEF UnwinderAssumption
<1>1. Init => UInv
  <2>1. Init => UnwinderInv
    BY DEF Init, UnwinderInv, Ending
  <2>q. QED BY <2>1, InitIInv
<1>2. UInv /\ [Next]_vars => UInv'
  <2> SUFFICES ASSUME UInv, [Next]_vars PROVE UInv'
    OBVIOUS
  <2>1. IInv'
    BY <1>0, NextIInv
  <2>2. CASE Next
    BY <2>1, <2>2, UnwinderInvStep
  <2>3. CASE UNCHANGED vars
    BY <2>1, <2>3 DEF vars, flags, unwinder, UnwinderInv
  <2>q. QED BY <2>2, <2>3
<1>3. UInv => HandlerHasUnwinder
  BY DEF UnwinderInv, HandlerHasUnwinder
<1>q. QED BY <1>1, <1>2, <1>3, PTL DEF Spec
=============================================================================
