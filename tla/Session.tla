------------------------------ MODULE Session ------------------------------
(***************************************************************************)
(* The life of a profiling session: vmprof_init, vmprof_enable,            *)
(* vmprof_disable, stop_sampling, start_sampling and fork, against the     *)
(* signal handlers of every thread (src/src/vmprof_unix.c, vmprof_common.c,*)
(* _vmprof.c and vmprof/__init__.py).                                      *)
(*                                                                         *)
(* The Python-level calls hold the GIL, so one of them runs at a time (pc);*)
(* handlers need no GIL and interleave with each of its steps (hpc).  The  *)
(* content of the pool is ProfBufs' business: here it is mapped or not,    *)
(* holds unwritten data or not, and its lock is free, stuck or shut.       *)
(* Of the native stack walk only its library is here: what the walk        *)
(* records is StackWalk's business.                                        *)
(***************************************************************************)
EXTENDS Integers, FiniteSets

CONSTANTS
  Threads,    \* the threads of the process
  MaxStops,   \* bound: stop_sampling calls without their start_sampling
  MaxForks,   \* bound: how often the process we follow forks
  CanFail     \* which calls may fail: "header", "rss", "flush", a dlsym of
              \* libunwind ("symbol"), unw_init_local ("context")

ASSUME SessionAssumption == /\ IsFiniteSet(Threads) /\ Threads # {}
                            /\ MaxStops \in Nat /\ MaxForks \in Nat
                            /\ CanFail \subseteq {"header", "rss", "flush",
                                              "symbol", "context"}

VARIABLES
  enabled,    \* is_enabled
  interval,   \* profile_interval_usec > 0
  fd,         \* the profile file: File, NoFile or, after a failed init, Stdin
  mapped, lock, ready,  \* the pool: mapped, profbuf_write_lock, data to write
  timer,      \* the itimer is armed
  action,     \* what the signal does: "default", "handler", "ignored"
  hooks,      \* atfork_hook_installed
  spin,       \* spinlock
  ignore,     \* signal_handler_ignore
  entries,    \* signal_handler_entries
  hpc,        \* where the handler of each thread is
  lib,        \* libhandle: closed, loaded, or open with functions missing
  native,     \* vmp_native_traces_enabled
  walks,      \* the threads whose handler is inside libunwind
  pc,         \* where the Python-level call is
  disabling,  \* stop_sampling was called by vmprof.disable()
  stops,      \* ghost: stop_sampling calls of the program that are in force
  wanted,     \* ghost: the program has enabled and not disabled profiling
  strays,     \* ghost: counted handlers of threads that a fork left behind
  forks       \* number of forks so far
fork  == <<hooks, forks, strays>>
gate  == <<ignore, entries>>
pool  == <<mapped, lock, ready>>
clock == <<timer, action>>
flags == <<enabled, interval>>
unwinder == <<lib, native, walks>>
calls == <<disabling, stops, wanted>>
vars  == <<flags, fd, pool, clock, fork, spin, gate, hpc, unwinder, pc,
           calls>>

NoFile == -1
Stdin  == 0
File   == 3

Init ==
  /\ enabled = FALSE /\ interval = FALSE
  /\ fd = NoFile
  /\ mapped = FALSE /\ lock = 2 /\ ready = FALSE
  /\ timer = FALSE /\ action = "default"
  /\ hooks = FALSE /\ forks = 0 /\ strays = 0
  /\ spin = FALSE
  /\ ignore = 1 /\ entries = 0
  /\ hpc = [t \in Threads |-> "off"]
  /\ lib = "closed" /\ native = FALSE /\ walks = {}
  /\ pc = "idle"
  /\ disabling = FALSE /\ stops = 0 /\ wanted = FALSE

-----------------------------------------------------------------------------
(* sigprof_handler, in thread t *)

HGoto(t, l) == hpc' = [hpc EXCEPT ![t] = l]

\* The kernel delivers the signal of the timer to some thread.
Signal(t) ==
  /\ timer /\ action = "handler"
  /\ hpc[t] = "off"
  /\ HGoto(t, "arrived")
  /\ UNCHANGED <<unwinder, flags, fd, pool, clock, fork, spin, gate, pc, calls>>

Spin(t) ==
  /\ hpc[t] = "arrived"
  /\ ~spin
  /\ spin' = TRUE
  /\ HGoto(t, "lookup")
  /\ UNCHANGED <<unwinder, flags, fd, pool, clock, fork, gate, pc, calls>>

\* Mutant of Lookup: the fault path does not release the spinlock.
LookupKeepsLock(t) ==
  /\ hpc[t] = "lookup"
  /\ \/ spin' = FALSE /\ HGoto(t, "enter")
     \/ UNCHANGED spin /\ HGoto(t, "off")
  /\ UNCHANGED <<unwinder, flags, fd, pool, clock, fork, gate, pc, calls>>

\* The thread state is found, or a fault while looking for it makes the handler
\* return.
Lookup(t) ==
  /\ hpc[t] = "lookup"
  /\ spin' = FALSE
  /\ HGoto(t, "enter") \/ HGoto(t, "off")
  /\ UNCHANGED <<unwinder, flags, fd, pool, clock, fork, gate, pc, calls>>

\* vmprof_enter_signal: count first, then look at the gate.
EnterSignal(t) ==
  /\ hpc[t] = "enter"
  /\ entries' = entries + 1
  /\ HGoto(t, "load")
  /\ UNCHANGED <<unwinder, flags, fd, pool, clock, fork, spin, ignore, pc,
                 calls>>

LoadIgnore(t) ==
  /\ hpc[t] = "load"
  /\ HGoto(t, IF ignore = 0 THEN "body" ELSE "exit")
  /\ UNCHANGED <<unwinder, flags, fd, pool, clock, fork, spin, gate, pc, calls>>

\* Mutant of NativeDisable: the flag of the handlers is not cleared.
NativeDisableKeeps == lib' = "closed" /\ UNCHANGED native

\* vmp_native_disable: dlclose, and no more native walks.
NativeDisable == lib' = "closed" /\ native' = FALSE

\* vmp_native_enable: a library that is open already is taken as it is; one that
\* lacks a function is not used, and not closed.
NativeEnable ==
  IF lib = "closed"
    THEN /\ lib' \in {"closed", "loaded"}
                      \cup {x \in {"partial"} : "symbol" \in CanFail}
         /\ native' = (lib' = "loaded")
    ELSE native' = TRUE /\ UNCHANGED lib

\* vmp_walk_and_record_stack looks at the flag and enters the library; where the
\* first calls of it fail the handler disables native profiling for everybody.
WalkNative(t) ==
  /\ hpc[t] = "body"
  /\ native /\ t \notin walks
  /\ \E ok \in BOOLEAN :
       /\ ok \/ "context" \in CanFail
       /\ IF ok THEN walks' = walks \cup {t} /\ UNCHANGED <<lib, native>>
                ELSE NativeDisable /\ UNCHANGED walks
  /\ UNCHANGED <<flags, fd, pool, clock, fork, spin, gate, hpc, pc, calls>>

\* reserve, sample, commit: unwritten data may stay in the pool, or older data
\* may be written too.
SampleBody(t) ==
  /\ hpc[t] = "body"
  /\ ready' \in IF fd = NoFile \/ lock # 0 THEN {ready, TRUE} ELSE BOOLEAN
  /\ HGoto(t, "exit")
  /\ walks' = walks \ {t}
  /\ UNCHANGED <<lib, native, flags, fd, mapped, lock, clock, fork, spin, gate,
                 pc, calls>>

ExitSignal(t) ==
  /\ hpc[t] = "exit"
  /\ entries' = entries - 1
  /\ HGoto(t, "off")
  /\ UNCHANGED <<unwinder, flags, fd, pool, clock, fork, spin, ignore, pc,
                 calls>>

HandlerStep(t) == \/ Spin(t) \/ Lookup(t) \/ EnterSignal(t) \/ LoadIgnore(t)
                  \/ WalkNative(t) \/ SampleBody(t) \/ ExitSignal(t)

-----------------------------------------------------------------------------
(* enable_vmprof: vmprof_init, vmprof_enable, vmprof_set_enabled *)

EnableBegin ==
  /\ pc = "idle"
  /\ ~enabled
  /\ mapped' = TRUE /\ lock' = 0 /\ ready' = FALSE
  /\ fd' = File
  /\ pc' = "en_header"
  /\ UNCHANGED <<unwinder, flags, clock, fork, spin, gate, hpc, calls>>

\* opened_profile writes the header; vmprof_init gives descriptor 0 on failure.
EnableHeader ==
  /\ pc = "en_header"
  /\ \/ pc' = "en_native" /\ UNCHANGED fd
     \/ "header" \in CanFail /\ pc' = "idle" /\ fd' = Stdin
  /\ UNCHANGED <<unwinder, flags, pool, clock, fork, spin, gate, hpc, calls>>

\* init_cpyprof: the session asks for native frames or not.
EnableNative ==
  /\ pc = "en_native"
  /\ \E n \in BOOLEAN : IF n THEN NativeEnable ELSE NativeDisable
  /\ pc' = "en_rss"
  /\ UNCHANGED <<walks, flags, fd, pool, clock, fork, spin, gate, hpc, calls>>

\* vmprof_enable up to the fork hooks; its error exit undoes only part of it.
EnableHooks ==
  /\ pc = "en_rss"
  /\ \/ /\ interval' = TRUE
        /\ hooks' = TRUE
        /\ pc' = "en_handler"
        /\ UNCHANGED fd
     \/ /\ "rss" \in CanFail
        /\ interval' = FALSE
        /\ fd' = NoFile
        /\ pc' = "idle"
        /\ UNCHANGED hooks
  /\ UNCHANGED <<unwinder, enabled, pool, clock, forks, strays, spin, gate,
                 hpc, calls>>

EnableHandler ==
  /\ pc = "en_handler"
  /\ action' = "handler"
  /\ pc' = "en_timer"
  /\ UNCHANGED <<unwinder, flags, fd, pool, timer, fork, spin, gate, hpc,
                 calls>>

EnableTimer ==
  /\ pc = "en_timer"
  /\ timer' = TRUE
  /\ pc' = "en_gate"
  /\ UNCHANGED <<unwinder, flags, fd, pool, action, fork, spin, gate, hpc,
                 calls>>

\* signal_handler_ignore = 0, whatever stop_sampling calls came before.
EnableGate ==
  /\ pc = "en_gate"
  /\ ignore' = 0
  /\ stops' = 0
  /\ pc' = "en_set"
  /\ UNCHANGED <<unwinder, flags, fd, pool, clock, fork, spin, entries, hpc,
                 disabling, wanted>>

EnableSet ==
  /\ pc = "en_set"
  /\ enabled' = TRUE
  /\ wanted' = TRUE
  /\ pc' = "idle"
  /\ UNCHANGED <<unwinder, interval, fd, pool, clock, fork, spin, gate, hpc,
                 disabling, stops>>

-----------------------------------------------------------------------------
(* stop_sampling and start_sampling *)

\* Mutant of StopSampling: two states instead of a counter, as on Windows.
StopSamplingSets(d) ==
  /\ pc = "idle"
  /\ wanted
  /\ IF d THEN UNCHANGED stops ELSE stops < MaxStops /\ stops' = stops + 1
  /\ disabling' = d
  /\ ignore' = 1
  /\ pc' = "wait"
  /\ UNCHANGED <<unwinder, flags, fd, pool, clock, fork, spin, entries, hpc,
                 wanted>>

\* Called by the program within a session, or as the first thing
\* vmprof.disable() does.
StopSampling(d) ==
  /\ pc = "idle"
  /\ wanted
  /\ IF d THEN UNCHANGED stops ELSE stops < MaxStops /\ stops' = stops + 1
  /\ disabling' = d
  /\ ignore' = ignore + 1
  /\ pc' = "wait"
  /\ UNCHANGED <<unwinder, flags, fd, pool, clock, fork, spin, entries, hpc,
                 wanted>>

\* Mutant of WaitHandlers: do not wait.
WaitSkipped ==
  /\ pc = "wait"
  /\ pc' = IF disabling THEN "read" ELSE "idle"
  /\ UNCHANGED <<unwinder, flags, fd, pool, clock, fork, spin, gate, hpc,
                 calls>>

\* while (signal_handler_entries != 0L) usleep(1)
WaitHandlers ==
  /\ pc = "wait"
  /\ entries = 0
  /\ pc' = IF disabling THEN "read" ELSE "idle"
  /\ UNCHANGED <<unwinder, flags, fd, pool, clock, fork, spin, gate, hpc,
                 calls>>

\* The program ends the stop_sampling calls of its session, and no others.
StartSampling ==
  /\ pc = "idle"
  /\ stops > 0
  /\ stops' = stops - 1
  /\ ignore' = ignore - 1
  /\ UNCHANGED <<unwinder, flags, fd, pool, clock, fork, spin, entries, hpc, pc,
                 disabling, wanted>>

-----------------------------------------------------------------------------
(* vmprof.disable() after stop_sampling, and vmprof_disable *)

\* Read the profile and register the code objects that are in it; whatever this
\* raises, _vmprof.disable() follows.
EmitCodes ==
  /\ pc = "read"
  /\ IF fd # NoFile THEN ready' \in BOOLEAN ELSE UNCHANGED ready
  /\ pc' = "di_gate"
  /\ UNCHANGED <<unwinder, flags, fd, mapped, lock, clock, fork, spin, gate,
                 hpc, calls>>

\* Mutant of DisableGate: the counter is decremented back.
DisableGateReopened ==
  /\ pc = "di_gate"
  /\ ignore' = ignore - 1
  /\ interval' = FALSE
  /\ stops' = 0
  /\ pc' = "di_native"
  /\ UNCHANGED <<unwinder, enabled, fd, pool, clock, fork, spin, entries, hpc,
                 disabling, wanted>>

\* signal_handler_ignore = 1
DisableGate ==
  /\ pc = "di_gate"
  /\ ignore' = 1
  /\ interval' = FALSE
  /\ stops' = 0
  /\ pc' = "di_native"
  /\ UNCHANGED <<unwinder, enabled, fd, pool, clock, fork, spin, entries, hpc,
                 disabling, wanted>>

\* disable_cpyprof
DisableNative ==
  /\ pc = "di_native"
  /\ NativeDisable
  /\ pc' = "di_timer"
  /\ UNCHANGED <<walks, flags, fd, pool, clock, fork, spin, gate, hpc, calls>>

DisableTimer ==
  /\ pc = "di_timer"
  /\ timer' = FALSE
  /\ pc' = "di_handler"
  /\ UNCHANGED <<unwinder, flags, fd, pool, action, fork, spin, gate, hpc,
                 calls>>

DisableHandler ==
  /\ pc = "di_handler"
  /\ action' = "ignored"
  /\ pc' = "di_flush"
  /\ UNCHANGED <<unwinder, flags, fd, pool, timer, fork, spin, gate, hpc,
                 calls>>

\* shutdown_concurrent_bufs: after a write error the buffers stay mapped, the
\* lock stays shut, and vmprof_disable returns -1.
DisableFlush ==
  /\ pc = "di_flush"
  /\ lock' = 2
  /\ \/ /\ ready => fd # NoFile
        /\ ready' = FALSE
        /\ mapped' = FALSE
        /\ pc' = "di_close"
     \/ /\ ready
        /\ "flush" \in CanFail \/ fd = NoFile
        /\ pc' = "idle"
        /\ UNCHANGED <<ready, mapped>>
  /\ UNCHANGED <<unwinder, flags, fd, clock, fork, spin, gate, hpc, calls>>

\* close_profile
DisableClose ==
  /\ pc = "di_close"
  /\ fd' = NoFile
  /\ pc' = "di_set"
  /\ UNCHANGED <<unwinder, flags, pool, clock, fork, spin, gate, hpc, calls>>

DisableSet ==
  /\ pc = "di_set"
  /\ enabled' = FALSE
  /\ wanted' = FALSE
  /\ pc' = "idle"
  /\ UNCHANGED <<unwinder, interval, fd, pool, clock, fork, spin, gate, hpc,
                 disabling, stops>>

-----------------------------------------------------------------------------
(* fork, in a thread that is not inside a handler; other threads may be *)

\* The handlers that are past vmprof_enter_signal.
Counted == {t \in Threads : hpc[t] \in {"load", "body", "exit"}}

\* atfork_disable_timer
ForkPrepare ==
  /\ pc = "idle"
  /\ forks < MaxForks
  /\ hooks
  /\ forks' = forks + 1
  /\ IF interval THEN timer' = FALSE /\ enabled' = FALSE
                 ELSE UNCHANGED <<timer, enabled>>
  /\ pc' = "fork"
  /\ UNCHANGED <<unwinder, interval, fd, pool, action, hooks, strays, spin,
                 gate, hpc,
                 calls>>

\* atfork_enable_timer: we follow the parent.
ForkParent ==
  /\ pc = "fork"
  /\ IF interval THEN timer' = TRUE /\ enabled' = TRUE
                 ELSE UNCHANGED <<timer, enabled>>
  /\ pc' = "idle"
  /\ UNCHANGED <<unwinder, interval, fd, pool, action, fork, spin, gate, hpc,
                 calls>>

\* Mutant of ForkChild: the hook of the child re-enables the timer too.
ForkChildTimer ==
  /\ pc = "fork"
  /\ \E t \in Threads : hpc[t] = "off"
  /\ strays' = strays + Cardinality(Counted)
  /\ hpc' = [t \in Threads |-> "off"]
  /\ walks' = {}
  /\ fd' = NoFile
  /\ timer' = interval
  /\ pc' = "idle"
  /\ UNCHANGED <<lib, native, flags, pool, action, hooks, forks, spin, gate,
                 calls>>

\* atfork_close_profile_file: we follow the child, where only the forking
\* thread lives on, memory is as it was - with what the other threads were in
\* the middle of - and itimers are cleared.
ForkChild ==
  /\ pc = "fork"
  /\ \E t \in Threads :
       /\ hpc[t] = "off"
       /\ lock' \in {lock} \cup (IF \E u \in Threads : hpc[u] = "body"
                                 THEN {1} ELSE {})
  /\ strays' = strays + Cardinality(Counted)
  /\ hpc' = [t \in Threads |-> "off"]
  /\ walks' = {}
  /\ fd' = NoFile
  /\ timer' = FALSE
  /\ pc' = "idle"
  /\ UNCHANGED <<lib, native, flags, mapped, ready, action, hooks, forks, spin,
                 gate,
                 calls>>

-----------------------------------------------------------------------------
CallStep == \/ EnableHeader \/ EnableNative \/ EnableHooks \/ EnableHandler
            \/ EnableTimer \/ EnableGate \/ EnableSet
            \/ EmitCodes \/ DisableGate \/ DisableNative \/ DisableTimer
            \/ DisableHandler \/ DisableFlush \/ DisableClose \/ DisableSet
            \/ ForkParent \/ ForkChild

Next == \/ \E t \in Threads : Signal(t) \/ HandlerStep(t)
        \/ EnableBegin \/ \E d \in BOOLEAN : StopSampling(d)
        \/ WaitHandlers \/ StartSampling \/ ForkPrepare \/ CallStep

Spec == Init /\ [][Next]_vars

\* Handlers that run are not stopped for ever, nor is a call that can go on; a
\* handler that spins gets the spinlock if it is released again and again.
\* vmprof_ignore_signals looks at the counter again and again, microseconds apart,
\* between signals that are a period of the timer apart: it does not miss every
\* moment at which the counter is 0.
FairSpec == /\ Spec
            /\ \A t \in Threads : WF_vars(HandlerStep(t)) /\ SF_vars(Spin(t))
            /\ WF_vars(CallStep)
            /\ SF_vars(WaitHandlers)

-----------------------------------------------------------------------------
(* Properties *)

\* The calls that need the handlers to be out: they read the file, write to it
\* or unmap the pool.
Alone == pc \in {"read", "di_gate", "di_native", "di_timer", "di_handler",
                 "di_flush", "di_close", "di_set"}
         \/ (pc = "idle" /\ stops > 0)

\* Once stop_sampling has returned, and until start_sampling, no handler is
\* between vmprof_enter_signal and vmprof_exit_signal with the gate open:
\* "no signal handler can be running concurrently here" (vmprof_mt.c).
StopIsQuiet == Alone => \A t \in Threads : hpc[t] # "body"

\* The assertion of sigprof_handler, fd >= 0, and the buffers it reserves from.
HandlerHasFile == \A t \in Threads : hpc[t] = "body" => fd >= 0 /\ mapped

\* libunwind is dlopened when profiling is enabled and dlclosed when it is
\* disabled: never under the walk of another thread's handler, and no handler
\* finds native profiling on without every function of the library.
HandlerHasUnwinder ==
  \A t \in Threads : hpc[t] = "body" /\ (native \/ t \in walks) => lib = "loaded"

\* An enabled profiler that has not been stopped by stop_sampling samples:
\* start_sampling "starts the sampling" (docs/vmprof.rst).  A child of a fork has
\* no file, and a disable that failed in its last flush leaves the lock shut.
SamplingOn == enabled /\ fd = File /\ lock # 2 /\ pc = "idle" /\ stops = 0
                => ignore = 0 /\ timer /\ action = "handler"

\* The timer is re-enabled "only inside the parent" (vmprof_unix.c): no signal
\* will arrive in a process that does not profile - a child that did not enable
\* profiling again, or a program that has disabled it or failed to enable it.
TimerOnlyInParent == pc = "idle" /\ (fd = NoFile \/ ~enabled) => ~timer

\* A fork while another thread held the spinlock has left it held in the child.
SpinLost == forks > 0 /\ spin /\ \A t \in Threads : hpc[t] # "lookup"

\* Every handler comes to an end, so nobody keeps the spinlock; stop_sampling
\* and vmprof.disable() get past the wait, unless the handlers of several
\* threads overlap for ever.  Not so in a child that a fork has left with the
\* spinlock or the counter of a thread that is not there any more.
EveryoneReturns ==
  /\ \A t \in Threads : hpc[t] # "off" ~> hpc[t] = "off" \/ SpinLost
  /\ []<>(Counted = {}) => (pc = "wait" ~> pc # "wait" \/ strays > 0)
=============================================================================
