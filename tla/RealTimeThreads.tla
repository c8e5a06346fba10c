-------------------------- MODULE RealTimeThreads --------------------------
(***************************************************************************)
(* Real-time mode: the list of threads to sample and the spinlock around   *)
(* it (src/src/vmprof_common.c, _vmprof.c, vmprof_unix.c).                 *)
(*                                                                         *)
(* The kernel gives SIGALRM of ITIMER_REAL to the main thread, whose       *)
(* handler forwards it to the threads of the list.  A handler runs on top  *)
(* of whatever its thread was doing: while it runs, a call that its thread *)
(* was in the middle of makes no step.                                     *)
(***************************************************************************)
EXTENDS Integers, Sequences, FiniteSets

CONSTANTS
  Threads, Main,  \* the threads, and the main one
  Enablers,       \* the threads that call vmprof.enable and vmprof.disable
  Callers,        \* the threads that insert and remove real-time threads ...
  Targets,        \* ... and the threads they insert and remove
  MaxList         \* bound: the length of the list

ASSUME RealTimeAssumption ==
  /\ IsFiniteSet(Threads) /\ Main \in Threads
  /\ Enablers \subseteq Threads /\ Callers \subseteq Threads
  /\ Targets \subseteq Threads
  /\ MaxList \in Nat \ {0}

VARIABLES
  list,     \* threads[0 .. thread_count - 1]
  memory,   \* what threads points to: "valid", or "freed" during remove_threads
  spin,     \* spinlock
  on,       \* is_enabled, in real-time mode
  armed,    \* the timer is armed and the handler installed
  alive,    \* ghost: the threads that have not ended
  pending,  \* the threads with a SIGALRM to deliver
  hpc,      \* where the handler of each thread is
  i, done,  \* the locals of broadcast_signal_for_threads
  cpc,      \* where the Python-level call is; the GIL lets one run at a time
  caller,   \* the thread that runs it
  arg,      \* the thread it inserts or removes
  result,   \* what it returned
  sent,     \* ghost: the threads this broadcast has signalled
  gone      \* ghost: how many it has removed
signals == <<on, armed, pending>>
call    == <<cpc, caller, arg, result>>
loop    == <<i, done, sent, gone>>
vars    == <<list, memory, spin, signals, alive, hpc, loop, call>>

Init ==
  /\ list = <<>> /\ memory = "valid"
  /\ spin = FALSE
  /\ on = FALSE /\ armed = FALSE
  /\ alive = Threads
  /\ pending = {}
  /\ hpc = [t \in Threads |-> "off"]
  /\ i = 1 /\ done = TRUE /\ sent = {} /\ gone = 0
  /\ cpc = "idle" /\ caller = Main /\ arg = Main /\ result = 0

Listed == {list[k] : k \in 1..Len(list)}

\* search_thread, from index k on: the first index, or 0.
Search(t, k) ==
  LET found == {j \in k..Len(list) : list[j] = t}
  IN  IF found = {} THEN 0 ELSE CHOOSE j \in found : \A l \in found : j <= l

\* remove_thread: the last element takes the place of the one removed.
Without(k) == [j \in 1..Len(list) - 1 |-> IF j = k THEN list[Len(list)] ELSE list[j]]

-----------------------------------------------------------------------------
(* sigprof_handler *)

HGoto(t, l) == hpc' = [hpc EXCEPT ![t] = l]

\* The real timer expires.
Tick ==
  /\ armed
  /\ pending' = pending \cup {Main}
  /\ UNCHANGED <<list, memory, spin, on, armed, alive, hpc, loop, call>>

Deliver(t) ==
  /\ armed
  /\ t \in pending /\ t \in alive
  /\ hpc[t] = "off"
  /\ pending' = pending \ {t}
  /\ HGoto(t, "spin")
  /\ UNCHANGED <<list, memory, spin, on, armed, alive, loop, call>>

\* The lock is taken; is_main_thread() starts the broadcast.
HSpin(t) ==
  /\ hpc[t] = "spin"
  /\ ~spin
  /\ spin' = TRUE
  /\ IF t = Main THEN /\ i' = 1 /\ done' = TRUE /\ sent' = {} /\ gone' = 0
                      /\ HGoto(t, "check")
                 ELSE HGoto(t, "look") /\ UNCHANGED loop
  /\ UNCHANGED <<list, memory, signals, alive, call>>

\* Mutant of BroadcastCheck: the last element is not looked at.
BroadcastCheckShort ==
  /\ hpc[Main] = "check"
  /\ IF i < Len(list)
     THEN HGoto(Main, "read") /\ UNCHANGED spin
     ELSE IF done THEN spin' = FALSE /\ HGoto(Main, "off")
                  ELSE HGoto(Main, "look") /\ UNCHANGED spin
  /\ UNCHANGED <<list, memory, signals, alive, loop, call>>

\* Mutant of BroadcastCheck: the return after the broadcast keeps the lock.
BroadcastCheckKeeps ==
  /\ hpc[Main] = "check"
  /\ UNCHANGED spin
  /\ HGoto(Main, IF i <= Len(list) THEN "read" ELSE IF done THEN "off" ELSE "look")
  /\ UNCHANGED <<list, memory, signals, alive, loop, call>>

\* while (i < thread_count); then the handler returns if done, or samples its
\* own thread.
BroadcastCheck ==
  /\ hpc[Main] = "check"
  /\ IF i <= Len(list)
     THEN HGoto(Main, "read") /\ UNCHANGED spin
     ELSE IF done THEN spin' = FALSE /\ HGoto(Main, "off")
                  ELSE HGoto(Main, "look") /\ UNCHANGED spin
  /\ UNCHANGED <<list, memory, signals, alive, loop, call>>

\* Mutant of BroadcastRead: only the last element decides about done.
BroadcastReadDone ==
  /\ hpc[Main] = "read"
  /\ memory = "valid" /\ i <= Len(list)
  /\ i' = i + 1
  /\ HGoto(Main, "check")
  /\ done' = (list[i] # Main)
  /\ IF list[i] \in alive \ {Main}
     THEN pending' = pending \cup {list[i]} /\ sent' = sent \cup {list[i]}
     ELSE UNCHANGED <<pending, sent>>
  /\ UNCHANGED <<list, memory, spin, on, armed, alive, gone, call>>

\* One element: our own thread, one to signal, or one that has ended and is
\* removed - and the index moves on in every case.
BroadcastRead ==
  /\ hpc[Main] = "read"
  /\ memory = "valid" /\ i <= Len(list)
  /\ i' = i + 1
  /\ HGoto(Main, "check")
  /\ done' = (done /\ list[i] # Main)
  /\ \/ /\ list[i] = Main
        /\ UNCHANGED <<pending, list, sent, gone>>
     \/ /\ list[i] \in alive \ {Main}
        /\ pending' = pending \cup {list[i]}
        /\ sent' = sent \cup {list[i]}
        /\ UNCHANGED <<list, gone>>
     \/ /\ list[i] \notin alive \cup {Main}
        /\ list' = Without(Search(list[i], i))
        /\ gone' = gone + 1
        /\ UNCHANGED <<pending, sent>>
  /\ UNCHANGED <<memory, spin, on, armed, alive, call>>

\* The thread state is looked up and the lock released ...
Look(t) ==
  /\ hpc[t] = "look"
  /\ spin' = FALSE
  /\ HGoto(t, "sample")
  /\ UNCHANGED <<list, memory, signals, alive, loop, call>>

\* ... and the stack is sampled.
Sample(t) ==
  /\ hpc[t] = "sample"
  /\ HGoto(t, "off")
  /\ UNCHANGED <<list, memory, spin, signals, alive, loop, call>>

HandlerStep(t) == HSpin(t) \/ Look(t) \/ Sample(t)
                  \/ (t = Main /\ (BroadcastCheck \/ BroadcastRead))

-----------------------------------------------------------------------------
(* enable, disable, insert_real_time_thread and remove_real_time_thread *)

\* The call goes on only while no handler runs on top of it.
Runs(l) == cpc = l /\ hpc[caller] = "off"

\* insert_thread: a thread that is in the list, but for index 0, is refused.
AppendThread(t) ==
  IF Search(t, 1) > 1
  THEN result' = -1 /\ UNCHANGED list
  ELSE list' = Append(list, t) /\ result' = Len(list) + 1

\* vmprof_enable inserts its own thread, without the lock, before there is a
\* handler or a timer.
Enable(t) ==
  /\ cpc = "idle" /\ ~on
  /\ t \in Enablers \cap alive
  /\ hpc[t] = "off"
  /\ AppendThread(t)
  /\ on' = TRUE /\ armed' = TRUE
  /\ caller' = t /\ arg' = t
  /\ UNCHANGED <<memory, spin, pending, alive, hpc, loop, cpc>>

Begin(t, u, l) ==
  /\ cpc = "idle" /\ on
  /\ t \in Callers \cap alive
  /\ hpc[t] = "off"
  /\ u \in Targets
  /\ caller' = t /\ arg' = u
  /\ cpc' = l
  /\ UNCHANGED <<list, memory, spin, signals, alive, hpc, loop, result>>

\* insert_real_time_thread(u) and remove_real_time_thread(u)
Insert(t, u) == Len(list) < MaxList /\ Begin(t, u, "lock_insert")
Remove(t, u) == Begin(t, u, "lock_remove")

\* Mutant of AcquireLock.
AcquireLockBlind ==
  /\ \E op \in {"insert", "remove"} : Runs("lock_" \o op) /\ cpc' = op
  /\ spin' = TRUE
  /\ UNCHANGED <<list, memory, signals, alive, hpc, loop, caller, arg, result>>

\* vmprof_aquire_lock, with the signal unblocked
AcquireLock ==
  /\ \E op \in {"insert", "remove"} : Runs("lock_" \o op) /\ cpc' = op
  /\ ~spin
  /\ spin' = TRUE
  /\ UNCHANGED <<list, memory, signals, alive, hpc, loop, caller, arg, result>>

InsertThread ==
  /\ Runs("insert")
  /\ AppendThread(arg)
  /\ cpc' = "release"
  /\ UNCHANGED <<memory, spin, signals, alive, hpc, loop, caller, arg>>

RemoveThread ==
  /\ Runs("remove")
  /\ LET k == Search(arg, 1)
     IN  IF k = 0 THEN result' = -1 /\ UNCHANGED list
                  ELSE list' = Without(k) /\ result' = Len(list) - 1
  /\ cpc' = "release"
  /\ UNCHANGED <<memory, spin, signals, alive, hpc, loop, caller, arg>>

ReleaseLock ==
  /\ Runs("release")
  /\ spin' = FALSE
  /\ cpc' = "idle"
  /\ UNCHANGED <<list, memory, signals, alive, hpc, loop, caller, arg, result>>

\* vmprof_ignore_signals waits for the handlers that sample, and only for them.
DisableWait(t) ==
  /\ cpc = "idle" /\ on
  /\ t \in Enablers \cap alive
  /\ hpc[t] = "off"
  /\ caller' = t
  /\ \A u \in Threads : hpc[u] # "sample"
  /\ cpc' = "disarm"
  /\ UNCHANGED <<list, memory, spin, signals, alive, hpc, loop, arg, result>>

\* The timer is removed; SIG_IGN discards the signals that are pending.
DisarmTimer ==
  /\ Runs("disarm")
  /\ armed' = FALSE
  /\ pending' = {}
  /\ cpc' = "free"
  /\ UNCHANGED <<list, memory, spin, on, alive, hpc, loop, caller, arg, result>>

\* remove_threads, without the lock
FreeThreads ==
  /\ Runs("free")
  /\ memory' = "freed"
  /\ cpc' = "reset"
  /\ UNCHANGED <<list, spin, signals, alive, hpc, loop, caller, arg, result>>

ResetThreads ==
  /\ Runs("reset")
  /\ list' = <<>> /\ memory' = "valid"
  /\ on' = FALSE /\ armed' = FALSE
  /\ cpc' = "idle"
  /\ UNCHANGED <<spin, pending, alive, hpc, loop, caller, arg, result>>

\* A thread that is not in a call or a handler ends.
ThreadEnd(t) ==
  /\ t \in alive \ {Main}
  /\ hpc[t] = "off"
  /\ cpc = "idle" \/ caller # t
  /\ alive' = alive \ {t}
  /\ pending' = pending \ {t}
  /\ UNCHANGED <<list, memory, spin, on, armed, hpc, loop, call>>

-----------------------------------------------------------------------------
CallStep == AcquireLock \/ InsertThread \/ RemoveThread \/ ReleaseLock
            \/ DisarmTimer \/ FreeThreads \/ ResetThreads

Next == \/ Tick \/ CallStep
        \/ \E t \in Threads : \/ Deliver(t) \/ HandlerStep(t) \/ ThreadEnd(t)
                              \/ Enable(t) \/ DisableWait(t)
                              \/ \E u \in Targets : Insert(t, u) \/ Remove(t, u)

Spec == Init /\ [][Next]_vars

\* The timer goes on; threads and their handlers run; a call that handlers keep
\* interrupting goes on between them (a handler is shorter than a period of the
\* timer), and a context that spins gets the lock if it is free again and again.
FairSpec == /\ Spec
            /\ WF_vars(Tick) /\ SF_vars(CallStep)
            /\ \A t \in Threads : /\ WF_vars(Deliver(t))
                                  /\ WF_vars(HandlerStep(t))
                                  /\ SF_vars(HSpin(t))

-----------------------------------------------------------------------------
(* Properties *)

\* The contexts inside the spinlock: handlers, and the call.
Holders == {t \in Threads : hpc[t] \in {"check", "read", "look"}}
CallHolds == cpc \in {"insert", "remove", "release"}

\* One context at a time is inside the spinlock, and it is taken exactly when
\* one is: a broadcast never sees the list change under it.
ListExclusion == /\ CallHolds => Holders = {}
                 /\ Cardinality(Holders) <= 1
                 /\ spin <=> (CallHolds \/ Holders # {})

\* When a broadcast ends every thread of the list has been signalled, but for
\* as many as it has removed (each removal moves a thread to where the loop has
\* already been), and with none removed the handler of the main thread samples
\* it exactly if it is in the list.
BroadcastComplete ==
  hpc[Main] = "check" /\ i > Len(list) =>
    /\ Cardinality((Listed \ {Main}) \ sent) <= gone
    /\ gone = 0 => (done <=> Main \notin Listed)

\* A handler does not wait for a lock that the code it interrupted holds
\* ("never have spin loops waiting for some lock to be released ... The code
\* holding the lock could be running in the same thread", vmprof_mt.h).
NoSelfDeadlock == ~(CallHolds /\ hpc[caller] = "spin")

\* A thread that stays in the list is signalled again and again.
ForwardedAgain ==
  \A t \in Targets \ {Main} :
    []<>(t \in pending \/ hpc[t] # "off" \/ t \notin Listed \cap alive \/ ~armed)

\* Every handler ends, and so does every call.
EveryoneReturns == /\ \A t \in Threads : hpc[t] # "off" ~> hpc[t] = "off"
                   /\ cpc # "idle" ~> cpc = "idle"
=============================================================================
