----------------------- MODULE RealTimeThreads_proofs -----------------------
(***************************************************************************)
(* The list of real-time threads is touched by one context at a time, for  *)
(* any number of threads, whoever enables and whoever inserts.             *)
(***************************************************************************)
EXTENDS RealTimeThreads, FiniteSetTheorems, TLAPS

HandlerPlaces == {"off", "spin", "check", "read", "look", "sample"}
Inside(t) == hpc[t] \in {"check", "read", "look"}

\* The lock is taken exactly when somebody is inside, and he is alone.
LockInv ==
  /\ hpc \in [Threads -> HandlerPlaces] /\ spin \in BOOLEAN
  /\ \A t \in Threads : Inside(t) => spin /\ ~CallHolds
  /\ \A t, u \in Threads : Inside(t) /\ Inside(u) => t = u
  /\ CallHolds => spin
  /\ spin => CallHolds \/ \E t \in Threads : Inside(t)

LEMMA InitLock == Init => LockInv
BY DEF Init, LockInv, HandlerPlaces, Inside, CallHolds

\* What the steps do to the lock and to who is inside.
Leaves(t)  == /\ hpc' = [hpc EXCEPT ![t] = "off"] \/ hpc' = [hpc EXCEPT ![t] = "sample"]
              /\ Inside(t) /\ spin' = FALSE
Enters(t)  == /\ hpc' = [hpc EXCEPT ![t] = "check"] \/ hpc' = [hpc EXCEPT ![t] = "look"]
              /\ ~spin /\ spin' = TRUE
Stays(t)   == /\ \E l \in {"check", "read", "look"} : hpc' = [hpc EXCEPT ![t] = l]
              /\ Inside(t) /\ spin' = spin
Outside(t) == /\ \E l \in {"off", "spin"} : hpc' = [hpc EXCEPT ![t] = l]
              /\ ~Inside(t) /\ spin' = spin

\* A step of a handler keeps the invariant.
LEMMA HandlerKeeps ==
  ASSUME LockInv, NEW t \in Threads, cpc' = cpc,
         Leaves(t) \/ Enters(t) \/ Stays(t) \/ Outside(t)
  PROVE  LockInv'
<1> USE DEF LockInv, Inside, CallHolds, HandlerPlaces
<1>1. CASE Leaves(t)
  BY <1>1 DEF Leaves
<1>2. CASE Enters(t)
  BY <1>2 DEF Enters
<1>3. CASE Stays(t)
  BY <1>3 DEF Stays
<1>4. CASE Outside(t)
  BY <1>4 DEF Outside
<1>q. QED BY <1>1, <1>2, <1>3, <1>4

\* So does a step of a call, which may take the lock only when it is free.
LEMMA CallKeeps ==
  ASSUME LockInv, hpc' = hpc,
         \/ UNCHANGED spin /\ (CallHolds' <=> CallHolds)
         \/ ~spin /\ spin' = TRUE /\ CallHolds'
         \/ CallHolds /\ spin' = FALSE /\ ~CallHolds'
  PROVE  LockInv'
<1>1. \A t \in Threads : Inside(t)' <=> Inside(t)
  BY DEF Inside
<1>2. CASE UNCHANGED spin /\ (CallHolds' <=> CallHolds)
  BY <1>1, <1>2 DEF LockInv
<1>3. CASE ~spin /\ spin' = TRUE /\ CallHolds'
  BY <1>1, <1>3 DEF LockInv
<1>4. CASE CallHolds /\ spin' = FALSE /\ ~CallHolds'
  BY <1>1, <1>4 DEF LockInv
<1>q. QED BY <1>2, <1>3, <1>4

LEMMA NextLock == LockInv /\ [Next]_vars => LockInv'
<1> SUFFICES ASSUME LockInv, [Next]_vars PROVE LockInv'
  OBVIOUS
<1>1. ASSUME NEW t \in Threads, Deliver(t) PROVE LockInv'
  <2>1. Outside(t) /\ cpc' = cpc
    BY <1>1 DEF Deliver, HGoto, Outside, Inside, call
  <2>q. QED BY <2>1, HandlerKeeps
<1>2. ASSUME NEW t \in Threads, HandlerStep(t) PROVE LockInv'
  <2>1. CASE HSpin(t)
    <3>1. Enters(t) /\ cpc' = cpc
      BY <2>1 DEF HSpin, HGoto, Enters, call
    <3>q. QED BY <3>1, HandlerKeeps
  <2>2. CASE Look(t)
    <3>1. Leaves(t) /\ cpc' = cpc
      BY <2>2 DEF Look, HGoto, Leaves, Inside, call
    <3>q. QED BY <3>1, HandlerKeeps
  <2>3. CASE Sample(t)
    <3>1. Outside(t) /\ cpc' = cpc
      BY <2>3 DEF Sample, HGoto, Outside, Inside, call
    <3>q. QED BY <3>1, HandlerKeeps
  <2>4. CASE t = Main /\ BroadcastCheck
    <3>1. (Stays(t) \/ Leaves(t)) /\ cpc' = cpc
      BY <2>4 DEF BroadcastCheck, HGoto, Stays, Leaves, Inside, call
    <3>q. QED BY <3>1, HandlerKeeps
  <2>5. CASE t = Main /\ BroadcastRead
    <3>1. Stays(t) /\ cpc' = cpc
      BY <2>5 DEF BroadcastRead, HGoto, Stays, Inside, call
    <3>q. QED BY <3>1, HandlerKeeps
  <2>q. QED BY <1>2, <2>1, <2>2, <2>3, <2>4, <2>5 DEF HandlerStep
<1>3. CASE CallStep
  <2>1. CASE AcquireLock
    BY <2>1, CallKeeps DEF AcquireLock, CallHolds
  <2>2. CASE ReleaseLock
    BY <2>2, CallKeeps DEF ReleaseLock, Runs, CallHolds
  <2>3. CASE InsertThread \/ RemoveThread
    BY <2>3, CallKeeps DEF InsertThread, RemoveThread, Runs, CallHolds
  <2>4. CASE DisarmTimer \/ FreeThreads \/ ResetThreads
    BY <2>4, CallKeeps DEF DisarmTimer, FreeThreads, ResetThreads, Runs, CallHolds
  <2>q. QED BY <1>3, <2>1, <2>2, <2>3, <2>4 DEF CallStep
<1>4. CASE Tick
  BY <1>4, CallKeeps DEF Tick, CallHolds, call
<1>5. ASSUME NEW t \in Threads, ThreadEnd(t) \/ Enable(t) \/ DisableWait(t)
      PROVE  LockInv'
  BY <1>5, CallKeeps DEF ThreadEnd, Enable, DisableWait, CallHolds, call
<1>6. ASSUME NEW t \in Threads, NEW u \in Targets, Insert(t, u) \/ Remove(t, u)
      PROVE  LockInv'
  BY <1>6, CallKeeps DEF Insert, Remove, Begin, CallHolds
<1>7. CASE UNCHANGED vars
  BY <1>7, CallKeeps DEF vars, call, CallHolds
<1>q. QED BY <1>1, <1>2, <1>3, <1>4, <1>5, <1>6, <1>7 DEF Next

\* A broadcast of the main thread, the look-up of another handler and the calls
\* that insert and remove threads exclude each other, although a handler may
\* come at any of their steps; and the lock is never left taken.
THEOREM ListExcluded == Spec => []ListExclusion
<1>1. LockInv => ListExclusion
  <2> SUFFICES ASSUME LockInv PROVE ListExclusion
    OBVIOUS
  <2>1. \A t : t \in Holders <=> t \in Threads /\ Inside(t)
    BY DEF Holders, Inside
  <2>2. CallHolds => Holders = {}
    BY <2>1 DEF LockInv
  <2>3. Cardinality(Holders) <= 1
    <3>1. CASE Holders = {}
      BY <3>1, FS_EmptySet
    <3>2. CASE Holders # {}
      <4>1. PICK t \in Threads : Holders = {t}
        BY <2>1, <3>2 DEF LockInv
      <4>q. QED BY <4>1, FS_Singleton
    <3>q. QED BY <3>1, <3>2
  <2>4. spin <=> (CallHolds \/ Holders # {})
    BY <2>1 DEF LockInv
  <2>q. QED BY <2>2, <2>3, <2>4 DEF ListExclusion
<1>q. QED BY <1>1, InitLock, NextLock, PTL DEF Spec
-----------------------------------------------------------------------------
\* The rest is about programs whose main thread alone enables and disables.
\* During a broadcast nobody else touches the list then.

\* The threads that the loop has come past, and those of them without a signal.
Seen == {list[k] : k \in {l \in 1 .. Len(list) : l < i}}
Missed == Seen \ ({Main} \cup sent)

CastInv ==
  /\ list \in Seq(Threads) /\ arg \in Threads
  /\ i \in Nat \ {0} /\ gone \in Nat /\ done \in BOOLEAN
  /\ cpc \in {"disarm", "free", "reset"} => caller \in Enablers
  /\ hpc[Main] \in {"check", "read"} =>
       /\ Cardinality(Missed) <= gone
       /\ gone = 0 => (done <=> Main \notin Seen)

LEMMA MissedFinite ==
  ASSUME CastInv
  PROVE  IsFiniteSet(Missed) /\ Cardinality(Missed) \in Nat
<1>1. Missed \subseteq Threads
  BY DEF CastInv, Missed, Seen
<1>q. QED BY <1>1, RealTimeAssumption, FS_Subset, FS_CardinalityType

\* The loop removes the element it is at.
LEMMA SearchHere ==
  ASSUME CastInv, i \in 1 .. Len(list)
  PROVE  Search(list[i], i) = i
<1> DEFINE found == {j \in i .. Len(list) : list[j] = list[i]}
<1>1. i \in found /\ \A l \in found : i <= l
  BY DEF CastInv
<1>2. \A j \in found : (\A l \in found : j <= l) => j = i
  BY <1>1 DEF CastInv
<1>3. found # {}
  BY <1>1
<1>4. Search(list[i], i) = CHOOSE j \in found : \A l \in found : j <= l
  BY <1>3 DEF Search
<1> HIDE DEF found
<1>q. QED BY <1>1, <1>2, <1>4

\* The removal moves the last thread behind the loop, at most.
LEMMA WithoutHere ==
  ASSUME CastInv, i \in 1 .. Len(list), list' = Without(i), i' = i + 1
  PROVE  list' \in Seq(Threads) /\ Seen' \subseteq Seen \cup {list[Len(list)]}
<1>1. list \in Seq(Threads) /\ Len(list) \in Nat \ {0}
  BY DEF CastInv
<1>2. /\ \A k \in 1 .. Len(list) - 1 :
           list'[k] = IF k = i THEN list[Len(list)] ELSE list[k]
      /\ DOMAIN list' = 1 .. Len(list) - 1
  BY DEF Without
<1>3. \A k \in 1 .. Len(list) - 1 : list'[k] \in Threads
  BY <1>1, <1>2
<1>4. list' \in Seq(Threads) /\ Len(list') = Len(list) - 1
  <2>1. Len(list) - 1 \in Nat
    BY <1>1
  <2>q. QED BY <1>1, <1>3, <2>1 DEF Without
<1>5. ASSUME NEW k \in 1 .. Len(list'), k < i'
      PROVE  list'[k] \in Seen \cup {list[Len(list)]}
  BY <1>1, <1>2, <1>4, <1>5 DEF Seen
<1>q. QED BY <1>4, <1>5 DEF Seen

\* One element of the list.
LEMMA ReadKeeps ==
  ASSUME CastInv, hpc[Main] = "read", BroadcastRead
  PROVE  CastInv'
<1> USE DEF CastInv
<1>1. /\ i \in 1 .. Len(list) /\ i' = i + 1 /\ done' = (done /\ list[i] # Main)
      /\ UNCHANGED <<arg, cpc, caller>>
  BY DEF BroadcastRead, call
<1>2. IsFiniteSet(Missed) /\ Cardinality(Missed) \in Nat
  BY MissedFinite
<1>3. list' = list => Seen' = Seen \cup {list[i]}
  <2> SUFFICES ASSUME list' = list PROVE Seen' = Seen \cup {list[i]}
    OBVIOUS
  <2>1. \A l \in 1 .. Len(list) : l < i' <=> l < i \/ l = i
    BY <1>1
  <2>q. QED BY <1>1, <2>1 DEF Seen
<1>4. CASE list[i] = Main /\ UNCHANGED <<list, sent, gone>>
  <2>1. Missed' = Missed /\ Main \in Seen'
    BY <1>3, <1>4 DEF Missed
  <2>2. done' = FALSE
    BY <1>1, <1>4
  <2>3. Cardinality(Missed') <= gone'
    BY <1>4, <2>1
  <2>q. QED BY <1>1, <1>4, <2>1, <2>2, <2>3
<1>5. CASE list[i] # Main /\ sent' = sent \cup {list[i]} /\ UNCHANGED <<list, gone>>
  <2>1. Missed' \subseteq Missed /\ (Main \in Seen' <=> Main \in Seen)
    BY <1>3, <1>5 DEF Missed
  <2>2. Cardinality(Missed') <= Cardinality(Missed)
    BY <1>2, <2>1, FS_Subset
  <2>3. Cardinality(Missed') \in Nat
    BY <1>2, <2>1, FS_Subset, FS_CardinalityType
  <2>q. QED BY <1>1, <1>2, <1>5, <2>1, <2>2, <2>3
<1>6. CASE list' = Without(i) /\ gone' = gone + 1 /\ sent' = sent
  <2> DEFINE x == list[Len(list)]
  <2>1. list' \in Seq(Threads) /\ Seen' \subseteq Seen \cup {x}
    BY <1>1, <1>6, WithoutHere
  <2>2. Missed' \subseteq Missed \cup {x}
    BY <1>6, <2>1 DEF Missed
  <2>3. /\ IsFiniteSet(Missed \cup {x})
        /\ Cardinality(Missed \cup {x}) \in Nat
        /\ Cardinality(Missed \cup {x}) <= Cardinality(Missed) + 1
    <3>1. IsFiniteSet(Missed \cup {x})
      BY <1>2, FS_AddElement
    <3>2. Cardinality(Missed \cup {x}) \in {Cardinality(Missed), Cardinality(Missed) + 1}
      BY <1>2, FS_AddElement
    <3>q. QED BY <1>2, <3>1, <3>2
  <2>4. Cardinality(Missed') <= Cardinality(Missed \cup {x}) /\ Cardinality(Missed') \in Nat
    BY <2>2, <2>3, FS_Subset, FS_CardinalityType
  <2>5. Cardinality(Missed') <= gone' /\ gone' # 0 /\ gone' \in Nat
    BY <1>2, <1>6, <2>3, <2>4
  <2>q. QED BY <1>1, <2>1, <2>5
<1>q. QED BY <1>1, <1>4, <1>5, <1>6, SearchHere DEF BroadcastRead

\* Everything the invariant speaks of, but for hpc, cpc and caller.
Frame == UNCHANGED <<list, i, gone, done, sent, arg>>

LEMMA FrameKeeps ==
  ASSUME CastInv, Frame, hpc'[Main] \in {"check", "read"} => hpc[Main] \in {"check", "read"},
         cpc' \in {"disarm", "free", "reset"} => caller' \in Enablers
  PROVE  CastInv'
<1>1. Missed' = Missed /\ Seen' = Seen
  BY DEF Frame, Missed, Seen
<1>q. QED BY <1>1 DEF CastInv, Frame

\* The calls change the list when no broadcast is under way.
LEMMA AppendKeeps ==
  ASSUME NEW t \in Threads, CastInv, AppendThread(t), UNCHANGED <<i, gone, done>>,
         arg' \in Threads, hpc'[Main] \notin {"check", "read"},
         cpc' \notin {"disarm", "free", "reset"}
  PROVE  CastInv'
<1>1. list' \in Seq(Threads)
  BY DEF AppendThread, CastInv
<1>q. QED BY <1>1 DEF CastInv

LEMMA NextCast ==
  ASSUME Enablers \subseteq {Main}, LockInv, CastInv, [Next]_vars
  PROVE  CastInv'
<1> USE RealTimeAssumption
<1>1. ASSUME NEW t \in Threads, Deliver(t) PROVE CastInv'
  BY <1>1, FrameKeeps DEF Deliver, HGoto, Frame, loop, call, LockInv, CastInv
<1>2. ASSUME NEW t \in Threads, HandlerStep(t) PROVE CastInv'
  <2>1. CASE HSpin(t)
    <3>1. CASE t = Main
      <4>1. /\ i' = 1 /\ done' = TRUE /\ sent' = {} /\ gone' = 0
            /\ UNCHANGED <<list, arg, cpc, caller>>
        BY <2>1, <3>1 DEF HSpin, call
      <4>2. Seen' = {} /\ Missed' = {}
        BY <4>1 DEF Seen, Missed, CastInv
      <4>q. QED BY <4>1, <4>2, FS_EmptySet DEF CastInv
    <3>2. CASE t # Main
      BY <2>1, <3>2, FrameKeeps DEF HSpin, HGoto, Frame, loop, call, LockInv, CastInv
    <3>q. QED BY <3>1, <3>2
  <2>2. CASE Look(t) \/ Sample(t)
    BY <2>2, FrameKeeps DEF Look, Sample, HGoto, Frame, loop, call, LockInv, CastInv
  <2>3. CASE t = Main /\ BroadcastCheck
    BY <2>3, FrameKeeps DEF BroadcastCheck, Frame, loop, call, CastInv
  <2>4. CASE t = Main /\ BroadcastRead
    BY <2>4, ReadKeeps DEF BroadcastRead
  <2>q. QED BY <1>2, <2>1, <2>2, <2>3, <2>4 DEF HandlerStep
<1>3. CASE CallStep
  <2>1. CASE AcquireLock \/ ReleaseLock
    BY <2>1, FrameKeeps DEF AcquireLock, ReleaseLock, Frame, loop, CastInv
  <2>2. CASE InsertThread
    <3>1. hpc[Main] \notin {"check", "read"}
      BY <2>2 DEF InsertThread, Runs, LockInv, Inside, CallHolds
    <3>q. QED BY <2>2, <3>1, AppendKeeps DEF InsertThread, loop, CastInv
  <2>3. CASE RemoveThread
    <3>1. hpc[Main] \notin {"check", "read"}
      BY <2>3 DEF RemoveThread, Runs, LockInv, Inside, CallHolds
    <3>2. list' \in Seq(Threads)
      <4> DEFINE k == Search(arg, 1)
      <4>1. CASE k = 0
        BY <2>3, <4>1 DEF RemoveThread, CastInv
      <4>2. CASE k # 0
        <5>1. list' = Without(k)
          BY <2>3, <4>2 DEF RemoveThread
        <5>2. Len(list) # 0
          BY <4>2 DEF Search, CastInv
        <5>3. Len(list) - 1 \in Nat
          BY <5>2 DEF CastInv
        <5>q. QED BY <5>1, <5>3 DEF Without, CastInv
      <4>q. QED BY <4>1, <4>2
    <3>q. QED BY <2>3, <3>1, <3>2 DEF RemoveThread, loop, CastInv
  <2>4. CASE DisarmTimer \/ FreeThreads
    BY <2>4, FrameKeeps DEF DisarmTimer, FreeThreads, Runs, Frame, loop, CastInv
  <2>5. CASE ResetThreads
    <3>1. hpc[Main] = "off"
      BY <2>5 DEF ResetThreads, Runs, CastInv
    <3>q. QED BY <2>5, <3>1 DEF ResetThreads, loop, CastInv
  <2>q. QED BY <1>3, <2>1, <2>2, <2>3, <2>4, <2>5 DEF CallStep
<1>4. CASE Tick
  BY <1>4, FrameKeeps DEF Tick, Frame, loop, call, CastInv
<1>5. ASSUME NEW t \in Threads, ThreadEnd(t) PROVE CastInv'
  BY <1>5, FrameKeeps DEF ThreadEnd, Frame, loop, call, CastInv
<1>6. ASSUME NEW t \in Threads, Enable(t) PROVE CastInv'
  <2>1. t = Main /\ hpc[Main] = "off"
    BY <1>6 DEF Enable
  <2>q. QED BY <1>6, <2>1, AppendKeeps DEF Enable, loop
<1>7. ASSUME NEW t \in Threads, DisableWait(t) PROVE CastInv'
  BY <1>7, FrameKeeps DEF DisableWait, Frame, loop, CastInv
<1>8. ASSUME NEW t \in Threads, NEW u \in Targets, Insert(t, u) \/ Remove(t, u)
      PROVE  CastInv'
  <2>1. /\ UNCHANGED <<list, i, gone, done, sent, hpc>> /\ arg' \in Threads
        /\ cpc' \in {"lock_insert", "lock_remove"}
    BY <1>8 DEF Insert, Remove, Begin, loop
  <2>2. Missed' = Missed /\ Seen' = Seen
    BY <2>1 DEF Missed, Seen
  <2>q. QED BY <2>1, <2>2 DEF CastInv
<1>9. CASE UNCHANGED vars
  BY <1>9, FrameKeeps DEF vars, loop, call, Frame, CastInv
<1>q. QED BY <1>1, <1>2, <1>3, <1>4, <1>5, <1>6, <1>7, <1>8, <1>9 DEF Next

\* When a broadcast ends every thread of the list has been signalled, but for as
\* many as it has removed, and the main thread samples itself exactly if it is
\* in the list.
THEOREM BroadcastsComplete ==
  ASSUME Enablers \subseteq {Main}
  PROVE  Spec => []BroadcastComplete
<1>1. Init => CastInv
  BY RealTimeAssumption DEF Init, CastInv
<1>2. LockInv /\ CastInv /\ [Next]_vars => LockInv' /\ CastInv'
  BY NextLock, NextCast
<1>3. CastInv => BroadcastComplete
  <2> SUFFICES ASSUME CastInv, hpc[Main] = "check", i > Len(list)
               PROVE  /\ Cardinality((Listed \ {Main}) \ sent) <= gone
                      /\ gone = 0 => (done <=> Main \notin Listed)
    BY DEF BroadcastComplete
  <2>1. \A l \in 1 .. Len(list) : l < i
    BY DEF CastInv
  <2>2. Seen = Listed /\ Missed = (Listed \ {Main}) \ sent
    BY <2>1 DEF Seen, Listed, Missed
  <2>q. QED BY <2>2 DEF CastInv
<1>q. QED BY <1>1, <1>2, <1>3, InitLock, PTL DEF Spec
=============================================================================
