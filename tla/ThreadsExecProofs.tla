------------------------- MODULE ThreadsExecProofs -------------------------
(***************************************************************************)
(* Proofs about ThreadsExec, for every pool size, every set of requests    *)
(* and every protocol of calls that the theorems name.                     *)
(***************************************************************************)
EXTENDS ThreadsExecInv, ArithmeticProofs

USE MaxThreadsAssumption, SpawnBeginsAssumption, RequestsAssumption,
    BindAssumption, MaxLeakedAssumption
-----------------------------------------------------------------------------
(* Type correctness.                                                       *)

(* Where the process waits for a worker its loop has an iteration to go.   *)
WaitsInLoop ==
  /\ mpc = "spawned" => mi < poolSize
  /\ mpc \in {"serial_wait", "reap_wait"} => mi > 0

TypeInv == TypeOK /\ WaitsInLoop

(* Membership of the constants, so that the sets themselves stay folded.   *)
LEMMA Members1 ==
  /\ {"Terminating", "Inactive", "Active"} \subseteq State
  /\ {"null", "noop", "functor", "resize", "sleep"} \subseteq Function
  /\ NoScratch \in Size /\ FirstScratch \in Size
BY DEF State, Function, Size, NoScratch, FirstScratch

LEMMA Members2 ==
  /\ Process \in Thread /\ Stray \in Thread /\ Stray \in Slot
  /\ Slot \subseteq Thread /\ Entry \subseteq Slot
BY DEF Thread, Slot

LEMMA FansBound ==
  ASSUME NEW n \in 0..MaxThreads, NEW e \in Entries(n)
  PROVE  FanCount(e, n) \in 0..MaxThreads
BY FanCountIs DEF Entries

LEMMA OrphansFinite == Cardinality(Orphans) \in Nat
<1>1. IsFiniteSet(Entry)
  BY FS_Interval DEF Entry
<1>2. Orphans \subseteq Entry
  BY DEF Orphans
<1>. QED
  BY <1>1, <1>2, FS_Subset, FS_CardinalityType

LEMMA TypeInit == Init => TypeInv
<1>. SUFFICES ASSUME Init PROVE TypeInv
  OBVIOUS
<1>1. registry \in [Slot -> Thread \cup {Nil}]
  BY DEF Init, Thread
<1>2. state \in [Thread -> State]
  BY DEF Init, State
<1>3. ends \in Size /\ scratch \in [Slot -> Size] /\ request \in Size
  BY DEF Init, Size, NoScratch
<1>4. /\ mpc \in MasterLabel /\ wpc \in [Slot -> WorkerLabel]
      /\ mpc \notin {"spawned", "serial_wait", "reap_wait"}
  BY DEF Init, MasterLabel, WorkerLabel
<1>5. /\ wi \in [Slot -> 0..MaxThreads] /\ ran \in [Slot -> Nat]
      /\ mi \in 0..MaxThreads /\ poolSize \in 0..MaxThreads
  BY DEF Init
<1>6. inPool \in BOOLEAN /\ failed \in BOOLEAN /\ newborn \in BOOLEAN
  BY DEF Init
<1>. QED
  BY <1>1, <1>2, <1>3, <1>4, <1>5, <1>6, Members1
     DEF Init, TypeInv, TypeOK, WaitsInLoop

LEMMA TypeApplication == TypeInv /\ Application => TypeInv'
<1>. SUFFICES ASSUME TypeInv, Application PROVE TypeInv'
  OBVIOUS
<1>. USE Members1, Members2
     DEF TypeInv, TypeOK, WaitsInLoop, Call,
         frame, master, worker, history, shared, memory, pool
<1>1. CASE InitializeThrows
  BY <1>1 DEF InitializeThrows, ClearRegistry, Ready
<1>2. ASSUME NEW n \in 1..MaxThreads, NEW b \in SpawnBegins, Initialize(n, b)
      PROVE TypeInv'
  <2>1. n \in 0..MaxThreads /\ b \in {0, 1} /\ b \in 0..MaxThreads
    OBVIOUS
  <2>2. leaked' \in Nat
    BY <1>2, OrphansFinite DEF Initialize
  <2>. QED
    BY <1>2, <2>1, <2>2 DEF Initialize, ClearRegistry, MasterLabel, WorkerLabel
<1>3. CASE Fence
  BY <1>3 DEF Fence, Ready, MasterLabel
<1>4. CASE ParallelFor
  BY <1>4 DEF ParallelFor, Ready, MasterLabel
<1>5. ASSUME NEW size \in Requests, ParallelReduce(size) PROVE TypeInv'
  BY <1>5 DEF ParallelReduce, Ready, MasterLabel
<1>6. CASE Sleep
  BY <1>6 DEF Sleep, Ready, MasterLabel
<1>7. CASE Wake
  BY <1>7 DEF Wake, Ready, MasterLabel, ReleasesLock
<1>8. CASE Finalize
  BY <1>8 DEF Finalize, Ready, MasterLabel
<1>. QED
  BY <1>1, <1>2, <1>3, <1>4, <1>5, <1>6, <1>7, <1>8 DEF Application

LEMMA TypeMaster == TypeInv /\ MasterStep => TypeInv'
<1>. SUFFICES ASSUME TypeInv, MasterStep PROVE TypeInv'
  OBVIOUS
<1>. USE Members1, Members2
     DEF TypeInv, TypeOK, WaitsInLoop, MasterLabel,
         frame, master, worker, history, shared, memory, pool, First, Goto
<1>1. CASE SpawnWorks
  BY <1>1 DEF SpawnWorks
<1>2. CASE SpawnFails
  BY <1>2 DEF SpawnFails
<1>3. CASE SpawnReported
  BY <1>3 DEF SpawnReported
<1>4. CASE SpawnedAll
  BY <1>4 DEF SpawnedAll
<1>5. CASE Settle
  BY <1>5 DEF Settle, Missing
<1>6. CASE InitializeFails
  BY <1>6 DEF InitializeFails
<1>7. CASE PoolIsUp
  BY <1>7 DEF PoolIsUp, FirstScratch, Thread
<1>8. CASE FenceWait
  BY <1>8 DEF FenceWait
<1>9. CASE FenceClear
  BY <1>9 DEF FenceClear
<1>10. CASE ResizeScratch
  BY <1>10 DEF ResizeScratch
<1>11. CASE ResizeNothing
  BY <1>11 DEF ResizeNothing, AfterResize
<1>12. CASE ResizeThrows
  BY <1>12 DEF ResizeThrows
<1>13. CASE ResizeStart
  BY <1>13 DEF ResizeStart
<1>14. CASE SerialActivate
  BY <1>14 DEF SerialActivate
<1>15. CASE SerialWait
  BY <1>15 DEF SerialWait
<1>16. CASE SerialEnd
  BY <1>16 DEF SerialEnd, AfterResize
<1>17. CASE StartThrows
  BY <1>17 DEF StartThrows
<1>18. CASE Start
  BY <1>18 DEF Start
<1>19. CASE Activate
  BY <1>19 DEF Activate, ActivatedBy
<1>20. CASE Activated
  BY <1>20 DEF Activated
<1>21. CASE ProcessRunsFunctor
  BY <1>21 DEF ProcessRunsFunctor, Slot, Entry
<1>22. CASE ProcessFanIn
  <2>1. mi' \in 0..MaxThreads
    BY <1>22, FansBound DEF ProcessFanIn, Fans
  <2>. QED
    BY <1>22, <2>1 DEF ProcessFanIn
<1>23. CASE ProcessDeactivate
  BY <1>23 DEF ProcessDeactivate
<1>24. CASE SleepBegins
  BY <1>24 DEF SleepBegins, TakesLock, Thread
<1>25. CASE WakeLock
  BY <1>25 DEF WakeLock, Thread
<1>26. CASE WakeUnlock
  BY <1>26 DEF WakeUnlock
<1>27. CASE Reap
  BY <1>27 DEF Reap, MoreToReap
<1>28. CASE ReapWait
  BY <1>28 DEF ReapWait
<1>29. CASE FinalizeEnds
  <2>1. /\ registry' \in [Slot -> Thread \cup {Nil}]
        /\ ends' \in Size /\ scratch' \in [Slot -> Size]
    BY <1>29 DEF FinalizeEnds
  <2>2. inPool' \in BOOLEAN
    BY <1>29 DEF FinalizeEnds
  <2>3. mpc' = "idle" /\ op' = "none"
    BY <1>29 DEF FinalizeEnds
  <2>. QED
    BY <1>29, <2>1, <2>2, <2>3 DEF FinalizeEnds
<1>. QED
  BY <1>1, <1>2, <1>3, <1>4, <1>5, <1>6, <1>7, <1>8, <1>9, <1>10, <1>11, <1>12,
     <1>13, <1>14, <1>15, <1>16, <1>17, <1>18, <1>19, <1>20, <1>21, <1>22, <1>23,
     <1>24, <1>25, <1>26, <1>27, <1>28, <1>29
     DEF MasterStep, InitializeStep, ResizeStep, LaunchStep

LEMMA TypeWorker == TypeInv /\ (\E e \in Slot : Worker(e)) => TypeInv'
<1>. SUFFICES ASSUME TypeInv, NEW e \in Slot, Worker(e) PROVE TypeInv'
  OBVIOUS
<1>. USE Members1, Members2
     DEF TypeInv, TypeOK, WaitsInLoop, WorkerLabel,
         frame, master, worker, history, shared, memory, pool, Step
<1>1. CASE Claim(e)
  <2>1. e \in Thread
    BY DEF Slot, Thread
  <2>. QED
    BY <1>1, <2>1 DEF Claim
<1>2. CASE Report(e)
  BY <1>2 DEF Report
<1>3. CASE CallFunction(e)
  <2>1. Enter[fn] \in WorkerLabel
    BY DEF Enter, Function
  <2>. QED
    BY <1>3, <2>1 DEF CallFunction
<1>4. CASE RunFunctor(e)
  BY <1>4 DEF RunFunctor
<1>5. CASE ResizeOwn(e)
  BY <1>5 DEF ResizeOwn
<1>6. CASE SleepLock(e)
  BY <1>6 DEF SleepLock, Thread
<1>7. CASE SleepUnlock(e)
  BY <1>7 DEF SleepUnlock
<1>8. CASE FanIn(e)
  <2>1. wi[e] < Fans(e) => wi[e] + 1 \in 0..MaxThreads
    BY FansBound DEF Fans
  <2>. QED
    BY <1>8, <2>1 DEF FanIn
<1>9. CASE SleepDeactivate(e)
  BY <1>9 DEF SleepDeactivate
<1>10. CASE Deactivate(e)
  BY <1>10 DEF Deactivate
<1>11. CASE WakeUp(e)
  BY <1>11 DEF WakeUp
<1>12. CASE Destroy(e)
  BY <1>12 DEF Destroy
<1>13. CASE Farewell(e)
  BY <1>13 DEF Farewell
<1>. QED
  BY <1>1, <1>2, <1>3, <1>4, <1>5, <1>6, <1>7, <1>8, <1>9, <1>10, <1>11, <1>12,
     <1>13 DEF Worker, Construct, Serve

LEMMA TypeNext == TypeInv /\ [Next]_vars => TypeInv'
<1>. SUFFICES ASSUME TypeInv, [Next]_vars PROVE TypeInv'
  OBVIOUS
<1>. USE Members1, Members2
     DEF TypeInv, TypeOK, WaitsInLoop, WorkerLabel,
         frame, master, worker, history, shared, memory, pool
<1>1. CASE ClaimFails
  BY <1>1 DEF ClaimFails
<1>2. CASE ClaimStray
  <2>1. Stray \in Slot /\ Stray \in Thread
    BY DEF Slot, Thread
  <2>. QED
    BY <1>2, <2>1 DEF ClaimStray
<1>3. CASE UNCHANGED vars
  BY <1>3 DEF vars
<1>. QED
  BY <1>1, <1>2, <1>3, TypeApplication, TypeMaster, TypeWorker DEF Next

(* Every variable keeps its type, however the application calls and however*)
(* the threads interleave.                                                 *)
THEOREM TypeCorrect == Spec => []TypeOK
<1>1. TypeInv => TypeOK
  BY DEF TypeInv
<1>. QED
  BY <1>1, TypeInit, TypeNext, PTL DEF Spec
-----------------------------------------------------------------------------
(* Inductive is an invariant, and what follows from it.                    *)

USE DEF Building, Serial, Reaping, Launching, Formed, IsProcess,
        Slot, Thread, Entry, Process, Stray, Nil
-----------------------------------------------------------------------------
(* The fan-in tree of a pool that is not empty.                            *)

LEMMA TreeFacts ==
  ASSUME NEW n \in 1..MaxThreads
  PROVE  /\ Subtree(0, n) = Entries(n)
         /\ \A e \in Entries(n) :
              /\ FanCount(e, n) \in 0..n
              /\ e \in Subtree(e, n)
              /\ \A i \in 0..(FanCount(e, n) - 1) :
                   FanChild(e, i) \in Entries(n) /\ e < FanChild(e, i)
              /\ \A d \in Subtree(e, n) :
                   d = e \/ \E i \in 0..(FanCount(e, n) - 1) : d \in Subtree(FanChild(e, i), n)
<1>1. IsFanTree(n)
  BY FanInIsATree
<1>2. \A e \in Entries(n) :
        Subtree(e, n) = {e} \cup UNION {Subtree(FanChild(e, i), n) :
                                          i \in 0..(FanCount(e, n) - 1)}
  BY <1>1 DEF IsFanTree, SubtreesNest
<1>3. \A e \in Entries(n) : e \in Subtree(e, n)
  BY <1>2
<1>4. \A e \in Entries(n) : \A d \in Subtree(e, n) :
        d = e \/ \E i \in 0..(FanCount(e, n) - 1) : d \in Subtree(FanChild(e, i), n)
  BY <1>2
<1>. QED
  BY <1>1, <1>3, <1>4 DEF IsFanTree, ChildrenAreLater, RootSpansPool

(* A pool that has threads is not too large, and an entry's fans are those *)
(* of the tree.                                                            *)
LEMMA PoolFacts ==
  ASSUME TypeInv, poolSize # 0
  PROVE  /\ poolSize \in 1..MaxThreads
         /\ \A e \in Entries(poolSize) : e \in Entry
         /\ 0 \in Entries(poolSize)
         /\ \A e \in Entries(poolSize) : Fans(e) = FanCount(e, poolSize)
<1>1. poolSize \in 1..MaxThreads
  BY DEF TypeInv, TypeOK
<1>2. 0 \in Entries(poolSize)
  BY <1>1 DEF Entries
<1>4. \A e \in Entries(poolSize) : e \in Entry
  BY <1>1 DEF Entries
<1>3. \A e \in Entries(poolSize) : Fans(e) = FanCount(e, poolSize)
  BY DEF Fans
<1>. QED
  BY <1>1, <1>2, <1>3, <1>4

(* What an entry is doing decides what it knows of its subtree.            *)
LEMMA DoneIsQuiet ==
  ASSUME TypeInv, poolSize # 0, NEW e \in Entries(poolSize), SubtreeDone(e)
  PROVE  Quiet(e) /\ ran[e] = 1
BY PoolFacts, TreeFacts DEF SubtreeDone

(* A thread that waited for all its children and is done has its subtree   *)
(* behind it.                                                              *)
LEMMA FanInDone ==
  ASSUME TypeInv, poolSize # 0, NEW e \in Entries(poolSize),
         Quiet(e), ran[e] = 1, 
         \A j \in 0..(Fans(e) - 1) : SubtreeDone(FanChild(e, j))
  PROVE  SubtreeDone(e)
BY PoolFacts, TreeFacts DEF SubtreeDone
-----------------------------------------------------------------------------
(* One step of one worker                                                  *)

Same(e) == /\ registry'[e] = registry[e] /\ state'[e] = state[e]
           /\ wpc'[e] = wpc[e] /\ wi'[e] = wi[e] /\ ran'[e] = ran[e]

(* A worker writes only words of its own and, while the pool is built or   *)
(* reaped, the state of the process.                                       *)
LEMMA WorkerFrame ==
  ASSUME TypeInv, NEW w \in Slot, Worker(w)
  PROVE  /\ UNCHANGED <<fn, pool, mpc, mi, frame>>
         /\ \A e \in Slot \ {w} : Same(e)
         /\ wpc[w] \notin {"report", "farewell"} => state'[Process] = state[Process]
<1>. USE DEF TypeInv, TypeOK, shared, memory, master, worker, history, Step, Same
<1>1. CASE Claim(w) \/ Report(w)
  BY <1>1 DEF Claim, Report
<1>2. CASE CallFunction(w) \/ RunFunctor(w) \/ ResizeOwn(w) \/ WakeUp(w)
  BY <1>2 DEF CallFunction, RunFunctor, ResizeOwn, WakeUp
<1>3. CASE SleepLock(w) \/ SleepUnlock(w) \/ SleepDeactivate(w)
  BY <1>3 DEF SleepLock, SleepUnlock, SleepDeactivate
<1>4. CASE FanIn(w)
  BY <1>4 DEF FanIn
<1>5. CASE Deactivate(w)
  BY <1>5 DEF Deactivate
<1>6. CASE Destroy(w) \/ Farewell(w)
  BY <1>6 DEF Destroy, Farewell
<1>. QED
  BY <1>1, <1>2, <1>3, <1>4, <1>5, <1>6 DEF Worker, Construct, Serve

(* Where a worker that can take a step is.                                 *)
LEMMA Whereabouts ==
  ASSUME TypeInv, Inductive, NEW w \in Slot, Worker(w)
  PROVE  /\ w = Stray \/ w \in Entries(poolSize)
         /\ wpc[w] = "report" => Building /\ ~newborn
         /\ wpc[w] \in {"destroy", "farewell"} => mpc = "reap_wait" /\ w = mi - 1
         /\ w \in Entries(poolSize) =>
              \/ Building /\ (wpc[w] \in {"report", "call", "deactivate"} \/ Claim(w))
              \/ mpc = "serial_wait" /\ w = mi - 1 /\ Resizing(w)
              \/ Launching /\ Working(w) /\ ~IsProcess(w)
              \/ mpc = "reap_wait" /\ w = mi - 1 /\ Dying(w)
<1>. USE DEF TypeInv, TypeOK, Inductive
<1>1. wpc[w] = "none" => Claim(w)
  BY DEF Worker, Construct, Serve, Claim, Report, CallFunction, RunFunctor, ResizeOwn,
         WakeUp, SleepLock, SleepUnlock, SleepDeactivate, FanIn, Deactivate, Destroy,
         Farewell, Step
<1>2. ~(wpc[w] = "wait" /\ state[w] = "Inactive") \/ Claim(w)
  BY DEF Worker, Construct, Serve, Claim, Report, CallFunction, RunFunctor, ResizeOwn,
         WakeUp, SleepLock, SleepUnlock, SleepDeactivate, FanIn, Deactivate, Destroy,
         Farewell, Step
<1>3. Claim(w) => Building /\ w \in Entries(poolSize)
  BY DEF Claim, BirthOK
<1>4. w = Stray \/ w \in Entries(poolSize)
  BY <1>1, <1>2, <1>3 DEF OutsideOK
<1>5. ASSUME w \in Entries(poolSize), ~Claim(w)
      PROVE  \/ Building /\ wpc[w] \in {"report", "call", "deactivate"}
             \/ mpc = "serial_wait" /\ w = mi - 1 /\ Resizing(w)
             \/ Launching /\ Working(w) /\ ~IsProcess(w)
             \/ mpc = "reap_wait" /\ w = mi - 1 /\ Dying(w)
  <2>1. poolSize # 0 /\ w \in Entry
    BY <1>5 DEF Entries
  <2>2. ~Quiet(w)
    BY <1>1, <1>2, <1>5 DEF Quiet
  <2>3. CASE Building
    BY <1>1, <1>2, <1>5, <2>3 DEF BuildOK, Newborn
  <2>4. CASE Serial
    BY <1>5, <2>2, <2>4 DEF SerialOK
  <2>5. CASE Launching
    BY <1>1, <1>5, <2>1, <2>2, <2>5, DoneIsQuiet DEF LaunchOK, Working
  <2>6. CASE Reaping
    BY <1>1, <1>5, <2>1, <2>2, <2>6 DEF ReapOK, Gone, Entries
  <2>7. CASE fn = "null" /\ ~Reaping
    BY <1>5, <2>1, <2>2, <2>7 DEF RestOK, ControlOK
  <2>. QED
    BY <2>3, <2>4, <2>5, <2>6, <2>7 DEF ControlOK, Function
<1>6. wpc[w] \in {"destroy", "farewell"} => mpc = "reap_wait" /\ w = mi - 1
  BY <1>3, <1>4, <1>5 DEF StrayOK, Resizing, Working, Dying, BirthOK, BuildOK, Newborn
<1>. QED
  BY <1>3, <1>4, <1>5, <1>6 DEF BirthOK
-----------------------------------------------------------------------------
(* The invariant and the steps of the workers                              *)

LEMMA WorkerControl ==
  ASSUME TypeInv, Inductive, NEW w \in Slot, Worker(w)
  PROVE  (ControlOK /\ RanOK /\ TableOK)'
<1>. USE WorkerFrame, Whereabouts, PoolFacts DEF Inductive, pool, frame, Same
<1>1. ControlOK'
  BY DEF ControlOK, First
<1>2. TableOK'
  <2>. SUFFICES ASSUME Formed, NEW e \in Entries(poolSize)
                PROVE  registry'[e] = registry[e]
    BY DEF TableOK
  <2>1. CASE e # w
    BY <2>1
  <2>2. CASE e = w
    <3>1. ~Building /\ ~Reaping /\ wpc[w] # "destroy"
      BY <2>2
    <3>2. Construct(w) \/ Serve(w) \/ Farewell(w)
      BY <3>1 DEF Worker, Destroy, Step
    <3>3. ~Claim(w)
      BY <3>1 DEF Claim, BirthOK
    <3>. QED
      BY <2>2, <3>2, <3>3
         DEF Construct, Serve, Report, CallFunction, RunFunctor, ResizeOwn, WakeUp,
             SleepLock, SleepUnlock, SleepDeactivate, FanIn, Deactivate, Farewell,
             shared
  <2>. QED
    BY <2>1, <2>2
<1>3. RanOK'
  <2>. SUFFICES ASSUME Formed, ~Launching, NEW e \in Entries(poolSize)
                PROVE  ran'[e] = ran[e]
    BY DEF RanOK
  <2>1. CASE e # w
    BY <2>1
  <2>2. CASE e = w
    <3>1. wpc[w] # "functor"
      BY <2>2 DEF Resizing
    <3>. QED
      BY <2>2, <3>1
         DEF Worker, Construct, Serve, Claim, Report, CallFunction, RunFunctor, ResizeOwn,
             WakeUp, SleepLock, SleepUnlock, SleepDeactivate, FanIn, Deactivate,
             Destroy, Farewell, Step, history
  <2>. QED
    BY <2>1, <2>2
<1>. QED
  BY <1>1, <1>2, <1>3

LEMMA WorkerBirth ==
  ASSUME TypeInv, Inductive, NEW w \in Slot, Worker(w)
  PROVE  BirthOK' /\ StrayOK' /\ OutsideOK' /\ ProcessOK'
<1>. USE WorkerFrame, Whereabouts, PoolFacts DEF Inductive, pool, frame, Same, TypeInv, TypeOK
<1>1. BirthOK'
  <2>1. CASE Claim(w)
    BY <2>1 DEF BirthOK, Claim, shared, master
  <2>2. CASE Report(w)
    BY <2>2 DEF BirthOK, Report, Step, shared, master
  <2>3. CASE ~Claim(w) /\ ~Report(w)
    <3>0. CallFunction(w) => newborn' = newborn /\ wpc'[w] # "report"
      BY DEF CallFunction, Enter, Function, Step
    <3>1. newborn' = newborn /\ (wpc'[w] = "report" => wpc[w] = "report")
      BY <2>3, <3>0
         DEF Worker, Construct, Serve, RunFunctor, ResizeOwn,
             WakeUp, SleepLock, SleepUnlock, SleepDeactivate, FanIn, Deactivate,
             Destroy, Farewell, Step, worker
    <3>2. wpc[w] # "farewell" => state'[Process] = state[Process]
      BY <2>3
         DEF Worker, Construct, Serve, CallFunction, RunFunctor, ResizeOwn,
             WakeUp, SleepLock, SleepUnlock, SleepDeactivate, FanIn, Deactivate,
             Destroy, Farewell, Step, shared
    <3>. QED
      BY <3>1, <3>2 DEF BirthOK
  <2>. QED
    BY <2>1, <2>2, <2>3
<1>2. StrayOK'
  <2>1. CASE w # Stray
    BY <2>1 DEF StrayOK
  <2>2. CASE w = Stray
    <3>1. ~Claim(w) /\ ~Destroy(w) /\ ~Farewell(w)
      BY <2>2 DEF Claim, Destroy, Farewell, Step, StrayOK, Entries
    <3>2. CASE FanIn(w) \/ SleepLock(w) \/ SleepUnlock(w)
      BY <2>2, <3>2 DEF StrayOK, FanIn, SleepLock, SleepUnlock, Step, shared
    <3>3. CASE Report(w) \/ RunFunctor(w) \/ ResizeOwn(w) \/ WakeUp(w)
      BY <2>2, <3>3 DEF StrayOK, State, Report, RunFunctor, ResizeOwn, WakeUp, Step, shared
    <3>4. CASE CallFunction(w)
      BY <2>2, <3>4 DEF StrayOK, CallFunction, Enter, Function, Step, shared
    <3>5. CASE SleepDeactivate(w) \/ Deactivate(w)
      BY <2>2, <3>5 DEF StrayOK, SleepDeactivate, Deactivate, Step
    <3>. QED
      BY <3>1, <3>2, <3>3, <3>4, <3>5 DEF Worker, Construct, Serve
  <2>. QED
    BY <2>1, <2>2
<1>3. OutsideOK'
  BY DEF OutsideOK
<1>4. ProcessOK'
  BY DEF ProcessOK
<1>. QED
  BY <1>1, <1>2, <1>3, <1>4

(* While the pool is built: a worker moves through its constructor.        *)
LEMMA WorkerBuild ==
  ASSUME TypeInv, Inductive, NEW w \in Slot, Worker(w)
  PROVE  BuildOK'
<1>. USE WorkerFrame, Whereabouts DEF Inductive, pool, frame, Same, TypeInv, TypeOK
<1>. SUFFICES ASSUME Building, NEW e \in Entries(poolSize)
              PROVE  /\ Newborn(e)' /\ ran'[e] = 0
                     /\ mpc = "settle" /\ begin <= e /\ e < mi =>
                          IF registry'[e] = Nil THEN failed ELSE Quiet(e)'
  BY DEF BuildOK
<1>1. ~inPool /\ fn = "noop" /\ e \in Entry
  BY PoolFacts DEF ControlOK
<1>2. CASE e # w
  BY <1>1, <1>2 DEF BuildOK, Newborn, Quiet
<1>3. CASE Claim(w) /\ e = w
  BY <1>1, <1>3 DEF BuildOK, BirthOK, Newborn, Claim, history
<1>4. CASE ~Claim(w) /\ e = w
  <2>1. /\ Newborn(w) /\ ran[w] = 0 /\ registry[w] = w
        /\ wpc[w] \in {"report", "call", "deactivate"}
    BY <1>1, <1>4 DEF BuildOK, Newborn, Resizing
  <2>2. Report(w) \/ CallFunction(w) \/ Deactivate(w)
    BY <1>4, <2>1
       DEF Worker, Construct, Serve, RunFunctor, ResizeOwn, WakeUp, SleepLock, SleepUnlock,
           SleepDeactivate, FanIn, Destroy, Farewell, Step
  <2>. QED
    BY <1>1, <1>4, <2>1, <2>2
       DEF BuildOK, Newborn, Quiet, Report, CallFunction, Enter, Deactivate, Step, shared,
           history
<1>. QED
  BY <1>2, <1>3, <1>4

(* At rest nobody moves; in execute_serial, the worker that was called.    *)
LEMMA WorkerRest ==
  ASSUME TypeInv, Inductive, NEW w \in Slot, Worker(w)
  PROVE  (RestOK /\ SerialOK)'
<1>. USE WorkerFrame, Whereabouts DEF Inductive, pool, frame, Same, TypeInv, TypeOK
<1>1. RestOK'
  <2>. SUFFICES ASSUME Formed, fn = "null", NEW e \in Entries(poolSize)
                PROVE  Quiet(e)'
    BY DEF RestOK
  <2>1. e # w /\ wpc[w] \notin {"report", "farewell"} /\ e \in Entry
    BY PoolFacts DEF ControlOK
  <2>. QED
    BY <2>1 DEF RestOK, Quiet
<1>2. SerialOK'
  <2>. SUFFICES ASSUME Serial, NEW e \in Entries(poolSize)
                PROVE  Quiet(e)' \/ (mpc = "serial_wait" /\ e = mi - 1 /\ Resizing(e)')
    BY DEF SerialOK
  <2>1. wpc[w] \notin {"report", "farewell"} /\ e \in Entry /\ poolSize # 0 /\ fn = "resize"
    BY PoolFacts DEF ControlOK, Entries
  <2>2. CASE e # w
    BY <2>1, <2>2 DEF SerialOK, Quiet, Resizing
  <2>3. CASE e = w
    <3>1. mpc = "serial_wait" /\ w = mi - 1 /\ Resizing(w) /\ ~IsProcess(w)
      BY <2>1, <2>3 DEF ControlOK, First
    <3>2. CallFunction(w) \/ ResizeOwn(w) \/ Deactivate(w) \/ WakeUp(w)
      BY <3>1 DEF Resizing, Worker, Construct, Serve, RunFunctor, SleepLock, SleepUnlock,
                  SleepDeactivate, FanIn, Destroy, Farewell, Step, Claim, Report, BirthOK
    <3>. QED
      BY <2>1, <2>3, <3>1, <3>2
         DEF Resizing, Quiet, CallFunction, Enter, ResizeOwn, Deactivate, WakeUp, Step, shared
  <2>. QED
    BY <2>2, <2>3
<1>. QED
  BY <1>1, <1>2

(* A launch: what is done stays done.                                      *)
LEMMA DoneStays ==
  ASSUME TypeInv, Inductive, NEW w \in Slot, Worker(w), Launching,
         NEW e \in Entries(poolSize), SubtreeDone(e)
  PROVE  SubtreeDone(e)'
<1>. USE WorkerFrame, Whereabouts DEF Inductive, pool, frame, Same
<1>. SUFFICES ASSUME NEW d \in Subtree(e, poolSize) PROVE Quiet(d)' /\ ran'[d] = 1
  BY DEF SubtreeDone
<1>1. d \in Entry /\ d \in Entries(poolSize) /\ Quiet(d) /\ ran[d] = 1
  BY PoolFacts DEF SubtreeDone, Subtree, ControlOK
<1>2. d # w /\ wpc[w] \notin {"report", "farewell"}
  BY <1>1 DEF Quiet, Working, Waited, ControlOK
<1>. QED
  BY <1>1, <1>2 DEF Quiet

LEMMA WorkerLaunch ==
  ASSUME TypeInv, Inductive, NEW w \in Slot, Worker(w)
  PROVE  (LaunchOK /\ RootOK)'
<1>. USE WorkerFrame, Whereabouts, PoolFacts, TreeFacts, DoneStays
     DEF Inductive, pool, frame, Same, TypeInv, TypeOK
<1>. SUFFICES ASSUME Launching PROVE (LaunchOK /\ RootOK)'
  BY DEF LaunchOK, RootOK, ControlOK
<1>1. /\ poolSize # 0 /\ ~Building /\ ~Reaping
      /\ mpc # "serial_wait" /\ wpc[w] \notin {"report", "farewell"}
  BY DEF ControlOK
<1>2. mpc = "clear" => SubtreeDone(0)'
  BY <1>1 DEF RootOK
<1>3. ASSUME NEW e \in Entries(poolSize), NEW i \in Int, Waited(e, i)
      PROVE  \A j \in 0..(i - 1) : SubtreeDone(FanChild(e, j))'
  BY <1>1, <1>3 DEF Waited
<1>4. \A e \in Entries(poolSize) : e # w /\ Quiet(e) => Quiet(e)'
  BY <1>1 DEF Quiet
<1>5. \A e \in Entries(poolSize) : Fans(e) \in 0..poolSize /\ Fans(e)' = Fans(e)
  <2>1. \A e \in Entries(poolSize) : Fans(e)' = Fans(e)
    BY DEF Fans
  <2>. QED
    BY <1>1, <2>1
<1>6. \A e \in Entries(poolSize) : e # w /\ Working(e) => Working(e)'
  <2>. SUFFICES ASSUME NEW e \in Entries(poolSize), e # w, Working(e) PROVE Working(e)'
    OBVIOUS
  <2>1. e \in Entry
    BY <1>1
  <2>2. ran'[e] = ran[e]
    BY <2>1
  <2>3. ASSUME NEW i \in Int, Waited(e, i) PROVE Waited(e, i)'
    <3>1. ran[e] = 1 /\ i \in 0..Fans(e)
      BY <2>3 DEF Waited
    <3>2. i \in 0..(Fans(e)')
      BY <1>5, <3>1
    <3>3. \A j \in 0..(i - 1) : SubtreeDone(FanChild(e, j))'
      BY <1>3, <2>3
    <3>. QED
      BY <2>2, <3>1, <3>2, <3>3 DEF Waited
  <2>. QED
    BY <1>1, <2>1, <2>3 DEF Working
<1>7. ASSUME w \in Entries(poolSize)
      PROVE  ~(mpc = "activate" /\ w < mi) /\ (SubtreeDone(w)' \/ Working(w)')
  <2>1. /\ Working(w) /\ ~IsProcess(w) /\ state[w] = "Active" /\ w \in Entry
        /\ CallFunction(w) \/ RunFunctor(w) \/ FanIn(w) \/ Deactivate(w) \/ WakeUp(w)
    BY <1>1, <1>7
       DEF Working, Worker, Construct, Serve, Claim, Report, ResizeOwn, SleepLock,
           SleepUnlock, SleepDeactivate, Destroy, Farewell, Step, BirthOK
  <2>2. ~(mpc = "activate" /\ w < mi)
    BY <1>7, <2>1 DEF LaunchOK, Quiet
  <2>3. CASE CallFunction(w)
    BY <1>1, <2>1, <2>2, <2>3 DEF Working, CallFunction, Enter, Step, shared, history
  <2>4. CASE WakeUp(w)
    BY <1>1, <2>1, <2>2, <2>4 DEF Working, WakeUp, Step, shared, history
  <2>5. CASE RunFunctor(w)
    <3>1. wpc'[w] = "fan_in" /\ wi'[w] = 0 /\ ran'[w] = 1 /\ state'[w] = "Active"
      BY <2>1, <2>5 DEF Working, RunFunctor, Step, shared
    <3>2. Waited(w, wi[w])'
      BY <1>5, <1>7, <3>1 DEF Waited
    <3>. QED
      BY <2>1, <2>2, <3>1, <3>2 DEF Working
  <2>6. CASE FanIn(w)
    <3>. DEFINE c == FanChild(w, wi[w])
    <3>1. wpc[w] = "fan_in" /\ Waited(w, wi[w]) /\ wi[w] < Fans(w)
      BY <2>1, <2>6 DEF Working, FanIn
    <3>2. c \in Entries(poolSize) /\ c \in Entry /\ w < c
      <4>1. c \in Entries(poolSize) /\ w < c
        BY <1>1, <1>7, <3>1 DEF Waited
      <4>. QED
        BY <1>1, <4>1
    <3>3. ~IsProcess(c) /\ registry[c] = c /\ c # Nil
      BY <1>1, <2>1, <3>2 DEF TableOK
    <3>4. /\ state[c] # "Active" /\ wi'[w] = wi[w] + 1 /\ wpc'[w] = "fan_in"
          /\ state'[w] = "Active" /\ ran'[w] = ran[w]
      BY <2>1, <2>6, <3>1, <3>3 DEF FanIn, ChildDone, NotActive, shared, history
    <3>5. SubtreeDone(c)
      <4>1. ~(mpc = "activate" /\ c < mi)
        BY <2>2, <3>2 DEF Entries
      <4>. QED
        BY <3>2, <3>3, <3>4, <4>1 DEF LaunchOK, Working
    <3>6. \A j \in 0..wi[w] : SubtreeDone(FanChild(w, j))'
      <4>1. \A j \in 0..(wi[w] - 1) : SubtreeDone(FanChild(w, j))'
        BY <1>3, <1>7, <2>1, <3>1
      <4>. QED
        BY <2>1, <3>2, <3>5, <4>1
    <3>7. Waited(w, wi[w])'
      BY <1>5, <1>7, <2>1, <3>1, <3>4, <3>6 DEF Waited
    <3>. QED
      BY <2>1, <2>2, <3>4, <3>7 DEF Working
  <2>7. CASE Deactivate(w)
    <3>1. wpc[w] = "fan_in" /\ Waited(w, wi[w]) /\ wi[w] >= Fans(w)
      BY <2>1, <2>7 DEF Working, Deactivate, Step
    <3>2. Quiet(w)' /\ ran'[w] = 1
      BY <2>1, <2>7, <3>1 DEF Quiet, Deactivate, Step, Waited, history
    <3>3. \A j \in 0..(Fans(w) - 1) : SubtreeDone(FanChild(w, j))'
      <4>1. wi[w] = Fans(w)
        <5>1. wi[w] \in 0..Fans(w) /\ Fans(w) \in Int /\ wi[w] >= Fans(w)
          BY <1>5, <1>7, <3>1 DEF Waited
        <5>2. \A m, n \in Int : m \in 0..n /\ m >= n => m = n
          OBVIOUS
        <5>. QED
          BY <5>1, <5>2
      <4>. QED
        BY <1>3, <1>7, <2>1, <3>1, <4>1
    <3>4. SubtreeDone(w)'
      BY <1>1, <1>7, <3>2, <3>3 DEF SubtreeDone
    <3>. QED
      BY <2>2, <3>4
  <2>. QED
    BY <2>1, <2>3, <2>4, <2>5, <2>6, <2>7
<1>8. \A e \in Entries(poolSize) : e # w =>
        IF mpc = "activate" /\ e < mi THEN Quiet(e)' /\ ran'[e] = 0
                                      ELSE SubtreeDone(e)' \/ Working(e)'
  BY <1>1, <1>4, <1>6 DEF LaunchOK
<1>9. LaunchOK'
  BY <1>7, <1>8 DEF LaunchOK
<1>10. w # 0 \/ ~inPool
  BY <1>1
<1>11. RootOK'
  BY <1>1, <1>2, <1>6, <1>10 DEF RootOK
<1>. QED
  BY <1>9, <1>11

(* Only the worker that was told to terminate does.                        *)
LEMMA WorkerReap ==
  ASSUME TypeInv, Inductive, NEW w \in Slot, Worker(w)
  PROVE  ReapOK'
<1>. USE WorkerFrame, Whereabouts DEF Inductive, pool, frame, Same, TypeInv, TypeOK
<1>. SUFFICES ASSUME Reaping, poolSize # 0, NEW e \in Entries(poolSize)
              PROVE  /\ IsProcess(e) => /\ wpc'[e] = "none" /\ registry'[e] = Process
                                        /\ mpc = "reap" => state'[Process] = "Inactive"
                     /\ mpc = "reap_wait" /\ e = mi - 1 => Dying(e)'
                     /\ mpc = "reap" /\ e = mi - 1 /\ ~IsProcess(e)
                          => Quiet(e)' /\ registry'[e] = e
                     /\ e < mi - 1 /\ ~IsProcess(e) => Quiet(e)' /\ registry'[e] = e
                     /\ e >= mi /\ ~IsProcess(e) => Gone(e)'
  BY DEF ReapOK
<1>1. e \in Entry /\ ~Building /\ ~Launching /\ wpc[w] # "report"
  BY PoolFacts DEF ControlOK
<1>2. w = Stray \/ (mpc = "reap_wait" /\ w = mi - 1 /\ Dying(w))
  BY <1>1
<1>3. CASE e # w
  <2>1. Dying(e) => w = Stray \/ mpc # "reap_wait" \/ e # mi - 1
    BY <1>2, <1>3
  <2>2. mpc = "reap" => state'[Process] = state[Process]
    BY <1>1
  <2>3. w = Stray => state'[Process] = state[Process]
    BY <1>1 DEF StrayOK
  <2>. QED
    BY <1>1, <1>3, <2>1, <2>2, <2>3 DEF ReapOK, Quiet, Dying, Gone
<1>4. CASE e = w
  <2>1. mpc = "reap_wait" /\ w = mi - 1 /\ Dying(w) /\ ~IsProcess(w)
    BY <1>1, <1>2, <1>4 DEF ControlOK, First
  <2>2. WakeUp(w) \/ Destroy(w) \/ Farewell(w)
    BY <1>1, <2>1
       DEF Dying, Worker, Construct, Serve, Claim, Report, CallFunction, RunFunctor,
           ResizeOwn, SleepLock, SleepUnlock, SleepDeactivate, FanIn, Deactivate, Step,
           BirthOK
  <2>. QED
    BY <1>1, <1>4, <2>1, <2>2 DEF Dying, WakeUp, Destroy, Farewell, Step, shared
<1>. QED
  BY <1>3, <1>4

LEMMA WorkerInductive ==
  TypeInv /\ Inductive /\ (\E w \in Slot : Worker(w)) => Inductive'
BY WorkerControl, WorkerBirth, WorkerBuild, WorkerRest, WorkerLaunch, WorkerReap
   DEF Inductive
-----------------------------------------------------------------------------
(* The invariant and the steps of the process                              *)

(* no step of sleep or wake is enabled                                     *)
LEMMA MasterCases ==
  ASSUME Inductive, MasterStep
  PROVE  \/ InitializeStep \/ FenceWait \/ FenceClear \/ ResizeStep \/ LaunchStep
         \/ Reap \/ ReapWait \/ FinalizeEnds
BY DEF MasterStep, Inductive, ControlOK, SleepBegins, WakeLock, WakeUnlock

LEMMA MasterControl ==
  ASSUME TypeInv, Inductive, MasterStep
  PROVE  ControlOK'
<1>. USE PoolFacts
     DEF Inductive, TypeInv, TypeOK, WaitsInLoop, ControlOK, First, Goto,
         shared, memory, pool, worker, history, frame
<1>1. CASE InitializeStep
  BY <1>1 DEF InitializeStep, SpawnWorks, SpawnFails, SpawnReported, SpawnedAll, Settle,
              InitializeFails, PoolIsUp
<1>2. CASE FenceWait \/ FenceClear
  BY <1>2 DEF FenceWait, FenceClear, TableOK
<1>3. CASE ResizeStep
  <2>1. CASE ResizeScratch \/ ResizeNothing \/ ResizeThrows \/ ResizeStart
    BY <2>1 DEF ResizeScratch, ResizeNothing, ResizeThrows, ResizeStart, AfterResize, Function
  <2>2. CASE SerialActivate
    BY <2>2 DEF SerialActivate, TableOK, Entries
  <2>3. CASE SerialWait
    BY <2>3 DEF SerialWait
  <2>4. CASE SerialEnd
    BY <2>4 DEF SerialEnd, AfterResize
  <2>. QED
    BY <1>3, <2>1, <2>2, <2>3, <2>4 DEF ResizeStep
<1>4. CASE LaunchStep
  <2>1. CASE StartThrows \/ Start \/ ProcessRunsFunctor \/ ProcessDeactivate
    BY <2>1 DEF StartThrows, Start, ProcessRunsFunctor, ProcessDeactivate, Function
  <2>2. CASE Activate
    BY <2>2 DEF Activate, ActivatedBy, TableOK, Entries
  <2>3. CASE Activated
    BY <2>3 DEF Activated
  <2>4. CASE ProcessFanIn
    <3>1. FanChild(0, mi) \in Entries(poolSize) /\ FanChild(0, mi) > 0
      BY <2>4, TreeFacts DEF ProcessFanIn
    <3>2. registry[FanChild(0, mi)] # Nil
      BY <2>4, <3>1 DEF ProcessFanIn, TableOK, Entries
    <3>. QED
      BY <2>4, <3>2 DEF ProcessFanIn
  <2>. QED
    BY <1>4, <2>1, <2>2, <2>3, <2>4 DEF LaunchStep
<1>5. CASE Reap \/ ReapWait
  BY <1>5 DEF Reap, ReapWait, MoreToReap
<1>6. CASE FinalizeEnds
  BY <1>6 DEF FinalizeEnds, Function
<1>. QED
  BY <1>1, <1>2, <1>3, <1>4, <1>5, <1>6, MasterCases

(* Births, strays and orphans                                              *)
LEMMA MasterBirth ==
  ASSUME TypeInv, Inductive, MasterStep
  PROVE  (BirthOK /\ StrayOK)' /\ OutsideOK'
<1>. USE PoolFacts
     DEF Inductive, TypeInv, TypeOK, WaitsInLoop, ControlOK, First, Goto,
         shared, memory, pool, worker, history, frame,
         BirthOK, StrayOK, OutsideOK, TableOK, ReapOK, Entries
<1>1. CASE InitializeStep
  <2>1. CASE SpawnWorks \/ SpawnFails \/ SpawnReported \/ SpawnedAll \/ Settle
    BY <2>1 DEF SpawnWorks, SpawnFails, SpawnReported, SpawnedAll, Settle
  <2>2. CASE InitializeFails \/ PoolIsUp
    BY <2>2 DEF InitializeFails, PoolIsUp, BuildOK, Newborn, Quiet
  <2>. QED
    BY <1>1, <2>1, <2>2 DEF InitializeStep
<1>2. CASE FenceWait \/ FenceClear
  BY <1>2 DEF FenceWait, FenceClear
<1>3. CASE ResizeStep
  BY <1>3 DEF ResizeStep, ResizeScratch, ResizeNothing, ResizeThrows, ResizeStart,
              SerialActivate, SerialWait, SerialEnd
<1>4. CASE LaunchStep
  BY <1>4 DEF LaunchStep, StartThrows, Start, Activate, ActivatedBy, Activated,
              ProcessRunsFunctor, ProcessFanIn, ProcessDeactivate
<1>5. CASE Reap \/ ReapWait
  BY <1>5 DEF Reap, ReapWait, MoreToReap, Reaped, Dying
<1>6. CASE FinalizeEnds
  BY <1>6 DEF FinalizeEnds, MoreToReap, Gone
<1>. QED
  BY <1>1, <1>2, <1>3, <1>4, <1>5, <1>6, MasterCases

(* The pool while it is built, and the pool that has been                  *)
LEMMA MasterBuild ==
  ASSUME TypeInv, Inductive, MasterStep
  PROVE  BuildOK' /\ TableOK' /\ RanOK' /\ RestOK'
<1>. USE PoolFacts
     DEF Inductive, TypeInv, TypeOK, WaitsInLoop, ControlOK, First, Goto,
         shared, memory, pool, worker, history, frame,
         BuildOK, TableOK, RanOK, RestOK, Newborn, Quiet
<1>1. CASE SpawnWorks \/ SpawnFails \/ SpawnReported \/ SpawnedAll
  BY <1>1 DEF SpawnWorks, SpawnFails, SpawnReported, SpawnedAll, BirthOK
<1>2. CASE Settle
  <2>1. TableOK' /\ RanOK' /\ RestOK'
    BY <1>2 DEF Settle
  <2>2. ASSUME NEW e \in Entries(poolSize), begin <= e, e <= mi
        PROVE  IF registry[e] = Nil THEN failed' ELSE Quiet(e)
    <3>1. e \in Entry /\ ~inPool /\ e \in Int /\ mi \in Int
      BY <1>2 DEF Settle
    <3>2. CASE e < mi
      BY <1>2, <2>2, <3>1, <3>2 DEF Settle
    <3>3. CASE e = mi
      <4>1. CASE registry[e] = Nil
        BY <1>2, <3>3, <4>1 DEF Settle, Missing
      <4>2. CASE registry[e] # Nil
        BY <1>2, <3>1, <3>3, <4>2 DEF Settle, Settled, NotActive
      <4>. QED
        BY <4>1, <4>2
    <3>. QED
      BY <2>2, <3>1, <3>2, <3>3
  <2>3. BuildOK'
    BY <1>2, <2>2 DEF Settle, Entries
  <2>. QED
    BY <2>1, <2>3
<1>3. CASE InitializeFails
  BY <1>3 DEF InitializeFails
<1>4. CASE PoolIsUp
  <2>1. \A e \in Entries(poolSize) : e >= begin =>
          registry[e] = e /\ state[e] = "Inactive" /\ wpc[e] = "wait"
    BY <1>4 DEF PoolIsUp, Entries
  <2>2. (begin = 1 => wpc[0] = "none") /\ (inPool' <=> begin = 1)
    <3>1. begin = 1 => wpc[0] = "none"
      BY <1>4 DEF PoolIsUp
    <3>2. inPool' <=> begin = 1
      BY <1>4, Zenon DEF PoolIsUp
    <3>. QED
      BY <3>1, <3>2
  <2>3. BuildOK' /\ RanOK'
    BY <1>4 DEF PoolIsUp
  <2>4. TableOK'
    BY <1>4, <2>1, <2>2 DEF PoolIsUp, Entries
  <2>5. RestOK'
    BY <1>4, <2>1, <2>2 DEF PoolIsUp, Entries
  <2>. QED
    BY <2>3, <2>4, <2>5
<1>5. CASE FenceWait
  BY <1>5 DEF FenceWait
<1>6. CASE FenceClear
  <2>1. Launching => \A e \in Entries(poolSize) : Quiet(e) /\ ran[e] = 1
    BY <1>6, TreeFacts DEF FenceClear, RootOK, SubtreeDone
  <2>2. poolSize # 0 => fn = "null" \/ Launching
    BY <1>6 DEF FenceClear, Function
  <2>. QED
    BY <1>6, <2>1, <2>2 DEF FenceClear
<1>7. CASE ResizeStep
  <2>1. CASE ResizeScratch \/ ResizeNothing \/ ResizeThrows \/ ResizeStart
    BY <2>1 DEF ResizeScratch, ResizeNothing, ResizeThrows, ResizeStart, AfterResize, Function
  <2>2. CASE SerialActivate \/ SerialWait
    BY <2>2 DEF SerialActivate, SerialWait
  <2>3. CASE SerialEnd
    BY <2>3 DEF SerialEnd, SerialOK, AfterResize
  <2>. QED
    BY <1>7, <2>1, <2>2, <2>3 DEF ResizeStep
<1>8. CASE LaunchStep
  BY <1>8 DEF LaunchStep, StartThrows, Start, Activate, ActivatedBy, Activated,
              ProcessRunsFunctor, ProcessFanIn, ProcessDeactivate
<1>9. CASE Reap \/ ReapWait \/ FinalizeEnds
  BY <1>9 DEF Reap, ReapWait, FinalizeEnds
<1>. QED
  BY <1>1, <1>2, <1>3, <1>4, <1>5, <1>6, <1>7, <1>8, <1>9, MasterCases
     DEF InitializeStep

LEMMA MasterSerial ==
  ASSUME TypeInv, Inductive, MasterStep
  PROVE  SerialOK' /\ ReapOK' /\ ProcessOK'
<1>. USE PoolFacts
     DEF Inductive, TypeInv, TypeOK, WaitsInLoop, ControlOK, First, Goto,
         shared, memory, pool, worker, history, frame,
         SerialOK, ReapOK, ProcessOK, RestOK, TableOK, Quiet
<1>1. CASE InitializeStep
  BY <1>1 DEF InitializeStep, SpawnWorks, SpawnFails, SpawnReported, SpawnedAll, Settle,
              InitializeFails, PoolIsUp
<1>2. CASE FenceWait \/ FenceClear
  BY <1>2 DEF FenceWait, FenceClear
<1>3. CASE ResizeScratch \/ ResizeNothing \/ ResizeThrows \/ ResizeStart
  BY <1>3 DEF ResizeScratch, ResizeNothing, ResizeThrows, ResizeStart, AfterResize, Function,
              Entries
<1>4. CASE SerialActivate
  BY <1>4 DEF SerialActivate, Resizing, Entries
<1>5. CASE SerialWait
  BY <1>5 DEF SerialWait, SerialDone, NotActive, Resizing, Entries
<1>6. CASE SerialEnd
  BY <1>6 DEF SerialEnd, AfterResize, Entries
<1>7. CASE LaunchStep
  BY <1>7 DEF LaunchStep, StartThrows, Start, Activate, ActivatedBy, Activated,
              ProcessRunsFunctor, ProcessFanIn, ProcessDeactivate, Entries
<1>8. CASE Reap
  <2>1. SerialOK' /\ ProcessOK'
    BY <1>8 DEF Reap
  <2>2. /\ poolSize # 0 /\ mi - 1 \in Entries(poolSize) /\ ~IsProcess(mi - 1)
        /\ registry[mi - 1] = mi - 1 /\ Quiet(mi - 1) /\ state[Process] = "Inactive"
    BY <1>8 DEF Reap, MoreToReap, Entries
  <2>3. ReapOK'
    BY <1>8, <2>2 DEF Reap, Dying, Gone, Entries
  <2>. QED
    BY <2>1, <2>3
<1>9. CASE ReapWait
  BY <1>9 DEF ReapWait, Reaped, Dying, Gone, Entries
<1>10. CASE FinalizeEnds
  BY <1>10 DEF FinalizeEnds
<1>. QED
  BY <1>1, <1>2, <1>3, <1>4, <1>5, <1>6, <1>7, <1>8, <1>9, <1>10, MasterCases
     DEF ResizeStep

(* A launch: the process's state and count are its own, and it activates   *)
(* only threads that have not run.                                         *)
Kept ==
  /\ UNCHANGED <<pool, fn, registry, wpc, wi>>
  /\ \A e \in Entries(poolSize) : SubtreeDone(e) => SubtreeDone(e)'
  /\ \A e \in Entries(poolSize) : \A i \in Int :
       Waited(e, i) => \A j \in 0..(i - 1) : SubtreeDone(FanChild(e, j))'
  /\ \A e \in Entries(poolSize) : Fans(e)' = Fans(e) /\ Fans(e) \in 0..poolSize
  /\ \A e \in Entries(poolSize) :
       ~IsProcess(e) => /\ ran'[e] = ran[e]
                        /\ state'[e] = state[e] /\ Working(e) => Working(e)'

LEMMA LaunchFrame ==
  ASSUME TypeInv, Inductive, Launching, poolSize # 0,
         FenceWait \/ Activate \/ Activated \/ ProcessRunsFunctor \/ ProcessFanIn
                   \/ ProcessDeactivate
  PROVE  Kept
<1>. USE PoolFacts, TreeFacts
     DEF Inductive, TypeInv, TypeOK, ControlOK, shared, memory, pool, worker, history, frame
<1>1. UNCHANGED <<pool, fn, registry, wpc, wi>>
  BY DEF FenceWait, Activate, Activated, ProcessRunsFunctor, ProcessFanIn, ProcessDeactivate
<1>2. \A e \in Entries(poolSize) : ~IsProcess(e) => ran'[e] = ran[e]
  BY DEF FenceWait, Activate, Activated, ProcessRunsFunctor, ProcessFanIn, ProcessDeactivate
<1>3. ASSUME NEW d \in Entries(poolSize), Quiet(d), ran[d] = 1
      PROVE  Quiet(d)' /\ ran'[d] = 1
  <2>1. CASE FenceWait \/ Activated \/ ProcessFanIn \/ ProcessDeactivate
    BY <1>1, <1>3, <2>1 DEF Quiet, FenceWait, Activated, ProcessFanIn, ProcessDeactivate
  <2>2. CASE ProcessRunsFunctor
    BY <1>1, <1>3, <2>2 DEF Quiet, ProcessRunsFunctor, RootOK, Working
  <2>3. CASE Activate
    <3>1. d # mi - 1 /\ d \in Entry
      BY <1>3, <2>3 DEF Activate, LaunchOK
    <3>2. mi - 1 \in Entries(poolSize) /\ mi - 1 \in Entry
      BY <2>3 DEF Activate, Entries
    <3>3. registry[mi - 1] = IF IsProcess(mi - 1) THEN Process ELSE mi - 1
      BY <2>3, <3>2 DEF Activate, TableOK
    <3>4. state'[IF IsProcess(d) THEN Process ELSE d]
            = state[IF IsProcess(d) THEN Process ELSE d]
      BY <2>3, <3>1, <3>2, <3>3 DEF Activate, ActivatedBy
    <3>5. ran' = ran
      BY <2>3 DEF Activate
    <3>. QED
      BY <1>1, <1>3, <3>4, <3>5 DEF Quiet
  <2>. QED
    BY <2>1, <2>2, <2>3
<1>4. \A e \in Entries(poolSize) : SubtreeDone(e) => SubtreeDone(e)'
  BY <1>1, <1>3 DEF SubtreeDone, Subtree
<1>5. ASSUME NEW e \in Entries(poolSize), NEW i \in Int, Waited(e, i)
      PROVE  \A j \in 0..(i - 1) : SubtreeDone(FanChild(e, j))'
  BY <1>4, <1>5 DEF Waited
<1>6. \A e \in Entries(poolSize) : Fans(e)' = Fans(e) /\ Fans(e) \in 0..poolSize
  <2>1. \A e \in Entries(poolSize) : Fans(e)' = Fans(e)
    BY <1>1 DEF Fans
  <2>. QED
    BY <2>1
<1>7. ASSUME NEW e \in Entries(poolSize), ~IsProcess(e), state'[e] = state[e], Working(e)
      PROVE  Working(e)'
  <2>1. ran'[e] = ran[e] /\ e \in Entry
    BY <1>2, <1>7
  <2>2. \A i \in Int : Waited(e, i) => Waited(e, i)'
    BY <1>5, <1>6, <2>1 DEF Waited
  <2>. QED
    BY <1>1, <1>7, <2>1, <2>2 DEF Working
<1>. QED
  BY <1>1, <1>2, <1>4, <1>5, <1>6, <1>7 DEF Kept

LEMMA MasterLaunch ==
  ASSUME TypeInv, Inductive, MasterStep
  PROVE  (LaunchOK /\ RootOK)'
<1>. USE PoolFacts
     DEF Inductive, TypeInv, TypeOK, WaitsInLoop, ControlOK, Goto,
         shared, memory, pool, worker, history, frame
<1>1. CASE InitializeStep \/ FenceClear \/ ResizeStep \/ StartThrows \/ Reap \/ ReapWait
           \/ FinalizeEnds
  <2>1. fn' # "functor" /\ mpc' \notin {"activate", "functor", "fan_in"}
    <3>1. CASE InitializeStep
      BY <3>1 DEF InitializeStep, SpawnWorks, SpawnFails, SpawnReported, SpawnedAll, Settle,
                  InitializeFails, PoolIsUp
    <3>2. CASE FenceClear
      BY <3>2 DEF FenceClear
    <3>3. CASE ResizeStep
      BY <3>3 DEF ResizeStep, ResizeScratch, ResizeNothing, ResizeThrows, ResizeStart,
                  SerialActivate, SerialWait, SerialEnd, AfterResize
    <3>4. CASE StartThrows
      BY <3>4 DEF StartThrows
    <3>5. CASE Reap \/ ReapWait \/ FinalizeEnds
      BY <3>5 DEF Reap, ReapWait, FinalizeEnds
    <3>. QED
      BY <1>1, <3>1, <3>2, <3>3, <3>4, <3>5
  <2>. QED
    BY <2>1 DEF LaunchOK, RootOK
<1>2. CASE FenceWait
  <2>1. ~Launching => (LaunchOK /\ RootOK)'
    BY <1>2 DEF FenceWait, LaunchOK, RootOK
  <2>2. ASSUME Launching PROVE (LaunchOK /\ RootOK)'
    <3>1. /\ poolSize # 0 /\ mpc' = "clear" /\ NotActive(0) /\ state' = state
      BY <1>2, <2>2 DEF FenceWait, TableOK
    <3>2. SubtreeDone(0)
      BY <1>2, <2>2, <3>1 DEF FenceWait, LaunchOK, Working, NotActive, TableOK
    <3>3. Kept
      BY <1>2, <2>2, <3>1, LaunchFrame
    <3>. QED
      BY <1>2, <2>2, <3>1, <3>2, <3>3 DEF Kept, FenceWait, LaunchOK, RootOK
  <2>. QED
    BY <2>1, <2>2
<1>3. CASE Start
  BY <1>3 DEF Start, LaunchOK, RootOK, RestOK, Quiet, Entries
<1>4. CASE Activate
  <2>1. poolSize # 0 /\ mi - 1 \in Entries(poolSize) /\ mi - 1 \in Entry
    BY <1>4 DEF Activate, Entries
  <2>0. Kept
    BY <1>4, <2>1, LaunchFrame DEF Activate
  <2>2. PICK a \in Entries(poolSize) : a = mi - 1
    BY <2>1
  <2>. DEFINE Word(e) == IF IsProcess(e) THEN Process ELSE e
  <2>3. /\ a \in Entry /\ Quiet(a) /\ ran[a] = 0
        /\ mi' = a /\ mpc' = "activate" /\ fn' = fn /\ ran' = ran
    <3>1. a \in Entry /\ a < mi /\ mpc = "activate"
      BY <1>4, <2>1, <2>2 DEF Activate
    <3>2. Quiet(a) /\ ran[a] = 0
      BY <3>1 DEF LaunchOK
    <3>3. registry[a] # Nil
      BY <2>1, <3>1 DEF TableOK
    <3>. QED
      BY <1>4, <2>2, <3>1, <3>2, <3>3 DEF Activate, ActivatedBy
  <2>4. state' = [state EXCEPT ![Word(a)] = "Active"]
    BY <1>4, <2>1, <2>2 DEF Activate, ActivatedBy, TableOK
  <2>5. \A e \in Entries(poolSize) :
          /\ Word(e) \in Thread
          /\ e # a => state'[Word(e)] = state[Word(e)]
    <3>1. \A e \in Entries(poolSize) : e \in Entry
      BY <2>1
    <3>2. \A e \in Entries(poolSize) : Word(e) \in Thread /\ (e # a => Word(e) # Word(a))
      BY <3>1
    <3>. QED
      BY <2>4, <3>2
  <2>6. state'[Word(a)] = "Active"
    BY <2>4, <2>5
  <2>7. Working(a)'
    <3>1. CASE IsProcess(a)
      BY <2>0, <2>3, <2>6, <3>1 DEF Kept, Working, Quiet
    <3>2. CASE ~IsProcess(a)
      BY <2>0, <2>3, <2>6, <3>2 DEF Kept, Working, Quiet
    <3>. QED
      BY <3>1, <3>2
  <2>8. ASSUME NEW e \in Entries(poolSize), e # a
        PROVE  IF e < a THEN Quiet(e)' /\ ran'[e] = 0 ELSE SubtreeDone(e)' \/ Working(e)'
    <3>1. (e < mi <=> e < a) /\ e \in Entry
      BY <2>2, <2>8 DEF Entries
    <3>2. CASE e < a
      <4>1. Quiet(e) /\ ran[e] = 0
        BY <1>4, <3>1, <3>2 DEF Activate, LaunchOK
      <4>. QED
        BY <2>0, <2>3, <2>5, <2>8, <3>2, <4>1 DEF Kept, Quiet
    <3>3. CASE ~(e < a)
      <4>1. SubtreeDone(e) \/ Working(e)
        BY <1>4, <3>1, <3>3 DEF Activate, LaunchOK
      <4>2. ~IsProcess(e)
        BY <2>2, <2>3, <2>8, <3>1, <3>3
      <4>. QED
        BY <2>0, <2>5, <2>8, <3>3, <4>1, <4>2 DEF Kept
    <3>. QED
      BY <3>2, <3>3
  <2>9. ~(a < a)
    BY <2>3
  <2>10. LaunchOK'
    BY <2>0, <2>3, <2>7, <2>8, <2>9 DEF LaunchOK, Kept
  <2>11. RootOK'
    BY <2>3, <2>7 DEF RootOK
  <2>. QED
    BY <2>10, <2>11
<1>5. CASE Activated
  <2>1. poolSize # 0 /\ Launching
    BY <1>5 DEF Activated
  <2>2. Kept
    BY <1>5, <2>1, LaunchFrame
  <2>. QED
    BY <1>5, <2>1, <2>2 DEF Kept, Activated, LaunchOK, RootOK, Working
<1>6. CASE ProcessRunsFunctor
  <2>0. Kept
    BY <1>6, LaunchFrame DEF ProcessRunsFunctor
  <2>1. /\ poolSize # 0 /\ IsProcess(0) /\ Working(0)
        /\ mpc' = "fan_in" /\ mi' = 0 /\ ran'[0] = 1 /\ state' = state
    BY <1>6 DEF ProcessRunsFunctor, RootOK, Working
  <2>2. Fans(0)' = Fans(0) /\ Fans(0) \in 0..poolSize
    BY <1>6, <2>1, TreeFacts DEF ProcessRunsFunctor, Fans
  <2>3. Waited(0, 0)'
    BY <2>1, <2>2 DEF Waited
  <2>4. Working(0)'
    BY <1>6, <2>1, <2>3, <2>0 DEF Kept, Working
  <2>5. \A e \in Entries(poolSize) : e # 0 /\ Working(e) => Working(e)'
    BY <1>6, <2>1, <2>0 DEF Kept, Working
  <2>. QED
    BY <1>6, <2>1, <2>4, <2>5, <2>0 DEF Kept, ProcessRunsFunctor, LaunchOK, RootOK
<1>7. CASE ProcessFanIn
  <2>0. Kept
    BY <1>7, LaunchFrame DEF ProcessFanIn
  <2>. DEFINE c == FanChild(0, mi)
  <2>1. poolSize # 0 /\ IsProcess(0) /\ Working(0) /\ Waited(0, mi) /\ mi < Fans(0)
    BY <1>7 DEF ProcessFanIn, RootOK, Working
  <2>2. c \in Entries(poolSize) /\ c > 0
    BY <2>1, TreeFacts
  <2>3. c \in Entry /\ ~IsProcess(c) /\ registry[c] = c
    BY <1>7, <2>1, <2>2 DEF ProcessFanIn, TableOK
  <2>4. /\ state[c] # "Active" /\ mi' = mi + 1 /\ mpc' = "fan_in"
        /\ state' = state /\ ran' = ran
    BY <1>7, <2>1, <2>3 DEF ProcessFanIn, ChildDone, NotActive
  <2>5. SubtreeDone(c)
    BY <1>7, <2>2, <2>3, <2>4 DEF ProcessFanIn, LaunchOK, Working
  <2>6. \A j \in 0..mi : SubtreeDone(FanChild(0, j))'
    <3>1. \A j \in 0..(mi - 1) : SubtreeDone(FanChild(0, j))'
      BY <1>7, <2>1, TreeFacts, <2>0 DEF Kept, Waited, ProcessFanIn
    <3>. QED
      BY <1>7, <2>1, <2>2, <2>5, <3>1, <2>0 DEF Kept
  <2>7. Fans(0)' = Fans(0) /\ Fans(0) \in 0..poolSize
    BY <1>7, <2>1, TreeFacts DEF ProcessFanIn, Fans
  <2>8. Waited(0, mi)'
    BY <2>1, <2>4, <2>6, <2>7 DEF Waited
  <2>9. Working(0)'
    BY <1>7, <2>1, <2>4, <2>8, <2>0 DEF Kept, Working
  <2>10. \A e \in Entries(poolSize) : e # 0 /\ Working(e) => Working(e)'
    BY <1>7, <2>1, <2>4, <2>0 DEF Kept, Working
  <2>. QED
    BY <1>7, <2>1, <2>4, <2>9, <2>10, <2>0 DEF Kept, ProcessFanIn, LaunchOK, RootOK
<1>8. CASE ProcessDeactivate
  <2>0. Kept
    BY <1>8, LaunchFrame DEF ProcessDeactivate
  <2>1. poolSize # 0 /\ IsProcess(0) /\ Working(0) /\ Waited(0, mi) /\ mi >= Fans(0)
    BY <1>8 DEF ProcessDeactivate, RootOK, Working
  <2>2. /\ mpc' = "fence" /\ state' = [state EXCEPT ![Process] = "Inactive"] /\ ran' = ran
        /\ Quiet(0)' /\ ran'[0] = 1
    BY <1>8, <2>1 DEF ProcessDeactivate, Working, Quiet, Waited
  <2>3. \A j \in 0..(Fans(0) - 1) : SubtreeDone(FanChild(0, j))'
    BY <1>8, <2>1, TreeFacts, <2>0 DEF Kept, Waited
  <2>4. SubtreeDone(0)'
    BY <1>8, <2>1, <2>2, <2>3, TreeFacts, <2>0 DEF Kept, SubtreeDone
  <2>5. \A e \in Entries(poolSize) : e # 0 /\ Working(e) => Working(e)'
    BY <1>8, <2>1, <2>2, <2>0 DEF Kept, Working
  <2>. QED
    BY <1>8, <2>1, <2>2, <2>4, <2>5, <2>0 DEF Kept, ProcessDeactivate, LaunchOK, RootOK
<1>. QED
  BY <1>1, <1>2, <1>3, <1>4, <1>5, <1>6, <1>7, <1>8, MasterCases DEF LaunchStep

LEMMA MasterInductive == TypeInv /\ Inductive /\ MasterStep => Inductive'
BY MasterControl, MasterBirth, MasterBuild, MasterSerial, MasterLaunch DEF Inductive
-----------------------------------------------------------------------------
(* The invariant and the calls of the application                          *)

LEMMA ApplicationInductive ==
  ASSUME Disciplined, TypeInv, Inductive, Application
  PROVE  Inductive'
<1>. USE DEF Inductive, TypeInv, TypeOK, shared, memory, pool, worker, master, history, frame
<1>1. mpc = "idle" /\ fn = "null"
  <2>1. mpc = "idle"
    BY DEF Application, InitializeThrows, Initialize, Fence, ParallelFor, ParallelReduce, Sleep,
           Wake, Finalize, Ready
  <2>. QED
    BY <2>1 DEF ControlOK, Function
<1>2. CASE InitializeThrows
  <2>1. poolSize = 0
    BY <1>1, <1>2 DEF InitializeThrows, Ready, Disciplined
  <2>2. \A e \in Entry : ~(e \in Entries(poolSize))
    BY <2>1 DEF Entries
  <2>. QED
    BY <1>1, <1>2, <2>1, <2>2
       DEF InitializeThrows, ClearRegistry, ControlOK, BirthOK, StrayOK, OutsideOK, ProcessOK,
           BuildOK, TableOK, RanOK, RestOK, SerialOK, LaunchOK, RootOK, ReapOK
<1>3. ASSUME NEW n \in 1..MaxThreads, NEW b \in SpawnBegins, Initialize(n, b)
      PROVE  Inductive'
  <2>1. b \in {0, 1}
    OBVIOUS
  <2>2. /\ poolSize = 0 /\ ~inPool /\ poolSize' = n /\ begin' = b
        /\ fn' = "noop" /\ mpc' = "spawn"
        /\ mi' = b /\ op' = "initialize" /\ UNCHANGED <<ret, inPool, state, newborn>>
    BY <1>3 DEF Initialize, ControlOK
  <2>3. \A e \in Entry : wpc'[e] = "none" /\ registry'[e] = Nil /\ ran'[e] = 0
    BY <1>3 DEF Initialize, ClearRegistry, Orphans
  <2>4. wpc'[Stray] = wpc[Stray] /\ registry'[Stray] = registry[Stray]
    BY <1>3 DEF Initialize, ClearRegistry, Orphans
  <2>5. \A e \in Entries(n) : e \in Entry
    BY DEF Entries
  <2>6. (/\ ControlOK /\ TableOK /\ RanOK /\ RestOK /\ SerialOK
         /\ LaunchOK /\ RootOK /\ ReapOK /\ ProcessOK)'
    BY <2>1, <2>2
       DEF ControlOK, TableOK, RanOK, RestOK, SerialOK, LaunchOK, RootOK, ReapOK, ProcessOK
  <2>7. (BirthOK /\ StrayOK)'
    BY <1>1, <2>2, <2>3, <2>4 DEF BirthOK, StrayOK
  <2>8. OutsideOK' /\ BuildOK'
    BY <2>2, <2>3, <2>5 DEF OutsideOK, BuildOK, Newborn
  <2>. QED
    BY <2>6, <2>7, <2>8
<1>4. CASE Fence \/ ParallelFor \/ (\E size \in Requests : ParallelReduce(size)) \/ Finalize
  <2>1. /\ mpc' \in {"fence", "start", "resize_scratch"} /\ ret' # "lock" /\ op' # "sleep"
        /\ UNCHANGED <<shared, pool, worker, history, mi, failed>>
    BY <1>4 DEF Fence, ParallelFor, ParallelReduce, Finalize, ControlOK
  <2>. QED
    BY <1>1, <2>1
       DEF ControlOK, BirthOK, StrayOK, OutsideOK, ProcessOK, BuildOK, TableOK, RanOK,
           RestOK, SerialOK, LaunchOK, RootOK, ReapOK, Quiet
<1>5. ~Sleep /\ ~Wake
  BY <1>1 DEF Sleep, Wake, Ready, Disciplined
<1>. QED
  BY <1>2, <1>3, <1>4, <1>5 DEF Application

(* A thread that binds to no core takes the word before the table, or none.*)
LEMMA BindingInductive ==
  ASSUME TypeInv, Inductive, ClaimFails \/ ClaimStray
  PROVE  Inductive'
<1>. USE DEF Inductive, TypeInv, TypeOK, shared, memory, pool, worker, master, history, frame
<1>1. newborn /\ BindMayFail /\ mpc = "spawned" /\ newborn' = FALSE
  BY DEF ClaimFails, ClaimStray, BirthOK
<1>2. UNCHANGED <<fn, memory, pool, master, wi, history>>
  BY DEF ClaimFails, ClaimStray
<1>3. \A e \in Entry : registry'[e] = registry[e] /\ state'[e] = state[e] /\ wpc'[e] = wpc[e]
  BY DEF ClaimFails, ClaimStray
<1>4. ~inPool /\ fn = "noop"
  BY <1>1 DEF ControlOK
<1>5. \A e \in Entries(poolSize) : e \in Entry
  BY <1>1, PoolFacts DEF ControlOK
<1>6. (/\ ControlOK /\ ProcessOK /\ TableOK /\ RanOK /\ RestOK
       /\ SerialOK /\ LaunchOK /\ RootOK /\ ReapOK)'
  BY <1>1, <1>2, <1>4
     DEF ControlOK, ProcessOK, TableOK, RanOK, RestOK, SerialOK, LaunchOK, RootOK, ReapOK
<1>7. BirthOK' /\ StrayOK'
  BY <1>1 DEF BirthOK, StrayOK, ClaimFails, ClaimStray
<1>8. OutsideOK' /\ BuildOK'
  BY <1>1, <1>2, <1>3, <1>4, <1>5 DEF OutsideOK, BuildOK, Newborn
<1>. QED
  BY <1>6, <1>7, <1>8
-----------------------------------------------------------------------------
LEMMA InitInductive == Init => Inductive
<1>. SUFFICES ASSUME Init PROVE Inductive
  OBVIOUS
<1>1. ControlOK /\ BirthOK /\ StrayOK /\ OutsideOK /\ ProcessOK
  BY DEF Init, ControlOK, BirthOK, StrayOK, OutsideOK, ProcessOK, First
<1>2. BuildOK /\ TableOK /\ RanOK /\ RestOK /\ SerialOK /\ LaunchOK /\ RootOK /\ ReapOK
  BY DEF Init, BuildOK, TableOK, RanOK, RestOK, SerialOK, LaunchOK, RootOK, ReapOK
<1>. QED
  BY <1>1, <1>2 DEF Inductive

LEMMA StutterInductive == Inductive /\ UNCHANGED vars => Inductive'
BY DEF Inductive, vars, shared, memory, pool, worker, master, history, frame,
       ControlOK, BirthOK, StrayOK, OutsideOK, ProcessOK, BuildOK, TableOK, RanOK,
       RestOK, SerialOK, LaunchOK, RootOK,
       ReapOK, First, Quiet, Newborn, Resizing, SubtreeDone, Waited, Working, Dying, Gone, Fans

(* Inductive is an invariant.                                              *)
THEOREM InductiveCorrect == ASSUME Disciplined PROVE Spec => [](TypeInv /\ Inductive)
<1>1. TypeInv /\ Inductive /\ [Next]_vars => Inductive'
  BY MasterInductive, WorkerInductive, ApplicationInductive, BindingInductive, StutterInductive
     DEF Next
<1>. QED
  BY <1>1, TypeInit, TypeNext, InitInductive, PTL DEF Spec
-----------------------------------------------------------------------------
(* What follows                                                            *)

(* A launch is joined: whenever the process is back in application code,   *)
(* every thread of the pool ran the last functor once and waits.           *)
THEOREM LaunchesAreJoined == ASSUME Disciplined PROVE Spec => []JoinIsSound
<1>1. TypeInv /\ Inductive => JoinIsSound
  <2>. SUFFICES ASSUME TypeInv, Inductive, Up, LaunchIsOver, NEW e \in Entries(poolSize)
                PROVE  /\ ran[e] = ran[0] /\ ran[e] <= 1
                       /\ NotActive(e)
                       /\ wpc[e] = IF registry[e] = Process THEN "none" ELSE "wait"
    BY DEF JoinIsSound, EveryoneRan, EveryoneWaits
  <2>1. Formed /\ fn = "null" /\ e \in Entry
    BY PoolFacts DEF Up, LaunchIsOver
  <2>. QED
    BY <2>1 DEF Inductive, RanOK, RestOK, TableOK, Quiet, NotActive
<1>. QED
  BY <1>1, InductiveCorrect, PTL

(* The fan-in is sound at every entry: a thread that ran and is done stands*)
(* for its subtree.                                                        *)
THEOREM FanInIsSound == ASSUME Disciplined PROVE Spec => []SubtreeIsDone
<1>1. TypeInv /\ Inductive => SubtreeIsDone
  <2>. SUFFICES ASSUME TypeInv, Inductive, Up, Launching,
                       NEW e \in Entries(poolSize), ran[e] = 1,
                       NotActive(e), NEW d \in Subtree(e, poolSize)
                PROVE  ran[d] = 1 /\ NotActive(d)
    BY DEF SubtreeIsDone
  <2>1. /\ Formed /\ e \in Entry /\ d \in Entries(poolSize) /\ d \in Entry
    BY PoolFacts DEF Up, Inductive, ControlOK, Subtree
  <2>2. SubtreeDone(e)
    BY <2>1 DEF Inductive, TableOK, LaunchOK, Working, NotActive
  <2>. QED
    BY <2>1, <2>2 DEF SubtreeDone, Quiet, NotActive, Inductive, TableOK
<1>. QED
  BY <1>1, InductiveCorrect, PTL

(* Scratch memory is resized by one thread while all others wait.          *)
THEOREM ResizeIsExclusive == ASSUME Disciplined PROVE Spec => []SerialIsExclusive
<1>1. TypeInv /\ Inductive => SerialIsExclusive
  <2>. SUFFICES ASSUME TypeInv, Inductive,
                       NEW e \in Entries(poolSize), NEW d \in Entries(poolSize),
                       wpc[e] = "resize", d # e
                PROVE  wpc[d] \in {"none", "wait"}
    BY DEF SerialIsExclusive
  <2>. USE DEF Inductive, TypeInv, TypeOK, ControlOK
  <2>1. poolSize # 0
    BY DEF Entries
  <2>2. Serial
    BY <2>1, DoneIsQuiet DEF Function, BuildOK, Newborn, RestOK, LaunchOK, Working,
                                  ReapOK, Dying, Gone, Quiet, Entries
  <2>. QED
    BY <2>2 DEF SerialOK, Quiet
<1>. QED
  BY <1>1, InductiveCorrect, PTL

(* Every entry of a pool that came up has its thread.                      *)
THEOREM PoolComplete == ASSUME Disciplined PROVE Spec => []PoolIsComplete
<1>1. Inductive => PoolIsComplete
  BY DEF Inductive, TableOK, PoolIsComplete
<1>. QED
  BY <1>1, InductiveCorrect, PTL

(* If no thread fails to bind, nobody calls a null function or dereferences*)
(* an empty entry of the table.                                            *)
THEOREM NobodyCrashes == ASSUME Disciplined, ~BindMayFail PROVE Spec => []NoCrash
<1>1. TypeInv /\ Inductive => NoCrash
  <2>. SUFFICES ASSUME TypeInv, Inductive, NEW e \in Slot PROVE wpc[e] # "crashed"
    BY DEF NoCrash, Inductive, ControlOK
  <2>. USE DEF Inductive, TypeInv, TypeOK, ControlOK
  <2>1. CASE e = Stray
    BY <2>1 DEF StrayOK
  <2>2. CASE e \in Entry \ Entries(poolSize)
    BY <2>2 DEF OutsideOK
  <2>3. CASE e \in Entries(poolSize)
    <3>1. poolSize # 0
      BY <2>3 DEF Entries
    <3>. QED
      BY <2>3, <3>1, DoneIsQuiet
         DEF Function, BuildOK, Newborn, RestOK, SerialOK, Resizing, LaunchOK, Working, ReapOK,
             Dying, Gone, Quiet, Entries
  <2>. QED
    BY <2>1, <2>2, <2>3
<1>. QED
  BY <1>1, InductiveCorrect, PTL

(* No activation is lost: a thread leaves Active in a launch only after it *)
(* ran the functor.                                                        *)
THEOREM ActivationsAreServed == ASSUME Disciplined PROVE Spec => NoActivationLost
<1>. DEFINE Served == \A e \in Entry :
       Launching /\ state[e] = "Active" /\ state'[e] # "Active" => ran[e] = 1
<1>1. TypeInv /\ Inductive /\ [Next]_vars => [Served]_vars
  <2>. SUFFICES ASSUME TypeInv, Inductive, Next, Launching, NEW e \in Entry,
                       state[e] = "Active", state'[e] # "Active"
                PROVE  ran[e] = 1
    OBVIOUS
  <2>. USE DEF Inductive, TypeInv, TypeOK, ControlOK
  <2>1. mpc \notin {"idle", "spawned"} /\ ~newborn
    BY DEF BirthOK
  <2>2. ~Application
    BY <2>1 DEF Application, InitializeThrows, Initialize, Fence, ParallelFor, ParallelReduce,
                Sleep, Wake, Finalize, Ready
  <2>3. ~MasterStep
    <3>1. \/ FenceWait \/ FenceClear \/ Activate \/ Activated \/ ProcessRunsFunctor
          \/ ProcessFanIn \/ ProcessDeactivate \/ ~MasterStep
      BY MasterCases
         DEF InitializeStep, SpawnWorks, SpawnFails, SpawnReported, SpawnedAll, Settle,
             InitializeFails, PoolIsUp, ResizeStep, ResizeScratch, ResizeNothing,
             ResizeThrows, ResizeStart, SerialActivate, SerialWait, SerialEnd,
             LaunchStep, StartThrows, Start, Reap, ReapWait, FinalizeEnds
    <3>. QED
      BY <3>1 DEF FenceWait, FenceClear, Activate, ActivatedBy, Activated, ProcessRunsFunctor,
                  ProcessFanIn, ProcessDeactivate, shared
  <2>4. PICK w \in Slot : Worker(w)
    BY <2>1, <2>2, <2>3 DEF Next, ClaimFails, ClaimStray
  <2>5. w = e /\ e \in Entries(poolSize) /\ Working(e) /\ ~IsProcess(e)
    BY <2>4, WorkerFrame, Whereabouts DEF Same
  <2>6. wpc[e] \in {"wait", "call", "functor", "fan_in"}
    BY <2>5 DEF Working
  <2>7. Deactivate(e)
    <3>1. ~Claim(e) /\ ~Report(e) /\ ~ResizeOwn(e) /\ ~SleepLock(e) /\ ~SleepUnlock(e)
      BY <2>1, <2>6 DEF Claim, Report, ResizeOwn, SleepLock, SleepUnlock, Step
    <3>2. ~SleepDeactivate(e) /\ ~Destroy(e) /\ ~Farewell(e)
      BY <2>6 DEF SleepDeactivate, Destroy, Farewell, Step
    <3>3. ~CallFunction(e) /\ ~RunFunctor(e) /\ ~WakeUp(e) /\ ~FanIn(e)
      BY DEF CallFunction, RunFunctor, WakeUp, FanIn, shared
    <3>. QED
      BY <2>4, <2>5, <3>1, <3>2, <3>3 DEF Worker, Construct, Serve
  <2>8. wpc[e] = "fan_in"
    BY <2>6, <2>7 DEF Deactivate, Step
  <2>. QED
    BY <2>5, <2>8 DEF Working, Waited
<1>. QED
  BY <1>1, InductiveCorrect, PTL DEF Spec, NoActivationLost
-----------------------------------------------------------------------------
(***************************************************************************)
(* The thread pool implements ForkJoin, its functors find their scratch    *)
(* memory, and finalize leaves nothing behind: what follows from Inductive *)
(* with what is known of the call the process executes, of the scratch of  *)
(* each entry and, when nothing fails, of who was spawned.                 *)
(***************************************************************************)
(* The call being executed, from where the process is.                     *)
CallOK ==
  /\ op # "wake"
  /\ mpc = "idle" <=> op = "none"
  /\ Building => op = "initialize"
  /\ op = "initialize" => /\ poolSize # 0
                          /\ \A e \in Entries(poolSize) : ran[e] = 0
  /\ mpc \in {"resize_scratch", "resize", "serial", "serial_wait"} =>
       op \in {"initialize", "reduce", "finalize"}
  /\ mpc \in {"fence", "clear"} =>
       \/ ret = "idle" /\ op \in {"fence", "for", "reduce"}
       \/ ret = "resize" /\ op \in {"initialize", "reduce", "finalize"} /\ ~Launching
       \/ ret = "resize_scratch" /\ op = "finalize" /\ ~Launching
  /\ mpc = "start" \/ Launching => op \in {"for", "reduce"}
  /\ Reaping => op = "finalize"
  /\ op = "finalize" => request = NoScratch

(* execute_serial has not resized the scratch of this entry yet            *)
Unserved(e) ==
  /\ Serial /\ e \in Entries(poolSize)
  /\ \/ IsProcess(e)
     \/ mpc = "serial" /\ e < mi
     \/ mpc = "serial_wait" /\ e < mi - 1
     \/ /\ mpc = "serial_wait" /\ e = mi - 1
        /\ state[e] = "Active" /\ wpc[e] \in {"wait", "call", "resize"}

Fits(small, large) == small.reduce <= large.reduce /\ small.thread <= large.thread

(* The scratch of every entry has the layout the process believes in.      *)
MemoryOK ==
  /\ poolSize = 0 \/ Building \/ Reaping => ends = NoScratch
  /\ \A e \in Entry :
       \/ Unserved(e)
       \/ scratch[e] = IF e \in Entries(poolSize) THEN ends ELSE NoScratch
  /\ Serial => ends = request
  /\ mpc = "start" \/ Launching => Fits(request, ends)

(* When neither a spawn nor a binding fails, every thread that was spawned *)
(* is in the table.                                                        *)
NothingFails == ~SpawnMayFail /\ ~BindMayFail

Registered == {e \in Entries(poolSize) : registry[e] = e}
Spawned == IF mpc = "settle" THEN poolSize
           ELSE IF mpc = "spawned" /\ ~newborn THEN mi + 1 ELSE mi

SpawnOK ==
  /\ leaked = 0 /\ ~failed
  /\ registry[Stray] = Nil /\ wpc[Stray] = "none"
  /\ \A e \in Entry \ Entries(poolSize) : wpc[e] = "none" /\ registry[e] = Nil
  /\ mpc = "spawned" => state[Process] # "Terminating"
  /\ Building => /\ Cardinality(Registered) = Spawned - begin
                 /\ mpc = "spawn" => mi <= poolSize

Strong == CallOK /\ MemoryOK
-----------------------------------------------------------------------------
(* The call                                                                *)

(* A worker runs the functor in a launch only.                             *)
LEMMA WorkerRuns ==
  ASSUME TypeInv, Inductive, NEW w \in Slot, Worker(w)
  PROVE  /\ wpc[w] = "functor" /\ w # Stray => Launching /\ Working(w) /\ ~IsProcess(w)
         /\ RunFunctor(w) \/ ran' = ran
<1>1. wpc[w] = "functor" /\ w # Stray => Launching /\ Working(w) /\ ~IsProcess(w)
  BY Whereabouts DEF Resizing, Dying, Claim, BuildOK, Newborn, Inductive
<1>2. RunFunctor(w) \/ ran' = ran
  BY DEF Worker, Construct, Serve, Claim, Report, CallFunction, ResizeOwn, WakeUp,
         SleepLock, SleepUnlock, SleepDeactivate, FanIn, Deactivate, Destroy, Farewell,
         history
<1>. QED
  BY <1>1, <1>2

LEMMA CallWorker ==
  ASSUME TypeInv, Inductive, CallOK, NEW w \in Slot, Worker(w)
  PROVE  CallOK'
<1>1. UNCHANGED <<fn, pool, mpc, mi, frame>>
  BY WorkerFrame
<1>2. ASSUME op = "initialize", NEW e \in Entries(poolSize) PROVE ran'[e] = 0
  <2>1. ~Launching /\ e \in Slot
    BY <1>2, PoolFacts DEF CallOK
  <2>2. CASE e # w
    BY <1>2, <2>1, <2>2, WorkerFrame DEF Same, CallOK
  <2>3. CASE e = w
    <3>1. ~RunFunctor(w)
      BY <1>2, <2>1, <2>3, WorkerRuns, PoolFacts DEF RunFunctor, Step, CallOK
    <3>. QED
      BY <1>2, <2>3, <3>1, WorkerRuns DEF CallOK
  <2>. QED
    BY <2>2, <2>3
<1>. QED
  BY <1>1, <1>2 DEF CallOK, pool, frame

LEMMA CallMaster ==
  ASSUME TypeInv, Inductive, CallOK, MasterStep
  PROVE  CallOK'
<1>. USE PoolFacts
     DEF Inductive, TypeInv, TypeOK, WaitsInLoop, ControlOK, First, Goto,
         shared, memory, pool, worker, history, frame, CallOK
<1>1. CASE InitializeStep
  BY <1>1 DEF InitializeStep, SpawnWorks, SpawnFails, SpawnReported, SpawnedAll, Settle,
              InitializeFails, PoolIsUp
<1>2. CASE FenceWait \/ FenceClear
  BY <1>2, MasterControl DEF FenceWait, FenceClear
<1>3. CASE ResizeStep
  BY <1>3, MasterControl
     DEF ResizeStep, ResizeScratch, ResizeNothing, ResizeThrows, ResizeStart,
         SerialActivate, SerialWait, SerialEnd, AfterResize
<1>4. CASE LaunchStep
  BY <1>4, MasterControl
     DEF LaunchStep, StartThrows, Start, Activate, Activated, ProcessRunsFunctor,
         ProcessFanIn, ProcessDeactivate
<1>5. CASE Reap \/ ReapWait \/ FinalizeEnds
  BY <1>5 DEF Reap, ReapWait, FinalizeEnds
<1>. QED
  BY <1>1, <1>2, <1>3, <1>4, <1>5, MasterCases

(* Application code calls when nothing runs, and only when it is awake.    *)
LEMMA ApplicationCalls ==
  ASSUME Disciplined, TypeInv, Inductive, Application
  PROVE  /\ mpc = "idle" /\ fn = "null" /\ ~Sleep /\ ~Wake
         /\ InitializeThrows => poolSize = 0
<1>1. mpc = "idle"
  BY DEF Application, InitializeThrows, Initialize, Fence, ParallelFor, ParallelReduce, Sleep,
         Wake, Finalize, Ready
<1>2. fn = "null"
  BY <1>1 DEF Inductive, ControlOK, TypeInv, TypeOK, Function
<1>. QED
  BY <1>1, <1>2 DEF Disciplined, InitializeThrows, Sleep, Wake, Ready

LEMMA CallApplication ==
  ASSUME Disciplined, TypeInv, Inductive, CallOK, Application
  PROVE  CallOK'
<1>. USE ApplicationCalls DEF CallOK, shared, memory, pool, worker, master, history, frame
<1>1. CASE InitializeThrows
  BY <1>1 DEF InitializeThrows
<1>2. ASSUME NEW n \in 1..MaxThreads, NEW b \in SpawnBegins, Initialize(n, b)
      PROVE  CallOK'
  BY <1>2 DEF Initialize, Entries
<1>3. CASE Fence \/ ParallelFor \/ (\E size \in Requests : ParallelReduce(size)) \/ Finalize
  BY <1>3 DEF Fence, ParallelFor, ParallelReduce, Finalize
<1>. QED
  BY <1>1, <1>2, <1>3 DEF Application
-----------------------------------------------------------------------------
(* The scratch                                                             *)

LEMMA MemoryWorker ==
  ASSUME TypeInv, Inductive, CallOK, MemoryOK, NEW w \in Slot, Worker(w)
  PROVE  MemoryOK'
<1>. USE DEF TypeInv, TypeOK, Inductive
<1>1. UNCHANGED <<fn, pool, mpc, mi, frame>> /\ \A e \in Slot \ {w} : Same(e)
  BY WorkerFrame
<1>2. /\ ends' = ends
      /\ \/ scratch' = scratch /\ ~ResizeOwn(w)
         \/ ResizeOwn(w) \/ Destroy(w)
  BY DEF Worker, Construct, Serve, Claim, Report, CallFunction, RunFunctor, WakeUp,
         SleepLock, SleepUnlock, SleepDeactivate, FanIn, Deactivate, ResizeOwn, Destroy,
         Farewell, Step, memory
<1>3. ASSUME NEW e \in Entry
      PROVE  \/ Unserved(e)'
             \/ scratch'[e] = IF e \in Entries(poolSize) THEN ends ELSE NoScratch
  <2>1. CASE e # w
    <3>1. scratch'[e] = scratch[e]
      BY <1>2, <2>1 DEF ResizeOwn, Destroy
    <3>2. Unserved(e) => Unserved(e)'
      BY <1>1, <2>1 DEF Unserved, Same, pool
    <3>. QED
      BY <3>1, <3>2 DEF MemoryOK
  <2>2. CASE e = w /\ ResizeOwn(w)
    <3>1. w \in Entries(poolSize)
      BY <2>2, Whereabouts
    <3>. QED
      BY <2>2, <3>1 DEF ResizeOwn
  <2>3. CASE e = w /\ Destroy(w)
    <3>1. Reaping
      BY <2>3, Whereabouts DEF Destroy, Step
    <3>2. ends = NoScratch
      BY <3>1 DEF MemoryOK
    <3>. QED
      BY <2>3, <3>2 DEF Destroy
  <2>4. CASE e = w /\ ~ResizeOwn(w) /\ ~Destroy(w) /\ Unserved(w)
    <3>1. Serial /\ fn = "resize" /\ poolSize # 0
      BY <2>4 DEF Unserved, ControlOK
    <3>2. mpc = "serial_wait" /\ w = mi - 1 /\ Resizing(w) /\ ~IsProcess(w)
      BY <2>4, <3>1, Whereabouts DEF Unserved, ControlOK, First
    <3>3. state[w] = "Active" /\ wpc[w] \in {"wait", "call", "resize"}
      BY <2>4, <3>2 DEF Unserved
    <3>4. CallFunction(w) \/ WakeUp(w)
      BY <2>4, <3>1, <3>2, <3>3
         DEF Worker, Construct, Serve, RunFunctor, SleepLock, SleepUnlock,
             SleepDeactivate, FanIn, Deactivate, Farewell, Step, Claim, Report, BirthOK
    <3>5. state'[w] = "Active" /\ wpc'[w] \in {"call", "resize"}
      BY <3>1, <3>3, <3>4 DEF CallFunction, Enter, WakeUp, Step, shared
    <3>. QED
      BY <1>1, <2>4, <3>2, <3>5 DEF Unserved, pool
  <2>5. CASE e = w /\ ~ResizeOwn(w) /\ ~Destroy(w) /\ ~Unserved(w)
    BY <1>2, <2>5 DEF MemoryOK
  <2>. QED
    BY <2>1, <2>2, <2>3, <2>4, <2>5
<1>. QED
  BY <1>1, <1>2, <1>3 DEF MemoryOK, pool, frame

LEMMA FitsSize ==
  ASSUME NEW large \in Size
  PROVE  Fits(NoScratch, large) /\ Fits(large, large)
BY DEF Fits, Size, NoScratch

LEMMA MemoryMaster ==
  ASSUME TypeInv, Inductive, CallOK, MemoryOK, MasterStep
  PROVE  MemoryOK'
<1>. USE PoolFacts, MasterControl
     DEF Inductive, TypeInv, TypeOK, WaitsInLoop, ControlOK, First, Goto,
         shared, memory, pool, worker, history, frame, CallOK, MemoryOK, Unserved
<1>1. CASE InitializeStep
  BY <1>1 DEF InitializeStep, SpawnWorks, SpawnFails, SpawnReported, SpawnedAll, Settle,
              InitializeFails, PoolIsUp, Entries
<1>2. CASE FenceWait \/ FenceClear
  BY <1>2 DEF FenceWait, FenceClear
<1>3. CASE ResizeScratch \/ ResizeThrows
  BY <1>3 DEF ResizeScratch, ResizeThrows
<1>4. CASE ResizeNothing
  <2>1. Fits(request, ends)
    BY <1>4 DEF ResizeNothing, MustResize, Fits, Size
  <2>2. request = NoScratch => ends = NoScratch
    BY <1>4 DEF ResizeNothing, MustResize
  <2>. QED
    BY <1>4, <2>1, <2>2 DEF ResizeNothing, AfterResize
<1>5. CASE ResizeStart
  BY <1>5 DEF ResizeStart, Entries
<1>6. CASE SerialActivate
  <2>1. /\ mi - 1 \in Entries(poolSize) /\ ~IsProcess(mi - 1)
        /\ registry[mi - 1] = mi - 1 /\ Quiet(mi - 1)
    BY <1>6 DEF SerialActivate, SerialOK, TableOK, Entries
  <2>2. /\ mpc' = "serial_wait" /\ state'[mi - 1] = "Active" /\ wpc[mi - 1] = "wait"
        /\ UNCHANGED <<fn, memory, pool, mi, frame, wpc>>
    BY <1>6, <2>1 DEF SerialActivate, Quiet, Entries
  <2>. QED
    BY <1>6, <2>1, <2>2 DEF SerialActivate
<1>7. CASE SerialWait
  <2>1. mi - 1 \in Entries(poolSize) /\ registry[mi - 1] = mi - 1 /\ ~IsProcess(mi - 1)
    BY <1>7 DEF SerialWait, TableOK, Entries
  <2>2. ~Unserved(mi - 1)
    BY <1>7, <2>1 DEF SerialWait, SerialDone, NotActive
  <2>. QED
    BY <1>7, <2>1, <2>2 DEF SerialWait
<1>8. CASE SerialEnd
  <2>1. \A e \in Entry : Unserved(e) => e = 0 /\ inPool
    BY <1>8 DEF SerialEnd, Entries
  <2>2. \A e \in Entry :
          scratch'[e] = IF e \in Entries(poolSize) THEN ends ELSE NoScratch
    BY <1>8, <2>1 DEF SerialEnd
  <2>3. ends = request /\ Fits(request, ends)
    BY <1>8, FitsSize DEF SerialEnd
  <2>4. AfterResize = "reap" => ends = NoScratch
    BY <1>8, <2>3 DEF AfterResize
  <2>. QED
    BY <1>8, <2>2, <2>3, <2>4 DEF SerialEnd, AfterResize
<1>9. CASE LaunchStep
  BY <1>9 DEF LaunchStep, StartThrows, Start, Activate, ActivatedBy, Activated,
              ProcessRunsFunctor, ProcessFanIn, ProcessDeactivate
<1>10. CASE Reap \/ ReapWait
  BY <1>10 DEF Reap, ReapWait
<1>11. CASE FinalizeEnds
  BY <1>11 DEF FinalizeEnds, Entries
<1>. QED
  BY <1>1, <1>2, <1>3, <1>4, <1>5, <1>6, <1>7, <1>8, <1>9, <1>10, <1>11, MasterCases
     DEF ResizeStep

LEMMA MemoryApplication ==
  ASSUME Disciplined, TypeInv, Inductive, MemoryOK, Application
  PROVE  MemoryOK'
<1>. USE ApplicationCalls
     DEF MemoryOK, Unserved, shared, memory, pool, worker, master, history, frame
<1>1. CASE InitializeThrows
  BY <1>1 DEF InitializeThrows
<1>2. ASSUME NEW n \in 1..MaxThreads, NEW b \in SpawnBegins, Initialize(n, b)
      PROVE  MemoryOK'
  BY <1>2 DEF Initialize, Entries
<1>3. CASE ParallelFor
  BY <1>3, FitsSize DEF ParallelFor, TypeInv, TypeOK
<1>4. CASE Fence \/ (\E size \in Requests : ParallelReduce(size)) \/ Finalize
  BY <1>4 DEF Fence, ParallelReduce, Finalize
<1>. QED
  BY <1>1, <1>2, <1>3, <1>4 DEF Application

(* A binding that fails touches neither the call nor the scratch.          *)
LEMMA StrongBinding ==
  ASSUME TypeInv, Inductive, Strong, ClaimFails \/ ClaimStray
  PROVE  Strong'
<1>1. mpc = "spawned" /\ UNCHANGED <<fn, memory, pool, master, wi, history>>
  BY DEF ClaimFails, ClaimStray, Inductive, BirthOK
<1>2. CallOK'
  BY <1>1 DEF Strong, CallOK, pool, master, frame, history
<1>3. MemoryOK'
  BY <1>1 DEF Strong, MemoryOK, Unserved, pool, master, frame, memory
<1>. QED
  BY <1>2, <1>3 DEF Strong

LEMMA StrongInit == Init => Strong
<1>. SUFFICES ASSUME Init PROVE Strong
  OBVIOUS
<1>1. CallOK
  BY DEF Init, CallOK
<1>2. MemoryOK
  BY DEF Init, MemoryOK, Entries
<1>. QED
  BY <1>1, <1>2 DEF Strong

LEMMA StrongStutter == Strong /\ UNCHANGED vars => Strong'
BY DEF Strong, CallOK, MemoryOK, Unserved,
       vars, shared, memory, pool, worker, master, history, frame

(* The call and the scratch keep what is known of them.                    *)
THEOREM StrongCorrect ==
  ASSUME Disciplined PROVE Spec => [](TypeInv /\ Inductive /\ Strong)
<1>1. TypeInv /\ Inductive /\ Strong /\ [Next]_vars => Strong'
  BY CallWorker, CallMaster, CallApplication, MemoryWorker, MemoryMaster,
     MemoryApplication, StrongBinding, StrongStutter
     DEF Next, Strong
<1>. QED
  BY <1>1, StrongInit, InductiveCorrect, PTL DEF Spec
-----------------------------------------------------------------------------
(* Scratch memory                                                          *)

(* A thread of the pool runs a functor in a launch only, and allocates in  *)
(* resize_scratch only.                                                    *)
LEMMA WhereWorkersAre ==
  ASSUME TypeInv, Inductive, NEW e \in Entry
  PROVE  /\ wpc[e] = "functor" => Launching
         /\ wpc[e] = "resize" => Serial
<1>. USE DEF Inductive, TypeInv, TypeOK, ControlOK
<1>1. CASE e \in Entries(poolSize)
  <2>1. poolSize # 0
    BY <1>1 DEF Entries
  <2>. QED
    BY <1>1, <2>1, DoneIsQuiet
       DEF Function, BuildOK, Newborn, RestOK, SerialOK, Resizing, LaunchOK, Working,
           ReapOK, Dying, Gone, Quiet, Entries
<1>2. CASE e \notin Entries(poolSize)
  BY <1>2 DEF OutsideOK
<1>. QED
  BY <1>1, <1>2

(* A functor finds the scratch its launch asked for, laid out as the       *)
(* process believes; scratch is allocated by one thread at a time; and     *)
(* in_parallel() says the truth where it is asked.                         *)
THEOREM AllocationSafe == ASSUME Disciplined PROVE Spec => []AllocationIsSafe
<1>1. TypeInv /\ Inductive /\ Strong => ScratchIsReady
  <2>. SUFFICES ASSUME TypeInv, Inductive, Strong, NEW e \in Entries(poolSize),
                       wpc[e] = "functor" \/ (e = 0 /\ mpc = "functor")
                PROVE  scratch[e] = ends /\ Fits(request, ends)
    BY DEF ScratchIsReady, Fits
  <2>1. e \in Entry
    BY PoolFacts DEF Entries
  <2>2. Launching
    BY <2>1, WhereWorkersAre DEF Inductive, ControlOK
  <2>3. ~Serial
    BY <2>2 DEF Inductive, ControlOK
  <2>. QED
    BY <2>1, <2>2, <2>3 DEF Strong, MemoryOK, Unserved
<1>2. TypeInv /\ Inductive => InParallelIsExact
  <2>. SUFFICES ASSUME TypeInv, Inductive PROVE InParallelIsExact
    OBVIOUS
  <2>. USE DEF Inductive, ControlOK
  <2>1. mpc = "idle" => fn = "null"
    BY DEF TypeInv, TypeOK, Function
  <2>2. mpc = "functor" => Launching /\ inPool
    OBVIOUS
  <2>. QED
    BY <2>1, <2>2, WhereWorkersAre DEF InParallelIsExact, InParallel
<1>. QED
  BY <1>1, <1>2, StrongCorrect, ResizeIsExclusive, PTL DEF AllocationIsSafe
-----------------------------------------------------------------------------
(* The pool implements ForkJoin                                            *)

(* What ForkJoin does not see                                              *)
LEMMA Unseen ==
  ASSUME \/ ~Up /\ ~Up'
         \/ /\ Up /\ Up' /\ poolSize' = poolSize
            /\ Launching <=> fn' = "functor"
            /\ \A e \in Entries(poolSize) : ran'[e] = ran[e]
  PROVE  UNCHANGED FJ!vars
<1>1. CASE ~Up /\ ~Up'
  BY <1>1 DEF FJ!vars, Phase, Members
<1>2. CASE Up /\ Up'
  <2>1. Phase' = Phase /\ Members' = Members
    BY <1>2 DEF Phase, Members
  <2>2. [e \in Members |-> ran[e]]' = [e \in Members |-> ran[e]]
    BY <1>2, <2>1 DEF Members
  <2>. QED
    BY <2>1, <2>2 DEF FJ!vars
<1>. QED
  BY <1>1, <1>2

(* A thread of the pool runs the functor                                   *)
LEMMA RunIsSeen ==
  ASSUME TypeInv, Up, Up', Launching, fn' = fn, poolSize' = poolSize,
         NEW e \in Entries(poolSize), ran[e] = 0, ran' = [ran EXCEPT ![e] = @ + 1]
  PROVE  FJ!Next
<1>1. e \in Members /\ Members' = Members /\ Phase = "running" /\ Phase' = Phase
  BY DEF Members, Phase
<1>2. e \in Slot /\ Members \subseteq Slot
  BY PoolFacts DEF Members, Entries, Up
<1>3. [d \in Members |-> ran[d]]' = [[d \in Members |-> ran[d]] EXCEPT ![e] = 1]
  <2>1. \A d \in Members : ran'[d] = IF d = e THEN 1 ELSE ran[d]
    BY <1>2 DEF TypeInv, TypeOK
  <2>2. [d \in Members |-> ran[d]]' = [d \in Members |-> ran'[d]]
    BY <1>1
  <2>3. [d \in Members |-> ran'[d]] = [d \in Members |-> IF d = e THEN 1 ELSE ran[d]]
    BY <2>1
  <2>4. [[d \in Members |-> ran[d]] EXCEPT ![e] = 1]
          = [d \in Members |-> IF d = e THEN 1 ELSE ran[d]]
    BY <1>1
  <2>. QED
    BY <2>2, <2>3, <2>4
<1>4. FJ!Run(e)
  BY <1>1, <1>3 DEF FJ!Run
<1>. QED
  BY <1>1, <1>4 DEF FJ!Next

(* The first threads are up, or the last are down                          *)
LEMMA BringUpIsSeen ==
  ASSUME TypeInv, ~Up, Up', poolSize' = poolSize, fn' = "null",
         \A e \in Entries(poolSize) : ran'[e] = 0
  PROVE  FJ!Next
<1>1. poolSize \in 1..MaxThreads
  BY DEF Up, TypeInv, TypeOK
<1>2. Phase = "down" /\ Phase' = "ready" /\ Members' = 0..(poolSize - 1)
  BY DEF Phase, Members, Entries
<1>3. [e \in Members |-> ran[e]]' = [e \in Members' |-> 0]
  BY DEF Members
<1>. QED
  BY <1>1, <1>2, <1>3 DEF FJ!Next, FJ!BringUp

LEMMA TakeDownIsSeen ==
  ASSUME Up, ~Up', fn = "null"
  PROVE  FJ!Next
BY DEF FJ!Next, FJ!TakeDown, Phase, Members

(* The process launches a functor, or has joined it                        *)
LEMMA LaunchIsSeen ==
  ASSUME Up, Up', fn = "null", fn' = "functor", poolSize' = poolSize,
         \A e \in Entries(poolSize) : ran'[e] = 0
  PROVE  FJ!Next
<1>1. [e \in Members |-> ran[e]]' = FJ!Times(0)
  BY DEF Members, FJ!Times
<1>. QED
  BY <1>1 DEF FJ!Next, FJ!Launch, Phase, Members

LEMMA JoinIsSeen ==
  ASSUME Up, Up', Launching, fn' = "null", poolSize' = poolSize, ran' = ran,
         \A e \in Entries(poolSize) : ran[e] = 1
  PROVE  FJ!Next
<1>1. [e \in Members |-> ran[e]] = FJ!Times(1)
  BY DEF Members, FJ!Times
<1>. QED
  BY <1>1 DEF FJ!Next, FJ!Join, Phase, Members

LEMMA ForkJoinWorker ==
  ASSUME TypeInv, Inductive, CallOK, NEW w \in Slot, Worker(w)
  PROVE  FJ!Next \/ UNCHANGED FJ!vars
<1>1. UNCHANGED <<fn, pool, frame>> /\ (Up' <=> Up)
  BY WorkerFrame DEF frame, pool, Up
<1>2. CASE RunFunctor(w) /\ w # Stray
  <2>1. Launching /\ Working(w) /\ ~IsProcess(w) /\ w \in Entries(poolSize)
    BY <1>2, WorkerRuns, Whereabouts DEF RunFunctor, Step
  <2>2. ran[w] = 0
    BY <1>2, <2>1 DEF Working, RunFunctor, Step
  <2>3. Up
    BY <2>1 DEF Up, CallOK, Entries, TypeInv, TypeOK
  <2>. QED
    BY <1>1, <1>2, <2>1, <2>2, <2>3, RunIsSeen DEF RunFunctor, pool
<1>3. CASE ~RunFunctor(w) \/ w = Stray
  <2>1. \A e \in Entries(poolSize) : ran'[e] = ran[e]
    <3>1. CASE ~RunFunctor(w)
      BY <3>1, WorkerRuns
    <3>2. CASE w = Stray
      BY <3>2, WorkerFrame DEF Same, Entries, TypeInv, TypeOK
    <3>. QED
      BY <1>3, <3>1, <3>2
  <2>. QED
    BY <1>1, <2>1, Unseen DEF pool
<1>. QED
  BY <1>2, <1>3

LEMMA ForkJoinMaster ==
  ASSUME TypeInv, Inductive, CallOK, MasterStep
  PROVE  FJ!Next \/ UNCHANGED FJ!vars
<1>. USE DEF Inductive, TypeInv, TypeOK, ControlOK, Goto,
             shared, memory, pool, worker, history, frame, CallOK
<1>1. CASE InitializeStep
  <2>1. ~Up /\ ~Up'
    BY <1>1 DEF InitializeStep, SpawnWorks, SpawnFails, SpawnReported, SpawnedAll, Settle,
                InitializeFails, PoolIsUp, Up
  <2>. QED
    BY <2>1, Unseen
<1>2. CASE FenceWait
  BY <1>2, Unseen DEF FenceWait, Up
<1>3. CASE FenceClear
  <2>1. CASE Launching
    <3>1. Up /\ Up' /\ poolSize # 0
      BY <1>3, <2>1 DEF FenceClear, Up
    <3>2. \A e \in Entries(poolSize) : ran[e] = 1
      BY <1>3, <2>1, <3>1, PoolFacts, TreeFacts DEF FenceClear, RootOK, SubtreeDone
    <3>. QED
      BY <1>3, <2>1, <3>1, <3>2, JoinIsSeen DEF FenceClear
  <2>2. CASE ~Launching
    BY <1>3, <2>2, Unseen DEF FenceClear, Up
  <2>. QED
    BY <2>1, <2>2
<1>4. CASE ResizeScratch \/ ResizeThrows \/ ResizeStart \/ SerialActivate \/ SerialWait
  BY <1>4, Unseen
     DEF ResizeScratch, ResizeThrows, ResizeStart, SerialActivate, SerialWait, Up
<1>5. CASE ResizeNothing \/ SerialEnd
  <2>1. /\ mpc' = AfterResize /\ op' = IF AfterResize = "idle" THEN "none" ELSE op
        /\ ran' = ran /\ poolSize' = poolSize /\ fn' = "null" /\ ~Launching
    BY <1>5 DEF ResizeNothing, SerialEnd, Function
  <2>2. CASE op = "initialize"
    <3>1. ~Up /\ Up'
      BY <2>1, <2>2 DEF Up, AfterResize
    <3>. QED
      BY <2>1, <2>2, <3>1, BringUpIsSeen
  <2>3. CASE op # "initialize"
    <3>1. op' = op
      BY <1>5, <2>1, <2>3 DEF AfterResize, ResizeNothing, SerialEnd
    <3>. QED
      BY <2>1, <3>1, Unseen DEF Up
  <2>. QED
    BY <2>2, <2>3
<1>6. CASE StartThrows
  BY <1>6, Unseen DEF StartThrows, Up, Function
<1>7. CASE Start
  BY <1>7, PoolFacts, LaunchIsSeen DEF Start, Up
<1>8. CASE Activate \/ Activated \/ ProcessFanIn \/ ProcessDeactivate
  BY <1>8, Unseen DEF Activate, Activated, ProcessFanIn, ProcessDeactivate, Up
<1>9. CASE ProcessRunsFunctor
  <2>1. Launching /\ Working(0) /\ IsProcess(0) /\ poolSize # 0
    BY <1>9 DEF ProcessRunsFunctor, RootOK
  <2>2. ran[0] = 0 /\ Up /\ Up'
    BY <1>9, <2>1 DEF ProcessRunsFunctor, Working, Up
  <2>. QED
    BY <1>9, <2>1, <2>2, PoolFacts, RunIsSeen DEF ProcessRunsFunctor
<1>10. CASE Reap \/ ReapWait \/ FinalizeEnds
  <2>1. ~Up /\ ~Up'
    BY <1>10 DEF Reap, ReapWait, FinalizeEnds, Up
  <2>. QED
    BY <2>1, Unseen
<1>. QED
  BY <1>1, <1>2, <1>3, <1>4, <1>5, <1>6, <1>7, <1>8, <1>9, <1>10, MasterCases
     DEF ResizeStep, LaunchStep

LEMMA ForkJoinApplication ==
  ASSUME Disciplined, TypeInv, Inductive, CallOK, Application
  PROVE  FJ!Next \/ UNCHANGED FJ!vars
<1>. USE ApplicationCalls
     DEF CallOK, shared, memory, pool, worker, master, history, frame, Up
<1>1. CASE InitializeThrows
  BY <1>1, Unseen DEF InitializeThrows
<1>2. ASSUME NEW n \in 1..MaxThreads, NEW b \in SpawnBegins, Initialize(n, b)
      PROVE  FJ!Next \/ UNCHANGED FJ!vars
  BY <1>2, Unseen DEF Initialize
<1>3. CASE Fence \/ ParallelFor \/ (\E size \in Requests : ParallelReduce(size))
  BY <1>3, Unseen DEF Fence, ParallelFor, ParallelReduce
<1>4. CASE Finalize
  BY <1>4, Unseen, TakeDownIsSeen DEF Finalize
<1>. QED
  BY <1>1, <1>2, <1>3, <1>4 DEF Application

(* Whatever the threads do, the application sees a fork-join pool: every   *)
(* launch is run once by each member, and returns when all have run it.    *)
THEOREM ForkJoinImplemented == ASSUME Disciplined PROVE Spec => IsForkJoin
<1>1. Init => FJ!Init
  BY DEF Init, FJ!Init, FJ!Times, Phase, Members, Up
<1>2. TypeInv /\ Inductive /\ Strong /\ [Next]_vars => [FJ!Next]_(FJ!vars)
  <2>. SUFFICES ASSUME TypeInv, Inductive, Strong, [Next]_vars
                PROVE  FJ!Next \/ UNCHANGED FJ!vars
    OBVIOUS
  <2>1. CASE ClaimFails \/ ClaimStray \/ UNCHANGED vars
    BY <2>1, Unseen
       DEF ClaimFails, ClaimStray, vars, shared, pool, master, frame, history, Up
  <2>. QED
    BY <2>1, ForkJoinWorker, ForkJoinMaster, ForkJoinApplication DEF Next, Strong
<1>. QED
  BY <1>1, <1>2, StrongCorrect, PTL DEF Spec, IsForkJoin, FJ!Spec
-----------------------------------------------------------------------------
(* When nothing fails, every thread that was spawned is in the table       *)

LEMMA RegisteredFinite ==
  ASSUME TypeInv, Inductive, Building
  PROVE  /\ Registered \subseteq begin..(poolSize - 1)
         /\ IsFiniteSet(Registered) /\ Cardinality(Registered) \in Nat
<1>1. Registered \subseteq begin..(poolSize - 1)
  BY DEF Registered, Inductive, BuildOK, Newborn, Entries, TypeInv, TypeOK
<1>2. IsFiniteSet(begin..(poolSize - 1))
  BY FS_Interval DEF TypeInv, TypeOK
<1>3. IsFiniteSet(Registered)
  BY <1>1, <1>2, FS_Subset
<1>. QED
  BY <1>1, <1>3, FS_CardinalityType

(* The table holds them all: there is no room for a missing one.           *)
LEMMA TableIsFull ==
  ASSUME TypeInv, Inductive, SpawnOK, mpc = "settle", NEW e \in begin..(poolSize - 1)
  PROVE  registry[e] = e
<1>1. begin \in Int /\ poolSize - 1 \in Int /\ begin <= poolSize - 1
  BY DEF TypeInv, TypeOK
<1>2. /\ IsFiniteSet(begin..(poolSize - 1))
      /\ Cardinality(begin..(poolSize - 1)) = poolSize - begin
  BY <1>1, FS_Interval DEF TypeInv, TypeOK
<1>3. Cardinality(Registered) = poolSize - begin
  BY DEF SpawnOK, Spawned
<1>4. Registered = begin..(poolSize - 1)
  BY <1>2, <1>3, RegisteredFinite, FS_Subset
<1>. QED
  BY <1>4 DEF Registered

LEMMA SpawnWorker ==
  ASSUME TypeInv, Inductive, SpawnOK, NEW w \in Slot, Worker(w)
  PROVE  SpawnOK'
<1>. USE DEF TypeInv, TypeOK, Inductive
<1>1. w \in Entries(poolSize) /\ w # Stray
  <2>1. ASSUME w = Stray PROVE FALSE
    BY <2>1
       DEF SpawnOK, Worker, Construct, Serve, Claim, Report, CallFunction, RunFunctor,
           ResizeOwn, WakeUp, SleepLock, SleepUnlock, SleepDeactivate, FanIn, Deactivate,
           Destroy, Farewell, Step, Entries
  <2>. QED
    BY <2>1, Whereabouts
<1>2. UNCHANGED <<fn, pool, mpc, mi, frame>> /\ \A e \in Slot \ {w} : Same(e)
  BY WorkerFrame
<1>3. leaked' = leaked
  BY DEF Worker, Construct, Serve, Claim, Report, CallFunction, RunFunctor, ResizeOwn,
         WakeUp, SleepLock, SleepUnlock, SleepDeactivate, FanIn, Deactivate, Destroy,
         Farewell, history
<1>4. mpc = "spawned" => state'[Process] # "Terminating"
  <2>1. wpc[w] = "report" => Report(w)
    BY DEF Worker, Construct, Serve, Claim, CallFunction, RunFunctor, ResizeOwn, WakeUp,
           SleepLock, SleepUnlock, SleepDeactivate, FanIn, Deactivate, Destroy, Farewell,
           Step, BirthOK
  <2>. QED
    BY <2>1, WorkerFrame, Whereabouts DEF SpawnOK, Report
<1>5. Building => Cardinality(Registered)' = Spawned' - begin
  <2>1. CASE Building /\ Claim(w)
    <3>1. newborn /\ ~newborn' /\ mpc = "spawned" /\ w \notin Registered
      BY <2>1 DEF Claim, BirthOK, Registered
    <3>2. Registered' = Registered \cup {w}
      BY <1>1, <1>2, <2>1 DEF Claim, Registered, pool, Entries
    <3>3. Cardinality(Registered') = Cardinality(Registered) + 1
      BY <2>1, <3>1, <3>2, RegisteredFinite, FS_AddElement
    <3>. QED
      BY <1>2, <2>1, <3>1, <3>3, RegisteredFinite DEF SpawnOK, Spawned, pool
  <2>2. CASE Building /\ ~Claim(w)
    <3>1. newborn' = newborn /\ registry' = registry
      BY <2>2, Whereabouts
         DEF Worker, Construct, Serve, Report, CallFunction, RunFunctor, ResizeOwn, WakeUp,
             SleepLock, SleepUnlock, SleepDeactivate, FanIn, Deactivate, Destroy, Farewell,
             Step, shared
    <3>2. Registered' = Registered
      BY <1>2, <3>1 DEF Registered, pool
    <3>. QED
      BY <1>2, <2>2, <3>1, <3>2 DEF SpawnOK, Spawned, pool
  <2>. QED
    BY <2>1, <2>2
<1>. QED
  BY <1>1, <1>2, <1>3, <1>4, <1>5 DEF SpawnOK, Same, pool, frame

LEMMA SpawnMaster ==
  ASSUME NothingFails, TypeInv, Inductive, SpawnOK, MasterStep
  PROVE  SpawnOK'
<1>. USE DEF Inductive, TypeInv, TypeOK, WaitsInLoop, ControlOK, First, Goto, NothingFails,
             shared, memory, pool, worker, history, frame, SpawnOK, Spawned, Registered
<1>1. CASE SpawnWorks
  BY <1>1 DEF SpawnWorks, BirthOK
<1>2. CASE SpawnFails \/ InitializeFails
  BY <1>2 DEF SpawnFails, InitializeFails
<1>3. CASE SpawnReported
  <2>1. ~newborn /\ mpc' = "spawn" /\ mi' = mi + 1 /\ mi + 1 <= poolSize
    BY <1>3 DEF SpawnReported, BirthOK
  <2>2. UNCHANGED <<registry, pool, wpc, leaked, failed>>
    BY <1>3 DEF SpawnReported
  <2>. QED
    BY <1>3, <2>1, <2>2 DEF SpawnReported
<1>11. CASE SpawnedAll
  <2>1. mpc' = "settle" /\ mi = poolSize /\ UNCHANGED <<registry, pool, wpc, leaked, failed>>
    BY <1>11 DEF SpawnedAll
  <2>. QED
    BY <1>11, <2>1 DEF SpawnedAll
<1>4. CASE Settle
  <2>1. registry[mi] # Nil
    BY <1>4, TableIsFull DEF Settle
  <2>. QED
    BY <1>4, <2>1 DEF Settle, Missing
<1>5. CASE PoolIsUp
  BY <1>5 DEF PoolIsUp, Entries
<1>6. CASE FenceWait \/ FenceClear
  BY <1>6 DEF FenceWait, FenceClear
<1>7. CASE ResizeStep
  BY <1>7 DEF ResizeStep, ResizeScratch, ResizeNothing, ResizeThrows, ResizeStart,
              SerialActivate, SerialWait, SerialEnd, AfterResize
<1>8. CASE LaunchStep
  BY <1>8 DEF LaunchStep, StartThrows, Start, Activate, ActivatedBy, Activated,
              ProcessRunsFunctor, ProcessFanIn, ProcessDeactivate
<1>9. CASE Reap \/ ReapWait
  BY <1>9 DEF Reap, ReapWait
<1>10. CASE FinalizeEnds
  BY <1>10 DEF FinalizeEnds, MoreToReap, ReapOK, Gone, Entries
<1>. QED
  BY <1>1, <1>2, <1>3, <1>4, <1>5, <1>6, <1>7, <1>8, <1>9, <1>10, <1>11,
     MasterCases
     DEF InitializeStep

LEMMA SpawnApplication ==
  ASSUME Disciplined, TypeInv, Inductive, SpawnOK, Application
  PROVE  SpawnOK'
<1>. USE ApplicationCalls DEF shared, memory, pool, worker, master, history, frame
<1>1. CASE InitializeThrows
  BY <1>1 DEF InitializeThrows, ClearRegistry, SpawnOK, Entries
<1>2. ASSUME NEW n \in 1..MaxThreads, NEW b \in SpawnBegins, Initialize(n, b)
      PROVE  SpawnOK'
  <2>1. Orphans = {}
    BY <1>2 DEF Initialize, Orphans, SpawnOK, Entries
  <2>2. leaked' = 0
    BY <1>2, <2>1, FS_EmptySet DEF Initialize, SpawnOK
  <2>3. /\ \A e \in Entry : registry'[e] = Nil /\ wpc'[e] = "none"
        /\ registry'[Stray] = registry[Stray] /\ wpc'[Stray] = wpc[Stray]
    BY <1>2, <2>1 DEF Initialize, ClearRegistry, SpawnOK, Entries, TypeInv, TypeOK
  <2>4. Registered' = {}
    <3>1. \A e \in Entries(n) : e \in Entry
      BY DEF Entries
    <3>2. \A e \in Entries(n) : registry'[e] # e
      BY <2>3, <3>1
    <3>. QED
      BY <1>2, <3>2 DEF Initialize, Registered
  <2>5. Cardinality(Registered)' = Spawned' - begin'
    BY <1>2, <2>4, FS_EmptySet DEF Initialize, Spawned
  <2>6. mpc' = "spawn" /\ mi' <= poolSize' /\ ~failed'
    BY <1>2 DEF Initialize
  <2>. QED
    BY <2>2, <2>3, <2>5, <2>6 DEF SpawnOK
<1>3. CASE Fence \/ ParallelFor \/ (\E size \in Requests : ParallelReduce(size)) \/ Finalize
  BY <1>3 DEF Fence, ParallelFor, ParallelReduce, Finalize, SpawnOK
<1>. QED
  BY <1>1, <1>2, <1>3 DEF Application

(* If no spawn and no binding fails, finalize leaves no thread and an empty*)
(* table, and no thread was lost on the way.                               *)
THEOREM FinalizeLeavesNothing ==
  ASSUME Disciplined, NothingFails PROVE Spec => FinalizeReaps
<1>. DEFINE Left == op = "finalize" /\ mpc' = "idle" =>
                      leaked' = 0 /\ \A e \in Slot : wpc'[e] = "none" /\ registry'[e] = Nil
<1>1. Init => SpawnOK
  BY DEF Init, SpawnOK, NothingFails
<1>2. TypeInv /\ Inductive /\ SpawnOK /\ [Next]_vars => SpawnOK'
  <2>1. ~ClaimFails /\ ~ClaimStray
    BY DEF ClaimFails, ClaimStray, NothingFails
  <2>2. SpawnOK /\ UNCHANGED vars => SpawnOK'
    BY DEF SpawnOK, Registered, Spawned, vars, shared, pool, worker, master, history, frame
  <2>. QED
    BY <2>1, <2>2, SpawnWorker, SpawnMaster, SpawnApplication DEF Next
<1>3. TypeInv /\ Inductive /\ Strong /\ SpawnOK' /\ [Next]_vars => [Left]_vars
  <2>. SUFFICES ASSUME TypeInv, Inductive, Strong, SpawnOK', Next,
                       op = "finalize", mpc' = "idle"
                PROVE  leaked' = 0 /\ \A e \in Slot : wpc'[e] = "none" /\ registry'[e] = Nil
    OBVIOUS
  <2>. USE DEF Strong, CallOK
  <2>1. poolSize' = 0
    <3>1. ~Application
      BY DEF Application, InitializeThrows, Initialize, Fence, ParallelFor, ParallelReduce,
             Sleep, Wake, Finalize, Ready
    <3>2. \A w \in Slot : ~Worker(w)
      BY WorkerFrame
    <3>3. MasterStep
      BY <3>1, <3>2 DEF Next, ClaimFails, ClaimStray, master
    <3>4. CASE FinalizeEnds
      BY <3>4 DEF FinalizeEnds
    <3>5. ~InitializeStep /\ ~LaunchStep
      BY DEF InitializeStep, SpawnWorks, SpawnFails, SpawnReported, SpawnedAll, Settle,
             InitializeFails, PoolIsUp, LaunchStep, StartThrows, Start, Activate, Activated,
             ProcessRunsFunctor, ProcessFanIn, ProcessDeactivate, Inductive, ControlOK
    <3>6. ~FenceWait /\ ~FenceClear /\ ~Reap /\ ~ReapWait
      BY DEF FenceWait, FenceClear, Goto, Reap, ReapWait
    <3>7. ~ResizeThrows
      BY DEF ResizeThrows, MustResize, MemoryOK, NoScratch
    <3>8. AfterResize = "reap"
      BY DEF AfterResize
    <3>9. ~ResizeStep
      BY <3>7, <3>8
         DEF ResizeStep, ResizeScratch, ResizeNothing, ResizeStart, SerialActivate,
             SerialWait, SerialEnd, Goto
    <3>. QED
      BY <3>3, <3>4, <3>5, <3>6, <3>9, MasterCases
  <2>. QED
    BY <2>1 DEF SpawnOK, Entries
<1>. QED
  BY <1>1, <1>2, <1>3, StrongCorrect, PTL DEF Spec, FinalizeReaps
=============================================================================
