---------------------------- MODULE ThreadsExec ----------------------------
(***************************************************************************)
(* The thread pool of the Kokkos Threads execution space.                  *)
(*                                                                         *)
(* One master ("the process") spawns, activates, puts to sleep and reaps a *)
(* pool of workers.  Everything they tell each other goes through shared   *)
(* words: m_pool_state of each thread, the table s_threads_exec, and the   *)
(* function pointer s_current_function.  One action is one access to a     *)
(* word that another thread may be using, with the local work around it.   *)
(*                                                                         *)
(* A worker is named by the entry of s_threads_exec it claims.  The        *)
(* argument s_current_function_arg is set and cleared with the function,   *)
(* or is the loop index of initialize, so it needs no variable.            *)
(***************************************************************************)
EXTENDS FanTree, FiniteSets

CONSTANTS
  MaxThreads,    \* largest pool the application asks for
  SpawnBegins,   \* 1: the process is entry 0 of the pool; 0: it is not in it
  CanBind,       \* hwloc is there: a worker picks its own entry
  BindMayFail,   \* ... and may fail to
  SpawnMayFail,  \* pthread_create may fail
  Requests,      \* scratch sizes launches ask for, in alignment units
  CallsDown,     \* calls the application makes while the pool has no threads,
  CallsAwake,    \* while it is up,
  CallsAsleep,   \* and while it sleeps
  MaxLeaked      \* bound: no initialize once this many threads are orphaned

Entry == 0..(MaxThreads - 1)
Stray == -1                       \* the word before s_threads_exec
Process == -2                     \* & s_threads_process
Nil == -3

Slot == Entry \cup {Stray}
Thread == Slot \cup {Process}
State == {"Terminating", "Inactive", "Active"}
Function == {"null", "noop", "functor", "resize", "sleep"}
Call == {"initialize", "finalize", "fence", "for", "reduce", "sleep", "wake"}
Size == [reduce : Nat, thread : Nat]
NoScratch == [reduce |-> 0, thread |-> 0]
FirstScratch == [reduce |-> 1, thread |-> 1]   \* resize_scratch(1024,1024)

ASSUME MaxThreadsAssumption == MaxThreads \in Nat \ {0}
ASSUME SpawnBeginsAssumption == SpawnBegins \subseteq {0, 1}
ASSUME RequestsAssumption == Requests \subseteq Size
ASSUME BindAssumption == /\ CanBind \in BOOLEAN
                         /\ BindMayFail \in BOOLEAN
                         /\ SpawnMayFail \in BOOLEAN
ASSUME MaxLeakedAssumption == MaxLeaked \in Nat

VARIABLES
  \* shared between threads
  poolSize,      \* s_thread_pool_size[0]
  registry,      \* s_threads_exec, and the word before it
  state,         \* m_pool_state of each thread
  fn,            \* s_current_function
  mutex,         \* owner of host_internal_pthread_mutex, or Nil
  ends,          \* m_scratch_{reduce,thread}_end of the process
  scratch,       \* what each entry has allocated
  \* the process
  inPool,        \* its m_pool_base is set
  begin,         \* thread_spawn_begin
  mpc,           \* where it is
  op,            \* the call it is executing
  ret,           \* where fence returns to
  request,       \* sizes passed to resize_scratch
  mi,            \* its loop index
  failed,        \* thread_spawn_failed is not zero
  \* the workers
  newborn,       \* a spawned thread has not claimed an entry yet
  wpc,           \* where each worker is
  wi,            \* its loop index
  \* history
  ran,           \* how often each entry ran the functor of this launch
  leaked         \* threads no table points to any more

shared == <<registry, state, fn, mutex>>
memory == <<ends, scratch>>
pool   == <<poolSize, inPool, begin>>
frame  == <<op, ret, request, failed>>
master == <<mpc, mi, frame>>
worker == <<newborn, wpc, wi>>
history == <<ran, leaked>>
vars == <<shared, memory, pool, master, worker, history>>

Init ==
  /\ poolSize = 0 /\ inPool = FALSE /\ begin = 1
  /\ registry \in {r \in [Slot -> {Nil, Process}] :
                     /\ \A e \in Entry : r[e] = Nil
                     /\ ~BindMayFail => r[Stray] = Nil}
  /\ state = [t \in Thread |-> IF t = Process THEN "Inactive" ELSE "Terminating"]
  /\ fn = "null" /\ mutex = Nil
  /\ ends = NoScratch /\ scratch = [e \in Slot |-> NoScratch]
  /\ mpc = "idle" /\ op = "none" /\ ret = "idle" /\ request = NoScratch
  /\ mi = 0 /\ failed = FALSE
  /\ newborn = FALSE
  /\ wpc = [e \in Slot |-> "none"] /\ wi = [e \in Slot |-> 0]
  /\ ran = [e \in Slot |-> 0] /\ leaked = 0
-----------------------------------------------------------------------------
(* Shared reads and writes.                                                *)

(* s_threads_exec[e]->m_pool_state # Active, the end of every spin on it   *)
NotActive(e) == state[registry[e]] # "Active"

Fans(e) == IF e \in Entries(poolSize) THEN FanCount(e, poolSize) ELSE 0

(* the child a fan-in waits for, and whether the wait is over              *)
FanInSkipsWait(e, i) == TRUE
FanInWaitsForItself(e, i) == NotActive(e)
ChildDone(e, i) == NotActive(FanChild(e, i))

(* the entry the k-th last turn of an activation loop writes               *)
ParentsFirst(k) == poolSize - k
ActivatedBy(k) == k - 1

(* the first entry whose thread the process does not run itself            *)
ProcessNotSkipped == 0
First == IF inPool THEN 1 ELSE 0

(* in_parallel(), called by thread t.  execute_serial passes the process   *)
(* as the function's argument, to say that its function is not parallel.   *)
InParallel(t) == fn \notin {"null", "resize"} /\ (inPool \/ t # Process)

Ready(call) ==
  /\ mpc = "idle"
  /\ call \in (IF poolSize = 0 THEN CallsDown
               ELSE IF fn = "sleep" THEN CallsAsleep ELSE CallsAwake)
-----------------------------------------------------------------------------
(* initialize                                                              *)

(* The table is cleared before the test that throws: for a pool that is up *)
(* or an argument thread_mapping refuses, that is all that happens.        *)
ClearRegistry ==
  registry' = [e \in Slot |-> IF e \in Entry THEN Nil ELSE registry[e]]

InitializeThrows ==
  /\ Ready("initialize")
  /\ ClearRegistry
  /\ UNCHANGED <<state, fn, mutex, memory, pool, master, worker, history>>

(* Workers a failed initialize left behind keep waiting, but nothing names *)
(* them any more: their entries are free for the workers of the new pool.  *)
Orphans == {e \in Entry : wpc[e] # "none"}

Initialize(n, b) ==
  /\ Ready("initialize") /\ poolSize = 0
  /\ leaked + Cardinality(Orphans) <= MaxLeaked
  /\ b = 0 => n > 1
  /\ ClearRegistry
  /\ leaked' = leaked + Cardinality(Orphans)
  /\ wpc' = [e \in Slot |-> IF e \in Orphans THEN "none" ELSE wpc[e]]
  /\ poolSize' = n /\ begin' = b
  /\ fn' = "noop"
  /\ mi' = b /\ mpc' = "spawn" /\ op' = "initialize" /\ failed' = FALSE
  /\ ran' = [e \in Slot |-> 0]
  /\ UNCHANGED <<state, mutex, memory, inPool, ret, request, newborn, wi>>

(* spawn() worked: wait until the new thread has said how it went          *)
SpawnWorks ==
  /\ mpc = "spawn" /\ mi < poolSize
  /\ state' = [state EXCEPT ![Process] = "Inactive"]
  /\ newborn' = TRUE
  /\ mpc' = "spawned"
  /\ UNCHANGED <<registry, fn, mutex, memory, pool, mi, frame, wpc, wi, history>>

(* it did not: go on with the next one                                     *)
SpawnFails ==
  /\ SpawnMayFail
  /\ mpc = "spawn" /\ mi < poolSize
  /\ state' = [state EXCEPT ![Process] = "Inactive"]
  /\ mi' = mi + 1
  /\ UNCHANGED <<registry, fn, mutex, memory, pool, mpc, frame, worker, history>>

(* A worker that found no entry ends the loop.                             *)
SpawnReported ==
  /\ mpc = "spawned" /\ state[Process] # "Inactive"
  /\ IF state[Process] = "Terminating"
       THEN mpc' = "settle" /\ mi' = begin
       ELSE mpc' = "spawn" /\ mi' = mi + 1
  /\ UNCHANGED <<shared, memory, pool, frame, worker, history>>

SpawnedAll ==
  /\ mpc = "spawn" /\ mi >= poolSize
  /\ mpc' = "settle" /\ mi' = begin
  /\ UNCHANGED <<shared, memory, pool, frame, worker, history>>

(* Wait for every spawned thread to deactivate before zeroing the function *)
NotWaitedFor(e) == TRUE
Settled(e) == NotActive(e)

NeverMissed(e) == FALSE
Missing(e) == registry[e] = Nil

Settle ==
  /\ mpc = "settle" /\ mi < poolSize
  /\ registry[mi] # Nil => Settled(mi)
  /\ mi' = mi + 1
  /\ failed' = (failed \/ Missing(mi))
  /\ UNCHANGED <<shared, memory, pool, mpc, op, ret, request, worker, history>>

(* A spawn failed: initialize zeroes the pool size and throws.  What was   *)
(* spawned stays: its entry in the table and its thread.                   *)
InitializeFails ==
  /\ mpc = "settle" /\ mi >= poolSize /\ failed
  /\ fn' = "null"
  /\ state' = [state EXCEPT ![Process] = "Inactive"]
  /\ poolSize' = 0
  /\ mpc' = "idle" /\ op' = "none"
  /\ UNCHANGED <<registry, mutex, memory, inPool, begin, ret, request, mi, failed,
                 worker, history>>

PoolIsUp ==
  /\ mpc = "settle" /\ mi >= poolSize /\ ~failed
  /\ fn' = "null"
  /\ state' = [state EXCEPT ![Process] = "Inactive"]
  /\ inPool' = (begin = 1)
  /\ registry' = IF begin = 1 THEN [registry EXCEPT ![0] = Process] ELSE registry
  /\ mpc' = "resize_scratch" /\ request' = FirstScratch
  /\ UNCHANGED <<mutex, memory, poolSize, begin, op, ret, mi, failed, worker, history>>
-----------------------------------------------------------------------------
(* The worker's constructor and driver loop                                *)

(* the spawned thread claims an entry and publishes itself                 *)
Claim(e) ==
  /\ newborn
  /\ e \in Entries(poolSize) /\ e >= begin
  /\ CanBind \/ e = mi
  /\ registry[e] = Nil
  /\ registry' = [registry EXCEPT ![e] = e]
  /\ state' = [state EXCEPT ![e] = "Active"]
  /\ newborn' = FALSE
  /\ wpc' = [wpc EXCEPT ![e] = "report"]
  /\ UNCHANGED <<fn, mutex, memory, pool, master, wi, history>>

(* Binding fails with ~0u, which the int `entry' holds as -1: less than    *)
(* the pool size, so the compare-and-swap goes to the word before the      *)
(* table.  What that word holds is not the program's to say.               *)
ClaimFails ==
  /\ newborn /\ CanBind /\ BindMayFail
  /\ registry[Stray] # Nil
  /\ state' = [state EXCEPT ![Process] = "Terminating"]
  /\ newborn' = FALSE
  /\ UNCHANGED <<registry, fn, mutex, memory, pool, master, wpc, wi, history>>

ClaimStray ==
  /\ newborn /\ CanBind /\ BindMayFail
  /\ registry[Stray] = Nil
  /\ registry' = [registry EXCEPT ![Stray] = Stray]
  /\ state' = [state EXCEPT ![Stray] = "Active"]
  /\ newborn' = FALSE
  /\ wpc' = [wpc EXCEPT ![Stray] = "report"]
  /\ UNCHANGED <<fn, mutex, memory, pool, master, wi, history>>

Step(e, from, to) == wpc[e] = from /\ wpc' = [wpc EXCEPT ![e] = to]

Report(e) ==
  /\ Step(e, "report", "call")
  /\ state' = [state EXCEPT ![Process] = "Active"]
  /\ UNCHANGED <<registry, fn, mutex, memory, pool, master, newborn, wi, history>>

(* the driver calls s_current_function with this thread and the argument   *)
Enter == [noop |-> "deactivate", functor |-> "functor", resize |-> "resize",
          sleep |-> "lock", null |-> "crashed"]

CallFunction(e) ==
  /\ Step(e, "call", Enter[fn])
  /\ UNCHANGED <<shared, memory, pool, master, newborn, wi, history>>

(* the body of a launch, then ThreadsExec::fan_in                          *)
RunFunctor(e) ==
  /\ Step(e, "functor", "fan_in")
  /\ wi' = [wi EXCEPT ![e] = 0]
  /\ ran' = [ran EXCEPT ![e] = @ + 1]
  /\ UNCHANGED <<shared, memory, pool, master, newborn, leaked>>

ResizeOwn(e) ==
  /\ Step(e, "resize", "deactivate")
  /\ scratch' = [scratch EXCEPT ![e] = ends]
  /\ UNCHANGED <<shared, ends, pool, master, newborn, wi, history>>

SleepLock(e) ==
  /\ Step(e, "lock", "unlock")
  /\ mutex = Nil /\ mutex' = e
  /\ UNCHANGED <<registry, state, fn, memory, pool, master, newborn, wi, history>>

SleepUnlock(e) ==
  /\ Step(e, "unlock", "sleep_fan_in")
  /\ mutex' = Nil
  /\ wi' = [wi EXCEPT ![e] = 0]
  /\ UNCHANGED <<registry, state, fn, memory, pool, master, newborn, history>>

FanIn(e) ==
  /\ wpc[e] \in {"fan_in", "sleep_fan_in"} /\ wi[e] < Fans(e)
  /\ IF registry[FanChild(e, wi[e])] = Nil
       THEN wpc' = [wpc EXCEPT ![e] = "crashed"] /\ UNCHANGED wi
       ELSE ChildDone(e, wi[e]) /\ wi' = [wi EXCEPT ![e] = @ + 1] /\ UNCHANGED wpc
  /\ UNCHANGED <<shared, memory, pool, master, newborn, history>>

(* execute_sleep deactivates its thread itself; driver does so again       *)
SleepDeactivate(e) ==
  /\ wi[e] >= Fans(e)
  /\ Step(e, "sleep_fan_in", "deactivate")
  /\ state' = [state EXCEPT ![e] = "Inactive"]
  /\ UNCHANGED <<registry, fn, mutex, memory, pool, master, newborn, wi, history>>

Deactivate(e) ==
  /\ \/ Step(e, "deactivate", "wait")
     \/ Step(e, "fan_in", "wait") /\ wi[e] >= Fans(e)
  /\ state' = [state EXCEPT ![e] = "Inactive"]
  /\ UNCHANGED <<registry, fn, mutex, memory, pool, master, newborn, wi, history>>

(* wait_yield( m_pool_state , Inactive ) and the loop condition            *)
WakeUp(e) ==
  /\ state[e] # "Inactive"
  /\ Step(e, "wait", IF state[e] = "Active" THEN "call" ELSE "destroy")
  /\ UNCHANGED <<shared, memory, pool, master, newborn, wi, history>>

(* ~ThreadsExec: give the entry back, then tell the process                *)
Destroy(e) ==
  /\ Step(e, "destroy", "farewell")
  /\ scratch' = [scratch EXCEPT ![e] = NoScratch]
  /\ state' = [state EXCEPT ![e] = "Terminating"]
  /\ registry' = [registry EXCEPT ![e] = IF @ = e THEN Nil ELSE @]
  /\ UNCHANGED <<fn, mutex, ends, pool, master, newborn, wi, history>>

Farewell(e) ==
  /\ Step(e, "farewell", "none")
  /\ state' = [state EXCEPT ![Process] = "Terminating"]
  /\ UNCHANGED <<registry, fn, mutex, memory, pool, master, newborn, wi, history>>
-----------------------------------------------------------------------------
(* fence                                                                   *)

Fence ==
  /\ Ready("fence")
  /\ mpc' = "fence" /\ op' = "fence" /\ ret' = "idle"
  /\ UNCHANGED <<shared, memory, pool, mi, request, failed, worker, history>>

(* wait for the root; an empty table is dereferenced                       *)
FenceWait ==
  /\ mpc = "fence"
  /\ IF poolSize = 0 THEN mpc' = "clear"
     ELSE IF registry[0] = Nil THEN mpc' = "crashed"
     ELSE NotActive(0) /\ mpc' = "clear"
  /\ UNCHANGED <<shared, memory, pool, mi, frame, worker, history>>

Goto(label) ==
  /\ mpc' = label
  /\ op' = IF label = "idle" THEN "none" ELSE op

FenceClear ==
  /\ mpc = "clear"
  /\ fn' = "null"
  /\ Goto(ret)
  /\ UNCHANGED <<registry, state, mutex, memory, pool, mi, ret, request, failed,
                 worker, history>>
-----------------------------------------------------------------------------
(* resize_scratch and execute_serial                                       *)

ResizeScratch ==
  /\ mpc = "resize_scratch"
  /\ mpc' = "fence" /\ ret' = "resize"
  /\ UNCHANGED <<shared, memory, pool, mi, op, request, failed, worker, history>>

(* grow if either part is too small, or give everything back               *)
TotalsCompared(old, new) ==
  \/ old.reduce + old.thread < new.reduce + new.thread
  \/ new = NoScratch /\ old # NoScratch
MustResize(old, new) ==
  \/ old.reduce < new.reduce
  \/ old.thread < new.thread
  \/ new = NoScratch /\ old # NoScratch

(* what the caller does once resize_scratch has returned                   *)
AfterResize == CASE op = "reduce" -> "start"
                 [] op = "finalize" -> "reap"
                 [] OTHER -> "idle"

ResizeNothing ==
  /\ mpc = "resize" /\ ~MustResize(ends, request)
  /\ Goto(AfterResize) /\ mi' = poolSize
  /\ UNCHANGED <<shared, memory, pool, ret, request, failed, worker, history>>

(* verify_is_process throws when there is no pool                          *)
ResizeThrows ==
  /\ mpc = "resize" /\ MustResize(ends, request) /\ poolSize = 0
  /\ Goto("idle")
  /\ UNCHANGED <<shared, memory, pool, mi, ret, request, failed, worker, history>>

ResizeStart ==
  /\ mpc = "resize" /\ MustResize(ends, request) /\ poolSize > 0
  /\ ends' = request
  /\ fn' = "resize"
  /\ mpc' = "serial" /\ mi' = poolSize
  /\ UNCHANGED <<registry, state, mutex, scratch, pool, frame, worker, history>>

(* one worker at a time: activate it and wait for it                       *)
SerialActivate ==
  /\ mpc = "serial" /\ mi > First
  /\ IF registry[mi - 1] = Nil
       THEN mpc' = "crashed" /\ UNCHANGED state
       ELSE /\ state' = [state EXCEPT ![registry[mi - 1]] = "Active"]
            /\ mpc' = "serial_wait"
  /\ UNCHANGED <<registry, fn, mutex, memory, pool, mi, frame, worker, history>>

SerialDone(e) == NotActive(e)

SerialWait ==
  /\ mpc = "serial_wait" /\ SerialDone(mi - 1)
  /\ mpc' = "serial" /\ mi' = mi - 1
  /\ UNCHANGED <<shared, memory, pool, frame, worker, history>>

(* the process serves its own entry, last                                  *)
SerialEnd ==
  /\ mpc = "serial" /\ mi <= First
  /\ IF inPool
       THEN /\ scratch' = [scratch EXCEPT ![0] = ends]
            /\ state' = [state EXCEPT ![Process] = "Inactive"]
       ELSE UNCHANGED <<scratch, state>>
  /\ fn' = "null"
  /\ Goto(AfterResize) /\ mi' = poolSize
  /\ UNCHANGED <<registry, mutex, ends, pool, ret, request, failed, worker, history>>
-----------------------------------------------------------------------------
(* parallel_for, parallel_reduce and parallel_scan, and start              *)

ParallelFor ==
  /\ Ready("for")
  /\ mpc' = "start" /\ op' = "for" /\ request' = NoScratch
  /\ UNCHANGED <<shared, memory, pool, mi, ret, failed, worker, history>>

ParallelReduce(size) ==
  /\ Ready("reduce")
  /\ mpc' = "resize_scratch" /\ op' = "reduce" /\ request' = size
  /\ UNCHANGED <<shared, memory, pool, mi, ret, failed, worker, history>>

StartThrows ==
  /\ mpc = "start" /\ (poolSize = 0 \/ fn # "null")
  /\ Goto("idle")
  /\ UNCHANGED <<shared, memory, pool, mi, ret, request, failed, worker, history>>

Start ==
  /\ mpc = "start" /\ poolSize > 0 /\ fn = "null"
  /\ fn' = "functor"
  /\ ran' = [e \in Slot |-> 0]
  /\ mpc' = "activate" /\ mi' = poolSize
  /\ UNCHANGED <<registry, state, mutex, memory, pool, frame, worker, leaked>>

(* From the last entry to the first: a parent is activated after its       *)
(* children, or its fan-in would take them for done.                       *)
Activate ==
  /\ mpc = "activate" /\ mi > 0
  /\ LET e == ActivatedBy(mi)
     IN  IF registry[e] = Nil
           THEN mpc' = "crashed" /\ UNCHANGED <<state, mi>>
           ELSE /\ state' = [state EXCEPT ![registry[e]] = "Active"]
                /\ mi' = mi - 1 /\ UNCHANGED mpc
  /\ UNCHANGED <<registry, fn, mutex, memory, pool, frame, worker, history>>

(* start runs the functor if the process is in the pool; sleep returns     *)
Activated ==
  /\ mpc = "activate" /\ mi = 0
  /\ IF op = "sleep" THEN Goto("idle") /\ UNCHANGED ret
     ELSE IF inPool THEN Goto("functor") /\ UNCHANGED ret
     ELSE Goto("fence") /\ ret' = "idle"
  /\ UNCHANGED <<shared, memory, pool, mi, request, failed, worker, history>>

ProcessRunsFunctor ==
  /\ mpc = "functor"
  /\ ran' = [ran EXCEPT ![0] = @ + 1]
  /\ mpc' = "fan_in" /\ mi' = 0
  /\ UNCHANGED <<shared, memory, pool, frame, worker, leaked>>

ProcessFanIn ==
  /\ mpc = "fan_in" /\ mi < Fans(0)
  /\ IF registry[FanChild(0, mi)] = Nil
       THEN mpc' = "crashed" /\ UNCHANGED mi
       ELSE ChildDone(0, mi) /\ mi' = mi + 1 /\ UNCHANGED mpc
  /\ UNCHANGED <<shared, memory, pool, frame, worker, history>>

ProcessDeactivate ==
  /\ mpc = "fan_in" /\ mi >= Fans(0)
  /\ state' = [state EXCEPT ![Process] = "Inactive"]
  /\ mpc' = "fence" /\ ret' = "idle"
  /\ UNCHANGED <<registry, fn, mutex, memory, pool, mi, op, request, failed,
                 worker, history>>
-----------------------------------------------------------------------------
(* sleep and wake.  Without a pool they throw; sleep returns at once from  *)
(* an execution space that sleeps, and wake from one that does not.        *)

Sleep ==
  /\ Ready("sleep") /\ poolSize > 0 /\ fn # "sleep"
  /\ mpc' = "fence" /\ ret' = "lock" /\ op' = "sleep"
  /\ UNCHANGED <<shared, memory, pool, mi, request, failed, worker, history>>

TakesLock == mutex = Nil /\ mutex' = Process

SleepBegins ==
  /\ mpc = "lock"
  /\ TakesLock
  /\ fn' = "sleep"
  /\ mpc' = "activate" /\ mi' = poolSize
  /\ UNCHANGED <<registry, state, memory, pool, frame, worker, history>>

KeepsLock == UNCHANGED mutex
ReleasesLock == mutex' = Nil

Wake ==
  /\ Ready("wake") /\ poolSize > 0 /\ fn = "sleep"
  /\ ReleasesLock
  /\ op' = "wake" /\ ret' = "idle"
  /\ mpc' = IF inPool THEN "wake_lock" ELSE "fence"
  /\ UNCHANGED <<registry, state, fn, memory, pool, mi, request, failed, worker, history>>

(* the process goes through execute_sleep like a worker                    *)
WakeLock ==
  /\ mpc = "wake_lock" /\ mutex = Nil
  /\ mutex' = Process
  /\ mpc' = "wake_unlock"
  /\ UNCHANGED <<registry, state, fn, memory, pool, mi, frame, worker, history>>

WakeUnlock ==
  /\ mpc = "wake_unlock"
  /\ mutex' = Nil
  /\ mpc' = "fan_in" /\ mi' = 0
  /\ UNCHANGED <<registry, state, fn, memory, pool, frame, worker, history>>
-----------------------------------------------------------------------------
(* finalize                                                                *)

Finalize ==
  /\ Ready("finalize")
  /\ mpc' = "fence" /\ ret' = "resize_scratch"
  /\ op' = "finalize" /\ request' = NoScratch
  /\ UNCHANGED <<shared, memory, pool, mi, failed, worker, history>>

ReapsOneMore == mi >= First
MoreToReap == mi > First

Reap ==
  /\ mpc = "reap" /\ MoreToReap
  /\ IF registry[mi - 1] = Nil
       THEN mi' = mi - 1 /\ UNCHANGED <<state, mpc>>
       ELSE /\ state' = [state EXCEPT ![registry[mi - 1]] = "Terminating"]
            /\ mpc' = "reap_wait" /\ UNCHANGED mi
  /\ UNCHANGED <<registry, fn, mutex, memory, pool, frame, worker, history>>

(* the destructor of the worker says that it is gone                       *)
NotAwaited == TRUE
Reaped == state[Process] # "Inactive"

ReapWait ==
  /\ mpc = "reap_wait" /\ Reaped
  /\ state' = [state EXCEPT ![Process] = "Inactive"]
  /\ mpc' = "reap" /\ mi' = mi - 1
  /\ UNCHANGED <<registry, fn, mutex, memory, pool, frame, worker, history>>

FinalizeEnds ==
  /\ mpc = "reap" /\ ~MoreToReap
  /\ IF inPool
       THEN /\ registry' = [registry EXCEPT ![0] = Nil]
            /\ ends' = NoScratch /\ scratch' = [scratch EXCEPT ![0] = NoScratch]
       ELSE UNCHANGED <<registry, memory>>
  /\ poolSize' = 0 /\ inPool' = FALSE
  /\ state' = [state EXCEPT ![Process] = "Inactive"]
  /\ Goto("idle")
  /\ UNCHANGED <<fn, mutex, begin, mi, ret, request, failed, worker, history>>
-----------------------------------------------------------------------------
Construct(e) == Claim(e) \/ Report(e)

Serve(e) ==
  \/ CallFunction(e) \/ RunFunctor(e) \/ ResizeOwn(e)
  \/ SleepLock(e) \/ SleepUnlock(e) \/ SleepDeactivate(e)
  \/ FanIn(e) \/ Deactivate(e) \/ WakeUp(e)

Worker(e) == Construct(e) \/ Serve(e) \/ Destroy(e) \/ Farewell(e)

InitializeStep ==
  \/ SpawnWorks \/ SpawnFails \/ SpawnReported \/ SpawnedAll \/ Settle
  \/ InitializeFails \/ PoolIsUp

ResizeStep ==
  \/ ResizeScratch \/ ResizeNothing \/ ResizeThrows \/ ResizeStart
  \/ SerialActivate \/ SerialWait \/ SerialEnd

LaunchStep ==
  \/ StartThrows \/ Start \/ Activate \/ Activated
  \/ ProcessRunsFunctor \/ ProcessFanIn \/ ProcessDeactivate

MasterStep ==
  \/ InitializeStep
  \/ FenceWait \/ FenceClear
  \/ ResizeStep
  \/ LaunchStep
  \/ SleepBegins \/ WakeLock \/ WakeUnlock
  \/ Reap \/ ReapWait \/ FinalizeEnds

Application ==
  \/ InitializeThrows
  \/ \E n \in 1..MaxThreads, b \in SpawnBegins : Initialize(n, b)
  \/ Fence \/ ParallelFor \/ (\E size \in Requests : ParallelReduce(size))
  \/ Sleep \/ Wake \/ Finalize

Next ==
  \/ Application
  \/ MasterStep
  \/ \E e \in Slot : Worker(e)
  \/ ClaimFails \/ ClaimStray

Spec == Init /\ [][Next]_vars

(* Every thread is scheduled: spinning threads yield.  The application is  *)
(* free never to call again.                                               *)
Fairness ==
  /\ WF_vars(MasterStep)
  /\ WF_vars(ClaimFails \/ ClaimStray \/ \E e \in Entry : Claim(e))
  /\ \A e \in Slot : WF_vars(Worker(e))

FairSpec == Spec /\ Fairness
-----------------------------------------------------------------------------
(* Properties.                                                             *)

Up == poolSize > 0 /\ op \notin {"initialize", "finalize"}

MasterLabel ==
  {"idle", "spawn", "spawned", "settle", "fence", "clear", "resize_scratch", "resize",
   "serial", "serial_wait", "start", "activate", "functor", "fan_in", "lock",
   "wake_lock", "wake_unlock", "reap", "reap_wait", "crashed"}
WorkerLabel ==
  {"none", "report", "call", "functor", "resize", "lock", "unlock", "fan_in",
   "sleep_fan_in", "deactivate", "wait", "destroy", "farewell", "crashed"}

TypeOK ==
  /\ poolSize \in 0..MaxThreads /\ inPool \in BOOLEAN /\ begin \in {0, 1}
  /\ registry \in [Slot -> Thread \cup {Nil}]
  /\ state \in [Thread -> State]
  /\ fn \in Function
  /\ mutex \in Thread \cup {Nil}
  /\ ends \in Size /\ scratch \in [Slot -> Size]
  /\ mpc \in MasterLabel
  /\ op \in Call \cup {"none"}
  /\ ret \in {"idle", "resize", "resize_scratch", "lock"}
  /\ request \in Size /\ mi \in 0..MaxThreads /\ failed \in BOOLEAN
  /\ newborn \in BOOLEAN
  /\ wpc \in [Slot -> WorkerLabel]
  /\ wi \in [Slot -> 0..MaxThreads]
  /\ ran \in [Slot -> Nat] /\ leaked \in Nat

(* A launch is joined: whenever the process is back in application code    *)
(* (or about to launch again) with the pool up and awake, every thread of  *)
(* the pool ran the last functor exactly once or no functor was launched,  *)
(* and is deactivated and waiting.  This is what fence() promises through  *)
(* the root alone: "does not return until all dispatched functors ... have *)
(* completed".                                                             *)
LaunchIsOver == mpc \in {"idle", "resize_scratch", "start"} /\ fn = "null"

EveryoneRan ==
  Up /\ LaunchIsOver =>
    \A e \in Entries(poolSize) : ran[e] = ran[0] /\ ran[e] <= 1

EveryoneWaits ==
  Up /\ LaunchIsOver =>
    \A e \in Entries(poolSize) :
      NotActive(e) /\ wpc[e] = IF registry[e] = Process THEN "none" ELSE "wait"

JoinIsSound == EveryoneRan /\ EveryoneWaits

(* The fan-in is sound at every entry, not only at the root: a thread that *)
(* ran the functor and is deactivated stands for its whole subtree.        *)
SubtreeIsDone ==
  Up /\ fn = "functor" =>
    \A e \in Entries(poolSize) :
      ran[e] = 1 /\ NotActive(e) => \A d \in Subtree(e, poolSize) :
                                      ran[d] = 1 /\ NotActive(d)

(* No thread calls a null s_current_function, and neither the process nor  *)
(* a worker dereferences an empty entry of s_threads_exec.                 *)
NoCrash == mpc # "crashed" /\ \A e \in Slot : wpc[e] # "crashed"

(* A functor never runs on scratch smaller than its launch asked for, and  *)
(* every thread's scratch has the layout the process believes it has:      *)
(* scratch_memory() and reduce_memory() are offsets from the same ends.    *)
ScratchIsReady ==
  \A e \in Entries(poolSize) :
    wpc[e] = "functor" \/ (e = 0 /\ mpc = "functor") =>
      /\ scratch[e] = ends
      /\ request.reduce <= ends.reduce /\ request.thread <= ends.thread

(* execute_serial gives each thread the machine to itself, so that memory  *)
(* is touched first by its owner: while one resizes, all others wait.      *)
SerialIsExclusive ==
  \A e, d \in Entries(poolSize) :
    wpc[e] = "resize" /\ d # e => wpc[d] \in {"none", "wait"}

(* A pool that came up has a thread in every entry; each sits at its own.  *)
Formed == poolSize > 0 /\ mpc \notin {"spawn", "spawned", "settle", "reap", "reap_wait"}

PoolIsComplete ==
  Formed => \A e \in Entries(poolSize) :
              registry[e] = IF e = 0 /\ inPool THEN Process ELSE e

(* After finalize no worker is left, and nothing in the table.             *)
FinalizeReaps ==
  [][op = "finalize" /\ mpc' = "idle" =>
       leaked' = 0 /\ \A e \in Slot : wpc'[e] = "none" /\ registry'[e] = Nil]_vars

(* A worker never deactivates itself over a launch it has not served: the  *)
(* master's write of Active is never lost.                                 *)
NoActivationLost ==
  [][\A e \in Entry :
       fn = "functor" /\ state[e] = "Active" /\ state'[e] # "Active" => ran[e] = 1]_vars

(* From the return of sleep() to the call of wake() no worker gets past the *)
(* global lock: they block in the operating system and consume nothing.    *)
SleepHolds ==
  [][fn = "sleep" /\ mpc = "idle" /\ mpc' = "idle" =>
       \A e \in Entry : wpc[e] = "lock" => wpc'[e] = "lock"]_vars

(* in_parallel() is exact where it is asked: true in a functor, false in   *)
(* the allocation of scratch (HostSpace refuses to allocate in parallel)   *)
(* and in application code.                                                *)
InParallelIsExact ==
  /\ mpc = "idle" => ~InParallel(Process)
  /\ mpc = "functor" => InParallel(Process)
  /\ \A e \in Entry : /\ wpc[e] = "functor" => InParallel(e)
                      /\ wpc[e] = "resize" => ~InParallel(e)

(* Scratch memory is allocated one thread at a time, outside every launch, *)
(* as HostSpace and first touch demand, and is there when a functor runs.  *)
AllocationIsSafe == ScratchIsReady /\ SerialIsExclusive /\ InParallelIsExact

(* The pool is a fork-join pool: the refinement maps a launch to the time  *)
(* s_current_function holds its functor.                                   *)
Phase == IF ~Up THEN "down" ELSE IF fn = "functor" THEN "running" ELSE "ready"
Members == IF Up THEN Entries(poolSize) ELSE {}

FJ == INSTANCE ForkJoin WITH phase <- Phase, pool <- Members,
                             count <- [e \in Members |-> ran[e]]
IsForkJoin == FJ!Spec
IsFairForkJoin == FJ!FairSpec

(* Every call returns to the application.                                  *)
CallsReturn == \A call \in Call : op = call ~> mpc = "idle"

(* Whom sleep left at the global lock gets past it once wake is called, the *)
(* process in its own execute_sleep included: wake lets go of the lock      *)
(* before it waits for anybody.  Only another sleep may come in between.    *)
AtTheLock == mpc = "wake_lock" \/ \E e \in Entry : wpc[e] = "lock"
AsleepAgain == fn = "sleep" /\ op # "wake"
WakePassesLock == op = "wake" ~> ~AtTheLock \/ AsleepAgain

(* The global lock is where a pool sleeps: nobody leaves it before wake is  *)
(* called, and everybody does afterwards.                                  *)
SleepEndsWithWake == SleepHolds /\ WakePassesLock

(* finalize returns: every worker it told to terminate does                *)
FinalizeReturns == op = "finalize" ~> mpc = "idle"
=============================================================================
