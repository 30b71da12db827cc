-------------------------------- MODULE TPI --------------------------------
(***************************************************************************)
(* The Thread Pool Interface: a master and workers it creates once, which  *)
(* spin between launches.  A launch gives every thread a work subprogram,  *)
(* by rank when there are no more calls than threads and else by a shared  *)
(* countdown, and is over when the threads have met in a tree: a thread    *)
(* waits for its children, joins what they have reduced, and lowers its    *)
(* own control.  The master may start work and wait for it later, and may  *)
(* block the workers in the operating system.                              *)
(*                                                                         *)
(* Calls refused with an error change nothing and are left out.            *)
(***************************************************************************)
EXTENDS TPIFan, Bags
LOCAL INSTANCE BagsExt

CONSTANTS
  MaxThreads, PoolSizes,  \* the thread counts asked for, and their maximum
  MaxWork, Launches,      \* the work and lock counts asked for; the largest of work
  CreateMayFail   \* may pthread_create fail?

ASSUME TPIAssumption ==
  /\ MaxThreads \in Nat \ {0} /\ PoolSizes \subseteq 1..MaxThreads
  /\ MaxWork \in Nat /\ MaxThreads <= MaxWork 
  /\ Launches \subseteq (0..MaxWork) \X (0..1)
  /\ CreateMayFail \in BOOLEAN
ASSUME CountAssumption == MaxThreads <= THREAD_COUNT_MAX

VARIABLES
  threadCount,    \* m_thread_count
  size,           \* the count TPI_Init was called with, of which m_thread_fan is
  routine,        \* m_work_routine: "none", "work" or "block" (local_block)
  workCount,      \* m_work_count
  workThreads,    \* m_work_thread_count
  claim,          \* m_work_count_claim
  lockCount,      \* m_lock_count
  reduces,        \* was a reduction asked for?
  holder,         \* the thread that has locked m_lock[0], or Nobody
  control,        \* m_control of each thread
  pc,             \* where each thread is
  rank,           \* the rank of its current or last call
  child,          \* the child it waits for next, down from the last
  ending,         \* has it seen the launch that ends it?
  value,          \* what each thread's reduction has joined: calls, and
                  \* the values initialized (of thread t: -t)
  ran,            \* the threads that ran each rank of the launch
  then            \* what the master does after starting the workers

launch == <<routine, workCount, workThreads, lockCount, reduces>>
vars == <<threadCount, size, launch, claim, holder, control, pc, rank, child, ending, value, ran,
          then>>

Thread == 0..(MaxThreads - 1)
Worker == Thread \ {0}
Nobody == -1
Rank == 0..(MaxWork - 1)

NoRank == [t \in Thread |-> -1]
NoValue == [t \in Thread |-> EmptyBag]
NotRun == [r \in Rank |-> {}]

Init ==
  /\ threadCount = 0 /\ size = 0 /\ routine = "none" /\ workCount = 0 /\ workThreads = 0 /\ claim = 0
  /\ lockCount = 0 /\ reduces = FALSE /\ holder = Nobody
  /\ control = [t \in Thread |-> 0]
  /\ pc = [t \in Thread |-> IF t = 0 THEN "idle" ELSE "off"]
  /\ rank = NoRank /\ child = [t \in Thread |-> 0]
  /\ ending = [t \in Thread |-> FALSE] /\ value = NoValue
  /\ ran = NotRun /\ then = "return"
-----------------------------------------------------------------------------
Go(t, old, new) == pc[t] = old /\ pc' = [pc EXCEPT ![t] = new]
Put(f, t, v) == [f EXCEPT ![t] = v]
Same == <<threadCount, size, launch, then>>
-----------------------------------------------------------------------------
(* local_start: what a launch sets, then the controls from last to first   *)
Begin(work, count, threads, locks, reduced, next) ==
  /\ Go(0, "idle", IF threadCount > 1 THEN "start" ELSE next)
  /\ routine = "none" /\ routine' = work /\ workCount' = count /\ lockCount' = locks
  /\ reduces' = reduced /\ then' = next
  /\ IF threadCount > 1 THEN /\ workThreads' = threads /\ claim' = count
                             /\ child' = Put(child, 0, threadCount - 1)
     ELSE UNCHANGED <<workThreads, claim, child>>
  /\ UNCHANGED <<threadCount, size, control, ending, value, ran, rank>>

Run ==
  \E l \in Launches : Begin("work", l[1], threadCount, l[2], FALSE, "enter") /\ UNCHANGED holder
ReduceCounts == {l[1] : l \in Launches} \ {0}
RunReduce ==
  \E count \in ReduceCounts :
    Begin("work", count, threadCount, 0, TRUE, "enter") /\ UNCHANGED holder
AllThreads == IF threadCount > 0 THEN threadCount ELSE 1
LockCounts == {l[2] : l \in Launches}
RunThreads ==
  /\ \/ \E locks \in LockCounts : Begin("work", AllThreads, threadCount, locks, FALSE, "enter")
     \/ Begin("work", AllThreads, threadCount, 0, TRUE, "enter")
  /\ UNCHANGED holder

(* The work is for the workers; TPI_Start_threads without a reduction      *)
(* waits all the same.                                                     *)
Start ==
  \E l \in Launches : Begin("work", l[1], threadCount - 1, l[2], FALSE, "idle") /\ UNCHANGED holder
StartReduce ==
  \E count \in ReduceCounts :
    Begin("work", count, threadCount - 1, 0, TRUE, "idle") /\ UNCHANGED holder
OtherThreads == IF threadCount > 1 THEN threadCount - 1 ELSE 1
StartThreads ==
  /\ \/ \E locks \in LockCounts :
          Begin("work", OtherThreads, threadCount - 1, locks, FALSE, "enter")
     \/ Begin("work", OtherThreads, threadCount - 1, 0, TRUE, "idle")
  /\ UNCHANGED holder

Wait == routine = "work" /\ Go(0, "idle", "enter")
        /\ UNCHANGED <<Same, claim, holder, control, rank, child, ending, value, ran>>

Block ==
  /\ holder = Nobody /\ holder' = 0
  /\ Begin("block", threadCount, threadCount, 0, FALSE, "idle")
Unblock ==
  /\ routine = "block" /\ holder = 0 /\ holder' = Nobody /\ Go(0, "idle", "enter")
  /\ UNCHANGED <<Same, claim, control, rank, child, ending, value, ran>>

Finalize == Begin("none", 0, 0, 0, FALSE, "enter") /\ UNCHANGED holder

FromTheFirst == threadCount - child[0]
Activated == child[0]

Activate ==
  /\ pc[0] = "start"
  /\ control' = Put(control, Activated, 1)
  /\ child' = Put(child, 0, child[0] - 1)
  /\ IF child[0] = 1 THEN Go(0, "start", then) ELSE UNCHANGED pc
  /\ UNCHANGED <<Same, claim, holder, rank, ending, value, ran>>
-----------------------------------------------------------------------------
(* local_barrier: initialize, run, wait for the children and join          *)
Serial(t) == t = 0 /\ threadCount <= 1
Joins == reduces /\ threadCount > 1

Enter(t) ==
  /\ Go(t, "enter", IF routine = "none" THEN "join" ELSE "work")
  /\ child' = Put(child, t, IF Serial(t) THEN 0 ELSE SpanEnd(size, t) - 1)
  /\ value' = IF Joins /\ t # 0 THEN Put(value, t, SetToBag({-t})) ELSE value
  /\ UNCHANGED <<Same, claim, holder, control, rank, ending, ran>>

(* local_run: the next call of the thread, if there is one                 *)
NeverByRank == FALSE
ByRank == workCount <= workThreads
OwnRank(t) == t
RankOf(t) == threadCount - 1 - t
Call(t, r) ==
  /\ Go(t, "work", "call") /\ rank' = Put(rank, t, r) /\ ran' = Put(ran, r, ran[r] \cup {t})
NoCall(t) == Go(t, "work", "join") /\ UNCHANGED <<rank, ran>>
Working == <<Same, holder, control, child, ending, value>>

CallSerial ==
  /\ threadCount <= 1
  /\ IF rank[0] + 1 < workCount THEN Call(0, rank[0] + 1) ELSE NoCall(0)
  /\ UNCHANGED <<Working, claim>>

CallByRank(t) ==
  /\ threadCount > 1 /\ ByRank
  /\ IF RankOf(t) < workCount THEN Call(t, RankOf(t)) ELSE NoCall(t)
  /\ UNCHANGED <<Working, claim>>

Claims == claim > 0

CallByClaim(t) ==
  /\ threadCount > 1 /\ ~ByRank /\ claim' = claim - 1
  /\ IF Claims THEN Call(t, workCount - claim) ELSE NoCall(t)
  /\ UNCHANGED Working

Contribute(t) == value' = IF reduces THEN Put(value, t, BagAdd(value[t], rank[t])) ELSE value
Again(t) == IF threadCount > 1 /\ ByRank THEN "join" ELSE "work"
Returned == <<Same, claim, control, rank, child, ending, ran>>

(* The subprogram takes the lock, if the launch has one.                   *)
LockWork(t) ==
  /\ Go(t, "call", "locked") /\ routine = "work" /\ lockCount > 0
  /\ holder = Nobody /\ holder' = t
  /\ UNCHANGED <<Returned, value>>
UnlockWork(t) ==
  /\ Go(t, "locked", Again(t)) /\ holder' = Nobody /\ Contribute(t) /\ UNCHANGED Returned
Work(t) ==
  /\ Go(t, "call", Again(t)) /\ routine = "work" /\ lockCount = 0
  /\ Contribute(t) /\ UNCHANGED <<Returned, holder>>

(* local_block locks and unlocks                                           *)
BlockWork(t) ==
  /\ Go(t, "call", Again(t)) /\ routine = "block" /\ (rank[t] = 0 \/ holder = Nobody)
  /\ UNCHANGED <<Returned, holder, value>>

NeverWaits(t) == FALSE
Waits(t) == control[child[t]] = 1

JoinChild(t) ==
  /\ pc[t] = "join" /\ child[t] >= SpanBegin(size, t) /\ ~Waits(t)
  /\ child' = Put(child, t, child[t] - 1)
  /\ value' = IF Joins /\ routine # "none"
               THEN Put(value, t, value[t] (+) value[child[t]]) ELSE value
  /\ UNCHANGED <<Same, claim, holder, control, pc, rank, ending, ran>>

Joined(t) == pc[t] = "join" /\ child[t] < SpanBegin(size, t)

(* local_driver                                                            *)
Idle == <<Same, claim, holder, rank, child, value, ran>>

Lower(t) ==
  /\ t # 0 /\ Joined(t) /\ control' = Put(control, t, 0)
  /\ pc' = Put(pc, t, IF ending[t] THEN "off" ELSE "spin") /\ UNCHANGED <<Idle, ending>>

Wake(t) ==
  /\ control[t] = 1 /\ Go(t, "spin", "enter") /\ ending' = Put(ending, t, routine = "none")
  /\ UNCHANGED <<Idle, control>>

(* the end of local_wait; TPI_Finalize has no threads after it             *)
WaitReturns ==
  /\ Joined(0) /\ then # "made" /\ Go(0, "join", "idle") /\ then' = "return"
  /\ routine' = "none" /\ workCount' = 0 /\ lockCount' = 0 /\ reduces' = FALSE
  /\ IF threadCount > 1 THEN workThreads' = 0 /\ claim' = 0 ELSE UNCHANGED <<workThreads, claim>>
  /\ threadCount' = IF routine = "none" THEN 0 ELSE threadCount
  /\ rank' = NoRank /\ value' = NoValue /\ ran' = NotRun
  /\ UNCHANGED <<size, holder, control, child, ending>>
-----------------------------------------------------------------------------
(* TPI_Init: threads from last to first; if one cannot be made, those that *)
(* were are ended, and none is left                                        *)
Made == <<routine, workCount, workThreads, lockCount, reduces, claim, holder, rank, value, ran>>

Initialize(n) ==
  /\ threadCount = 0 /\ routine = "none" /\ threadCount' = n /\ size' = n /\ then' = "made"
  /\ control' = [t \in Thread |-> IF t <= n THEN 1 ELSE control[t]]
  /\ child' = Put(child, 0, n - 1) /\ Go(0, "idle", IF n > 1 THEN "create" ELSE "enter")
  /\ UNCHANGED <<Made, ending>>

Create ==
  /\ pc[0] = "create" /\ child' = Put(child, 0, child[0] - 1)
  /\ pc' = [pc EXCEPT ![child[0]] = "enter", ![0] = IF child[0] = 1 THEN "enter" ELSE @]
  /\ ending' = Put(ending, child[0], FALSE)
  /\ UNCHANGED <<Made, threadCount, size, then, control>>

InitReturns ==
  /\ Joined(0) /\ then = "made" /\ Go(0, "join", "idle") /\ then' = "return"
  /\ UNCHANGED <<Made, threadCount, size, child, control, ending>>

CreateFails ==
  /\ CreateMayFail /\ Go(0, "create", "unmake") /\ control' = Put(control, child[0], 0)
  /\ UNCHANGED <<Made, threadCount, size, then, child, ending>>

(* each of those made, the last first: wait until it spins, activate it,   *)
(* wait until it has ended                                                 *)
Last == threadCount - 1
Unmaking == <<Made, size, child, ending>>

UnmakeNext ==
  /\ Go(0, "unmake", "activate") /\ child[0] < Last /\ threadCount' = Last
  /\ UNCHANGED <<Unmaking, then, control>>
UnmakeActivates ==
  /\ Go(0, "activate", "reap") /\ control[threadCount] = 0
  /\ control' = Put(control, threadCount, 1) /\ UNCHANGED <<Unmaking, threadCount, then>>
UnmakeReaps ==
  /\ Go(0, "reap", "unmake") /\ control[threadCount] = 0
  /\ UNCHANGED <<Unmaking, threadCount, then, control>>
InitFails ==
  /\ Go(0, "unmake", "idle") /\ child[0] >= Last /\ threadCount' = 0 /\ then' = "return"
  /\ UNCHANGED <<Unmaking, control>>
-----------------------------------------------------------------------------
Barrier(t) ==
  \/ Enter(t) \/ CallByRank(t) \/ CallByClaim(t) \/ LockWork(t) \/ UnlockWork(t) \/ Work(t)
  \/ BlockWork(t) \/ JoinChild(t)
DriverSteps(t) == Barrier(t) \/ Lower(t) \/ Wake(t)
MasterSteps ==
  \/ Activate \/ Barrier(0) \/ CallSerial \/ WaitReturns
  \/ Create \/ InitReturns \/ CreateFails
  \/ UnmakeNext \/ UnmakeActivates \/ UnmakeReaps \/ InitFails
Calls ==
  \/ \E n \in PoolSizes : Initialize(n)
  \/ Finalize \/ Run \/ RunReduce \/ RunThreads \/ Start \/ StartReduce \/ StartThreads
  \/ Wait \/ Block \/ Unblock

Next == Calls \/ MasterSteps \/ \E t \in Worker : DriverSteps(t)

Spec == Init /\ [][Next]_vars

(* Threads are scheduled and work returns; nothing makes the master call.  *)
FairSpec == Spec /\ WF_vars(MasterSteps) /\ \A t \in Worker : WF_vars(DriverSteps(t))
-----------------------------------------------------------------------------
TypeOK ==
  /\ threadCount \in 0..MaxThreads /\ size \in 0..MaxThreads
  /\ routine \in {"none", "work", "block"} /\ workCount \in 0..MaxWork
  /\ workThreads \in 0..MaxThreads /\ claim \in (-MaxThreads)..MaxWork /\ lockCount \in 0..1
  /\ reduces \in BOOLEAN /\ holder \in Thread \cup {Nobody} /\ control \in [Thread -> 0..1]
  /\ rank \in [Thread -> Rank \cup {-1}] /\ child \in [Thread -> 0..MaxThreads]
  /\ ending \in [Thread -> BOOLEAN] /\ \A t \in Thread : IsABag(value[t])
  /\ ran \in [Rank -> SUBSET Thread]
  /\ then \in {"return", "made", "enter", "idle"}

(* Each rank of a launch is called once, by one thread, and all calls have *)
(* returned when the launch is over.                                       *)
Running == {rank[t] : t \in {t \in Thread : pc[t] \in {"call", "locked"}}}
Abstract ==
  INSTANCE WorkPool WITH
    MaxCalls <- MaxWork, up <- threadCount > 0 /\ then # "made", launch <- routine,
    left <- {r \in 0..(workCount - 1) : ran[r] = {}}, running <- Running
IsWorkPool == Abstract!Spec

(* "Run a work subprogram exactly once on each thread", or on each that is *)
(* not the master: the threads a launch is for, and as many calls.         *)
LaunchIsOver == Joined(0) /\ routine = "work"
OnceOnEachThread ==
  LaunchIsOver /\ threadCount > 1 /\ workCount = workThreads
    => \A t \in (threadCount - workThreads)..(threadCount - 1) :
         Cardinality({r \in Rank : t \in ran[r]}) = 1

(* "Every initialized reduce value will appear exactly once" in a join,    *)
(* and what every call has added is in the master's value.                 *)
ReduceIsExact ==
  LaunchIsOver /\ reduces
    => value[0] = SetToBag(0..(workCount - 1) \cup {-t : t \in 1..(threadCount - 1)})

(* A launch makes the calls it was asked for, and joins what they return.  *)
LaunchIsExact == TypeOK /\ OnceOnEachThread /\ ReduceIsExact

(* Between launches the workers of the pool spin, all of them, and there   *)
(* is no other: none reads the next launch before it is activated, none is *)
(* left by TPI_Finalize or by a failed TPI_Init, and the lock is free.     *)
QuietWhenReady ==
  pc[0] = "idle" /\ routine = "none" =>
    /\ holder = Nobody
    /\ \A t \in Worker : IF t < threadCount THEN pc[t] = "spin" /\ control[t] = 0
                         ELSE pc[t] = "off"

(* Work that was started is run by the workers, waited for or not.         *)
StartedWorkRuns ==
  routine = "work" /\ threadCount > 1 ~> \A r \in 0..(workCount - 1) : ran[r] # {}

(* Every call returns.                                                     *)
CallsReturn == pc[0] # "idle" ~> pc[0] = "idle"

(* Started work and calls both come to their end.                          *)
Progress == StartedWorkRuns /\ CallsReturn
=============================================================================
