------------------------------ MODULE TPIProofs ------------------------------
(***************************************************************************)
(* Proofs about TPI, for all numbers of threads and calls: between two     *)
(* launches the pool is quiet, a launch makes each of its calls once and   *)
(* joins all that they reduce, and TPI implements WorkPool.                *)
(***************************************************************************)
EXTENDS TPI, ArithmeticProofs
LOCAL INSTANCE BagsExt

-----------------------------------------------------------------------------
(* The inductive invariant, first of who is where                          *)

MasterLabel == {"idle", "start", "enter", "work", "call", "locked", "join", "create",
                "unmake", "activate", "reap"}
BarrierLabel == {"enter", "work", "call", "locked", "join"}
WorkerLabel == BarrierLabel \cup {"off", "spin"}

Typed ==
  /\ threadCount \in 0..MaxThreads /\ size \in PoolSizes \cup {0}
  /\ routine \in {"none", "work", "block"} /\ workCount \in 0..MaxWork
  /\ workThreads \in 0..MaxThreads /\ claim \in Int /\ lockCount \in 0..1
  /\ reduces \in BOOLEAN /\ holder \in Thread \cup {Nobody} /\ control \in [Thread -> 0..1]
  /\ pc \in [Thread -> MasterLabel \cup WorkerLabel]
  /\ pc[0] \in MasterLabel /\ \A t \in Worker : pc[t] \in WorkerLabel
  /\ rank \in [Thread -> Rank \cup {-1}] /\ child \in [Thread -> 0..MaxThreads]
  /\ ending \in [Thread -> BOOLEAN]
  /\ ran \in [Rank -> SUBSET Thread]
  /\ then \in {"return", "made", "enter", "idle"}

Ready == pc[0] = "idle" /\ routine = "none"
Unmakes == pc[0] \in {"unmake", "activate", "reap"}
Ending == routine = "none" /\ then = "enter"

(* What the master is at                                                   *)
MasterOK ==
  /\ then = "return" <=> Ready
  /\ then = "made" => /\ routine = "none" /\ threadCount > 0
                      /\ pc[0] \in {"create", "enter", "join", "unmake", "activate", "reap"}
  /\ then = "idle" => routine # "none"
  /\ pc[0] = "create" \/ Unmakes => then = "made"
  /\ pc[0] = "start" => then \in {"enter", "idle"}
  /\ pc[0] \in {"create", "start"} => threadCount > 1 /\ child[0] \in 1..(threadCount - 1)
  /\ threadCount > 0 /\ ~Unmakes => size = threadCount
  /\ Unmakes => child[0] \in 1..(threadCount - 1) /\ threadCount <= size
  /\ pc[0] \in {"activate", "reap"} => threadCount < size
  /\ routine = "none" => /\ pc[0] \notin {"work", "call", "locked"}
                         /\ workCount = 0 /\ lockCount = 0 /\ ~reduces
  /\ routine # "none" /\ threadCount > 1 =>
       workThreads \in {threadCount - 1, threadCount} /\ claim <= workCount
  /\ routine = "block" => lockCount = 0 /\ ~reduces /\ then = "idle"
  /\ pc[0] = "create" => \A t \in 1..child[0] : control[t] = 1

(* The workers the master has activated, or created                        *)
Out == IF Ready \/ Unmakes THEN {}
       ELSE IF pc[0] \in {"create", "start"} THEN (child[0] + 1)..(threadCount - 1)
       ELSE 1..(threadCount - 1)

(* One that is in the launch: it has not entered, or is on its way         *)
Active(t) ==
  /\ control[t] = 1
  /\ pc[t] \in (IF routine = "none" THEN {"spin", "enter", "join"} ELSE {"spin"} \cup BarrierLabel)
  /\ IF pc[t] = "spin" THEN then # "made" ELSE ending[t] = Ending
Done(t) == control[t] = 0 /\ pc[t] = IF Ending THEN "off" ELSE "spin"
Resting(t) == control[t] = 0 /\ pc[t] = "spin"

(* One that was created, of a pool that could not be made                  *)
Spare(t) == \/ control[t] = 1 /\ pc[t] \in {"enter", "join"} /\ ~ending[t]
            \/ Resting(t)
Reaped(t) == \/ control[t] = 1 /\ pc[t] = "spin"
             \/ control[t] = 1 /\ pc[t] \in {"enter", "join"} /\ ending[t]
             \/ control[t] = 0 /\ pc[t] = "off"

WorkersOK ==
  /\ \A t \in Out : Active(t) \/ Done(t)
  /\ ~Unmakes => \A t \in Worker \ Out :
       IF t < threadCount /\ pc[0] # "create" THEN Resting(t) ELSE pc[t] = "off"
  /\ Unmakes => \A t \in Worker :
       IF child[0] < t /\ t < threadCount THEN Spare(t)
       ELSE IF pc[0] = "activate" /\ t = threadCount THEN Spare(t)
       ELSE IF pc[0] = "reap" /\ t = threadCount THEN Reaped(t)
       ELSE pc[t] = "off"

(* A thread that is done stands for the threads below it, and one that     *)
(* waits has seen a part of its children done.                             *)
Kids(t) == {u \in SpanBegin(size, t)..(SpanEnd(size, t) - 1) : u < threadCount}
Below(n) == {t \in Worker : child[0] < t /\ t < n}
Met == Out \cup (IF Unmakes THEN Below(threadCount) ELSE {})
TreeOK == \A t \in Met : control[t] = 0 => \A u \in Kids(t) : control[u] = 0
JoinOK == \A t \in Thread : pc[t] \in BarrierLabel \ {"enter"} =>
  /\ child[t] >= SpanBegin(size, t) - 1
  /\ IF Serial(t) THEN child[t] = 0 ELSE child[t] <= SpanEnd(size, t) - 1
  /\ \A u \in Kids(t) : u > child[t] => control[u] = 0

(* The lock is held by a thread at its work, or by the master that blocks. *)
HolderOK ==
  /\ \A t \in Thread : pc[t] = "locked" => holder = t
  /\ holder # Nobody => \/ pc[holder] = "locked"
                        \/ holder = 0 /\ routine = "block" /\ pc[0] \in {"start", "idle"}

PlaceInv == Typed /\ MasterOK /\ WorkersOK /\ TreeOK /\ JoinOK /\ HolderOK
-----------------------------------------------------------------------------
(* What the invariant says at once                                         *)

USE TPIAssumption

(* The numbers of the pool, and their bounds                               *)
LEMMA Numbers ==
  ASSUME Typed, MasterOK
  PROVE  /\ threadCount \in Nat /\ size \in Nat /\ threadCount <= MaxThreads /\ size <= MaxThreads
         /\ ~Unmakes /\ threadCount > 0 => size = threadCount
         /\ threadCount <= size \/ threadCount = 0
         /\ 0 \in Thread /\ MaxThreads \in Nat
BY DEF Typed, MasterOK, Thread

(* The workers of a launch are workers of the pool.                        *)
LEMMA OutWorkers ==
  ASSUME Typed, MasterOK
  PROVE  Out \subseteq Worker /\ \A u \in Out : u < threadCount
<1>1. threadCount \in Nat /\ threadCount <= MaxThreads /\ MaxThreads \in Nat
  BY Numbers
<1>2. pc[0] \in {"create", "start"} => child[0] \in 1..(threadCount - 1)
  BY DEF MasterOK
<1>3. ASSUME NEW u \in Out PROVE u \in 1..(threadCount - 1)
  BY <1>1, <1>2, <1>3 DEF Out
<1>4. \A u \in 1..(threadCount - 1) : u \in Worker /\ u < threadCount
  BY <1>1 DEF Worker, Thread
<1>. QED
  BY <1>3, <1>4

(* The children of a thread of the pool are workers, and come after it.    *)
LEMMA KidFacts ==
  ASSUME Typed, MasterOK, NEW t \in Thread
  PROVE  /\ SpanBegin(size, t) \in Nat \ {0} /\ SpanEnd(size, t) \in Nat
         /\ SpanBegin(size, t) <= SpanEnd(size, t)
         /\ t < size => SpanEnd(size, t) <= size
         /\ \A u \in Kids(t) : u \in Worker /\ u < threadCount /\ (t < size => t < u)
<1>1. t \in Nat
  BY DEF Thread
<1>2. CASE size = 0
  <2>1. SpanBegin(0, 0) <= SpanBegin(0, t) /\ SpanBegin(0, t) <= SpanBegin(0, t + 1)
    BY <1>1, SpansGrow
  <2>2. SpanBegin(0, 0) = 1 /\ SpanBegin(0, t) \in Nat /\ SpanBegin(0, t + 1) \in Nat
    BY <1>1, SpanBegins
  <2>3. threadCount = 0
    BY <1>2, Numbers
  <2>. QED
    BY <1>1, <1>2, <2>1, <2>2, <2>3 DEF Kids, SpanEnd
<1>3. CASE size # 0
  <2>1. size \in Nat \ {0} /\ size \in 1..THREAD_COUNT_MAX
    BY <1>3, Numbers, CountAssumption DEF THREAD_COUNT_MAX
  <2>2. /\ SpanBegin(size, t) \in Nat \ {0} /\ SpanEnd(size, t) \in Nat
        /\ SpanBegin(size, t) <= SpanEnd(size, t)
    BY <1>1, <2>1, SpanShape
  <2>3. t < size => /\ SpanEnd(size, t) <= size
                    /\ SpanBegin(size, t) < SpanEnd(size, t) => t < SpanBegin(size, t)
    <3>1. t < size => t \in 0..(size - 1)
      BY <1>1, <2>1
    <3>. QED
      BY <2>1, <3>1, SpanShape
  <2>4. ASSUME NEW u \in Kids(t)
        PROVE  u \in Worker /\ u < threadCount /\ (t < size => t < u)
    <3>1. u \in Int /\ SpanBegin(size, t) <= u /\ u < SpanEnd(size, t) /\ u < threadCount
      BY <2>2, <2>4 DEF Kids
    <3>. QED
      BY <1>1, <2>2, <2>3, <3>1, Numbers DEF Thread, Worker
  <2>. QED
    BY <2>2, <2>3, <2>4
<1>. QED
  BY <1>2, <1>3

(* Every worker of the pool is the child of a thread before it.            *)
LEMMA Parents ==
  ASSUME Typed, MasterOK, ~Unmakes, NEW c \in 1..(threadCount - 1)
  PROVE  \E t \in 0..(c - 1) : c \in Kids(t)
<1>1. size = threadCount /\ size \in Nat \ {0}
  BY Numbers
<1>2. size \in 1..THREAD_COUNT_MAX
  BY <1>1, Numbers, CountAssumption DEF THREAD_COUNT_MAX
<1>3. PICK t \in 0..(c - 1) : SpanBegin(size, t) <= c /\ c < SpanEnd(size, t)
  BY <1>1, <1>2, SpanShape
<1>4. t \in Nat /\ c \in Int
  BY <1>1
<1>5. SpanBegin(size, t) \in Nat /\ SpanEnd(size, t) \in Nat
  BY <1>1, <1>2, <1>4, SpanShape
<1>. QED
  BY <1>1, <1>3, <1>4, <1>5 DEF Kids

(* A worker in the barrier has its control up, and is in the pool.         *)
LEMMA InBarrier ==
  ASSUME PlaceInv, NEW t \in Worker, pc[t] \in BarrierLabel
  PROVE  /\ control[t] = 1 /\ t < size
         /\ t \in Met \/ (pc[0] \in {"activate", "reap"} /\ t = threadCount)
         /\ routine = "none" => pc[t] \in {"enter", "join"}
         /\ IF t \in Out THEN ending[t] = Ending ELSE ending[t] <=> pc[0] = "reap" /\ t = threadCount
<1>1. Typed /\ MasterOK /\ WorkersOK
  BY DEF PlaceInv
<1>2. t \in Nat \ {0} /\ threadCount \in Nat /\ size \in Nat /\ pc[t] \notin {"spin", "off"}
  BY <1>1, Numbers DEF Worker, Thread, BarrierLabel
<1>. DEFINE Place == /\ control[t] = 1 /\ t < size
                     /\ t \in Met \/ (pc[0] \in {"activate", "reap"} /\ t = threadCount)
                     /\ routine = "none" => pc[t] \in {"enter", "join"}
<1>3. ASSUME Unmakes PROVE Place
  BY <1>1, <1>2, <1>3 DEF WorkersOK, Spare, Reaped, Resting, Met, Below, MasterOK, Unmakes
<1>4. ASSUME ~Unmakes PROVE Place
  <2>1. t \in Out
    BY <1>1, <1>2, <1>4 DEF WorkersOK, Resting
  <2>2. control[t] = 1 /\ (routine = "none" => pc[t] \in {"enter", "join"})
    BY <1>1, <1>2, <2>1 DEF WorkersOK, Active, Done
  <2>3. t < threadCount
    BY <1>1, <1>2, <2>1 DEF Out, Typed
  <2>4. threadCount = size
    BY <1>1, <1>2, <1>4, <2>3, Numbers
  <2>. QED
    BY <2>1, <2>2, <2>3, <2>4 DEF Met
<1>5. /\ control[t] = 1 /\ t < size
      /\ t \in Met \/ (pc[0] \in {"activate", "reap"} /\ t = threadCount)
      /\ routine = "none" => pc[t] \in {"enter", "join"}
  BY <1>3, <1>4
<1>6. t \in Out => ending[t] = Ending
  BY <1>1, <1>5 DEF WorkersOK, Active, Done, BarrierLabel
<1>7. ASSUME t \notin Out PROVE ending[t] <=> pc[0] = "reap" /\ t = threadCount
  <2>1. Unmakes /\ child[0] < threadCount /\ child[0] < t /\ t <= threadCount
    BY <1>1, <1>5, <1>7, Numbers DEF MasterOK, Met, Below, Unmakes, Typed, Worker, Thread
  <2>2. CASE pc[0] = "reap" /\ t = threadCount
    BY <1>1, <2>1, <2>2, Numbers DEF WorkersOK, Reaped, BarrierLabel
  <2>3. CASE ~(pc[0] = "reap" /\ t = threadCount)
    <3>1. Spare(t)
      BY <1>1, <1>5, <1>7, <2>1, <2>3 DEF WorkersOK, Met, Below
    <3>. QED
      BY <2>3, <3>1 DEF Spare, Resting, BarrierLabel
  <2>. QED
    BY <2>2, <2>3
<1>. QED
  BY <1>5, <1>6, <1>7
-----------------------------------------------------------------------------
(* A step in the barrier that leaves the controls alone                    *)

Past(t) == pc[t] \in BarrierLabel \ {"enter"}
Window(t) ==
  /\ child[t] >= SpanBegin(size, t) - 1
  /\ IF Serial(t) THEN child[t] = 0 ELSE child[t] <= SpanEnd(size, t) - 1
  /\ \A u \in Kids(t) : u > child[t] => control[u] = 0

Moves(t) == \E new \in BarrierLabel \ {"enter"} :
  /\ pc[t] \in BarrierLabel /\ (routine = "none" => new = "join")
  /\ pc' = [pc EXCEPT ![t] = new]
  /\ UNCHANGED <<Same, control, ending>>
  /\ child' = [child EXCEPT ![t] = child'[t]] /\ child'[t] \in 0..MaxThreads
  /\ Window(t)'
  /\ claim' \in Int /\ claim' <= claim

(* A step in the barrier leaves everyone in place.                         *)
LEMMA MovesKeep ==
  ASSUME PlaceInv, NEW t \in Thread, Moves(t)
  PROVE  MasterOK' /\ WorkersOK' /\ TreeOK' /\ JoinOK'
<1>1. Typed /\ MasterOK /\ WorkersOK /\ TreeOK /\ JoinOK
  BY DEF PlaceInv
<1>2. PICK new \in BarrierLabel \ {"enter"} :
        /\ pc[t] \in BarrierLabel /\ (routine = "none" => new = "join")
        /\ pc' = [pc EXCEPT ![t] = new]
        /\ UNCHANGED <<Same, control, ending>>
        /\ child' = [child EXCEPT ![t] = child'[t]] /\ child'[t] \in 0..MaxThreads
        /\ Window(t)'
        /\ claim' \in Int /\ claim' <= claim
  BY DEF Moves
<1>3. /\ pc[0] \notin BarrierLabel => pc'[0] = pc[0] /\ child'[0] = child[0]
      /\ pc[0] \in BarrierLabel => pc'[0] \in BarrierLabel
      /\ pc'[0] # pc[0] /\ routine = "none" => pc'[0] = "join"
      /\ 0 \in Thread
  BY <1>1, <1>2 DEF Typed, Thread
<1>4. Out' = Out /\ Met' = Met /\ (Unmakes' <=> Unmakes) /\ (Unmakes => child'[0] = child[0])
  BY <1>2, <1>3 DEF Out, Met, Unmakes, Below, Ready, BarrierLabel, Same, launch
<1>5. MasterOK'
  <2>1. routine' = routine /\ then' = then /\ threadCount' = threadCount /\ size' = size
    BY <1>2 DEF Same, launch
  <2>. QED
    BY <1>1, <1>2, <1>3, <1>4, <2>1 DEF MasterOK, Typed, Same, launch, BarrierLabel, Ready
<1>6. /\ routine' = routine /\ then' = then /\ threadCount' = threadCount /\ size' = size
      /\ control' = control /\ ending' = ending /\ (Ending' <=> Ending)
  BY <1>2 DEF Same, launch, Ending
<1>7. \A u \in Thread : u # t => pc'[u] = pc[u] /\ child'[u] = child[u]
  BY <1>1, <1>2 DEF Typed
<1>8. ASSUME t # 0
      PROVE  /\ control[t] = 1 /\ pc'[t] = new
             /\ IF t \in Out THEN ending[t] = Ending ELSE ending[t] <=> pc[0] = "reap" /\ t = threadCount
             /\ t \in Met \/ (pc[0] \in {"activate", "reap"} /\ t = threadCount)
  <2>1. t \in Worker /\ pc[t] \in BarrierLabel
    BY <1>2, <1>8 DEF Worker
  <2>2. pc'[t] = new
    BY <1>1, <1>2 DEF Typed
  <2>. QED
    BY <2>1, <2>2, InBarrier
<1>9. WorkersOK'
  <2>1. ASSUME NEW u \in Out PROVE (Active(u) \/ Done(u))'
    <3>1. u \in Worker
      BY <1>1, <2>1, OutWorkers
    <3>2. CASE u # t
      BY <1>1, <1>6, <1>7, <2>1, <3>1, <3>2 DEF WorkersOK, Active, Done, Worker
    <3>3. CASE u = t
      <4>1. t # 0 /\ pc'[t] # "spin" /\ pc'[t] \in BarrierLabel /\ (routine = "none" => pc'[t] = "join")
        BY <1>2, <1>8, <3>1, <3>3 DEF Worker, BarrierLabel
      <4>2. control'[t] = 1 /\ ending'[t] = Ending'
        BY <1>6, <1>8, <2>1, <3>3, <4>1
      <4>. QED
        BY <1>6, <3>3, <4>1, <4>2 DEF Active
    <3>. QED
      BY <3>2, <3>3
  <2>2. ASSUME ~Unmakes, NEW u \in Worker \ Out
        PROVE  IF u < threadCount /\ pc'[0] # "create" THEN Resting(u)' ELSE pc'[u] = "off"
    <3>1. u # t
      BY <1>1, <1>8, <2>2 DEF Met, MasterOK, Unmakes, Worker
    <3>. QED
      BY <1>1, <1>3, <1>6, <1>7, <2>2, <3>1 DEF WorkersOK, Resting, Worker, BarrierLabel
  <2>3. ASSUME Unmakes, NEW u \in Worker
        PROVE  IF child'[0] < u /\ u < threadCount THEN Spare(u)'
               ELSE IF pc'[0] = "activate" /\ u = threadCount THEN Spare(u)'
               ELSE IF pc'[0] = "reap" /\ u = threadCount THEN Reaped(u)'
               ELSE pc'[u] = "off"
    <3>1. pc'[0] = pc[0] /\ child'[0] = child[0] /\ routine = "none" /\ child[0] < threadCount
      BY <1>1, <1>3, <1>4, <2>3, Numbers DEF MasterOK, Unmakes, BarrierLabel, Typed
    <3>2. CASE u # t
      BY <1>1, <1>6, <1>7, <2>3, <3>1, <3>2 DEF WorkersOK, Spare, Reaped, Resting, Worker
    <3>3. CASE u = t
      BY <1>1, <1>2, <1>6, <1>8, <2>3, <3>1, <3>3
         DEF WorkersOK, Spare, Reaped, Resting, Worker, BarrierLabel, Met, Out, Below
    <3>. QED
      BY <3>2, <3>3
  <2>. QED
    BY <1>4, <1>6, <2>1, <2>2, <2>3 DEF WorkersOK
<1>10. \A u : Kids(u)' = Kids(u)
  BY <1>6 DEF Kids
<1>11. TreeOK'
  BY <1>1, <1>4, <1>6, <1>10 DEF TreeOK
<1>12. JoinOK'
  <2>. SUFFICES ASSUME NEW u \in Thread, pc'[u] \in BarrierLabel \ {"enter"} PROVE Window(u)'
    BY DEF JoinOK, Window
  <2>1. CASE u = t
    BY <1>2, <2>1
  <2>2. CASE u # t
    BY <1>1, <1>6, <1>7, <1>10, <2>2 DEF JoinOK, Window, Serial
  <2>. QED
    BY <2>1, <2>2
<1>. QED
  BY <1>5, <1>9, <1>11, <1>12

(* A call that a thread makes is one of the launch's.                      *)
LEMMA CallsAreRanks ==
  ASSUME PlaceInv, NEW t \in Thread, CallByRank(t) \/ CallByClaim(t) \/ (t = 0 /\ CallSerial)
  PROVE  /\ pc[t] = "work" /\ routine # "none"
         /\ \/ \E r \in 0..(workCount - 1) : r \in Rank /\ Call(t, r)
            \/ NoCall(t)
<1>1. Typed /\ MasterOK /\ MaxWork \in Nat
  BY DEF PlaceInv
<1>2. pc[t] = "work"
  BY DEF CallByRank, CallByClaim, CallSerial, Call, NoCall, Go
<1>3. routine # "none"
  <2>1. CASE t = 0
    BY <1>1, <1>2, <2>1 DEF MasterOK
  <2>2. CASE t # 0
    <3>1. t \in Worker /\ pc[t] \in BarrierLabel
      BY <1>2, <2>2 DEF Worker, BarrierLabel
    <3>. QED
      BY <1>2, <3>1, InBarrier
  <2>. QED
    BY <2>1, <2>2
<1>4. \A r \in 0..(workCount - 1) : r \in Rank
  BY <1>1 DEF Typed, Rank
<1>5. t \in Nat /\ threadCount \in Nat /\ workCount \in Nat /\ claim \in Int /\ rank[0] \in Int
  BY <1>1, Numbers DEF Typed, Thread, Rank
<1>6. CASE CallByRank(t)
  <2>1. t < threadCount
    <3>1. CASE t = 0
      BY <1>5, <1>6, <3>1 DEF CallByRank
    <3>2. CASE t # 0
      <4>1. t \in Worker /\ pc[t] \in BarrierLabel
        BY <1>2, <3>2 DEF Worker, BarrierLabel
      <4>2. ~Unmakes
        BY <1>1, <1>3 DEF MasterOK
      <4>. QED
        BY <1>1, <4>1, <4>2, InBarrier, Numbers DEF CallByRank, Met, Out, Unmakes
    <3>. QED
      BY <3>1, <3>2
  <2>2. RankOf(t) \in Nat
    BY <1>5, <2>1 DEF RankOf
  <2>. QED
    BY <1>2, <1>3, <1>4, <1>5, <1>6, <2>2 DEF CallByRank
<1>7. CASE CallByClaim(t)
  <2>1. claim > 0 => workCount - claim \in 0..(workCount - 1)
    BY <1>1, <1>3, <1>5, <1>7 DEF CallByClaim, MasterOK
  <2>. QED
    BY <1>2, <1>3, <1>4, <1>7, <2>1 DEF CallByClaim, Claims
<1>8. CASE t = 0 /\ CallSerial
  <2>1. rank[0] + 1 < workCount => rank[0] + 1 \in 0..(workCount - 1)
    <3>1. rank[0] >= -1
      BY <1>1, Numbers DEF Typed, Rank
    <3>. QED
      BY <1>5, <3>1
  <2>. QED
    BY <1>2, <1>3, <1>4, <1>8, <2>1 DEF CallSerial
<1>. QED
  BY <1>6, <1>7, <1>8

BarrierStep(t) == Barrier(t) \/ (t = 0 /\ CallSerial)

(* What a thread does in the barrier is a step in the barrier.             *)
LEMMA BarrierMoves ==
  ASSUME PlaceInv, NEW t \in Thread, BarrierStep(t)
  PROVE  Moves(t) /\ Typed' /\ HolderOK'
<1>1. Typed /\ MasterOK /\ WorkersOK /\ TreeOK /\ JoinOK /\ HolderOK
  BY DEF PlaceInv
<1>2. pc \in [Thread -> MasterLabel \cup WorkerLabel] /\ child \in [Thread -> 0..MaxThreads] /\ claim \in Int
  BY <1>1 DEF Typed
<1>3. /\ SpanBegin(size, t) \in Nat \ {0} /\ SpanEnd(size, t) \in Nat
      /\ SpanBegin(size, t) <= SpanEnd(size, t)
      /\ t < size => SpanEnd(size, t) <= size
      /\ \A u \in Kids(t) : u \in Worker /\ u < threadCount /\ u < SpanEnd(size, t)
      /\ SpanBegin(size, 0) = 1
  <2>1. \A u \in Kids(t) : u < SpanEnd(size, t)
    BY <1>1, KidFacts DEF Kids
  <2>. QED
    BY <1>1, <2>1, KidFacts, SpanBegins, 0 \in Nat
<1>4. ASSUME pc[t] \in BarrierLabel, t # 0
      PROVE  t < size /\ (routine = "none" => pc[t] \in {"enter", "join"})
  BY <1>4, InBarrier, t \in Worker DEF Worker
<1>5. CASE Enter(t)
  <2>. DEFINE new == IF routine = "none" THEN "join" ELSE "work"
  <2>1. /\ pc[t] = "enter" /\ pc' = [pc EXCEPT ![t] = new]
        /\ child' = [child EXCEPT ![t] = IF Serial(t) THEN 0 ELSE SpanEnd(size, t) - 1]
        /\ UNCHANGED <<Same, claim, holder, control, rank, ending, ran>>
    BY <1>5 DEF Enter, Go, Put
  <2>2. new \in BarrierLabel \ {"enter"} /\ pc[t] \in BarrierLabel
    BY <2>1 DEF BarrierLabel
  <2>3. child'[t] = IF Serial(t) THEN 0 ELSE SpanEnd(size, t) - 1
    BY <1>2, <2>1
  <2>4. child'[t] \in 0..MaxThreads
    BY <1>1, <1>3, <1>4, <2>2, <2>3, Numbers DEF Serial
  <2>5. Window(t)'
    <3>1. UNCHANGED <<threadCount, size, control>>
      BY <2>1 DEF Same
    <3>2. CASE Serial(t)
      <4>1. \A u \in Kids(t) : FALSE
        BY <1>1, <1>3, <3>2, Numbers DEF Serial, Worker, Thread
      <4>. QED
        BY <1>3, <2>3, <3>1, <3>2, <4>1 DEF Window, Serial, Kids
    <3>3. CASE ~Serial(t)
      <4>1. \A u \in Kids(t) : ~(u > child'[t])
        BY <1>3, <2>3, <3>3 DEF Worker, Thread
      <4>. QED
        BY <1>3, <2>3, <3>1, <3>3, <4>1 DEF Window, Serial, Kids
    <3>. QED
      BY <3>2, <3>3
  <2>6. Moves(t)
    <3>1. child' = [child EXCEPT ![t] = child'[t]] /\ claim' \in Int /\ claim' <= claim
      BY <1>2, <2>1, <2>3
    <3>2. routine = "none" => new = "join"
      OBVIOUS
    <3>. HIDE DEF new
    <3>. QED
      BY <2>1, <2>2, <2>4, <2>5, <3>1, <3>2 DEF Moves
  <2>7. Typed'
    BY <1>1, <1>2, <2>1, <2>2, <2>4 DEF Typed, Same, launch, MasterLabel, WorkerLabel, Worker, BarrierLabel
  <2>8. HolderOK'
    BY <1>1, <1>2, <2>1, <2>2 DEF HolderOK, Same, launch, Typed, BarrierLabel
  <2>. QED
    BY <2>6, <2>7, <2>8
<1>6. ASSUME pc[t] \in {"work", "call", "locked"}, NEW new \in BarrierLabel \ {"enter"},
             pc' = [pc EXCEPT ![t] = new],
             UNCHANGED <<Same, control, child, ending>>, claim' \in Int, claim' <= claim,
             holder' \in Thread \cup {Nobody}, rank' \in [Thread -> Rank \cup {-1}],
             ran' \in [Rank -> SUBSET Thread]
      PROVE  Moves(t) /\ Typed'
  <2>1. pc[t] \in BarrierLabel /\ pc[t] # "enter" /\ routine # "none"
    <3>1. pc[t] \in BarrierLabel /\ pc[t] # "enter" /\ pc[t] # "join"
      BY <1>6 DEF BarrierLabel
    <3>2. t = 0 => routine # "none"
      BY <1>1, <1>6 DEF MasterOK
    <3>. QED
      BY <1>4, <3>1, <3>2
  <2>2. Window(t)'
    BY <1>1, <1>6, <2>1 DEF JoinOK, Window, Same, Serial, Kids
  <2>3. child' = [child EXCEPT ![t] = child'[t]] /\ child'[t] \in 0..MaxThreads
    BY <1>2, <1>6
  <2>4. Moves(t)
    BY <1>6, <2>1, <2>2, <2>3 DEF Moves
  <2>5. Typed'
    BY <1>1, <1>2, <1>6 DEF Typed, Same, launch, MasterLabel, WorkerLabel, Worker, BarrierLabel
  <2>. QED
    BY <2>4, <2>5
<1>7. CASE CallByRank(t) \/ CallByClaim(t) \/ (t = 0 /\ CallSerial)
  <2>1. /\ pc[t] = "work" /\ routine # "none"
        /\ \/ \E r \in 0..(workCount - 1) : r \in Rank /\ Call(t, r)
           \/ NoCall(t)
    BY <1>7, CallsAreRanks
  <2>2. /\ UNCHANGED <<Same, holder, control, child, ending>>
        /\ claim' \in Int /\ claim' <= claim
    BY <1>2, <1>7 DEF CallByRank, CallByClaim, CallSerial, Working
  <2>3. PICK new \in {"call", "join"} : pc' = [pc EXCEPT ![t] = new]
    BY <2>1 DEF Call, NoCall, Go
  <2>4. rank' \in [Thread -> Rank \cup {-1}] /\ ran' \in [Rank -> SUBSET Thread]
    BY <1>1, <2>1 DEF Typed, Call, NoCall, Put
  <2>5. new \in BarrierLabel \ {"enter"}
    BY DEF BarrierLabel
  <2>6. Moves(t) /\ Typed'
    BY <1>1, <1>6, <2>1, <2>2, <2>3, <2>4, <2>5 DEF Typed
  <2>7. HolderOK'
    BY <1>1, <1>2, <2>1, <2>2, <2>3 DEF HolderOK, Same, launch, Typed
  <2>. QED
    BY <2>6, <2>7
<1>8. CASE LockWork(t) \/ UnlockWork(t) \/ Work(t) \/ BlockWork(t)
  <2>1. /\ UNCHANGED <<Same, claim, control, rank, child, ending, ran>>
        /\ pc[t] \in {"call", "locked"}
    BY <1>8 DEF LockWork, UnlockWork, Work, BlockWork, Returned, Go
  <2>2. PICK new \in {"locked", "work", "join"} :
          /\ pc' = [pc EXCEPT ![t] = new]
          /\ \/ new = "locked" /\ holder = Nobody /\ holder' = t
             \/ new # "locked" /\ pc[t] = "locked" /\ holder' = Nobody
             \/ new # "locked" /\ pc[t] = "call" /\ holder' = holder
    BY <1>8 DEF LockWork, UnlockWork, Work, BlockWork, Returned, Go, Again
  <2>3. new \in BarrierLabel \ {"enter"}
    BY DEF BarrierLabel
  <2>4. Moves(t) /\ Typed'
    <3>1. holder' \in Thread \cup {Nobody}
      BY <1>1, <2>2 DEF Typed
    <3>2. rank' \in [Thread -> Rank \cup {-1}] /\ ran' \in [Rank -> SUBSET Thread]
          /\ claim' \in Int /\ claim' <= claim
      BY <1>1, <2>1 DEF Typed
    <3>3. pc[t] \in {"work", "call", "locked"}
      BY <2>1
    <3>. QED
      BY <1>6, <2>1, <2>2, <2>3, <3>1, <3>2, <3>3
  <2>5. HolderOK'
    <3>1. \A u \in Thread : pc'[u] = IF u = t THEN new ELSE pc[u]
      BY <1>2, <2>2
    <3>2. routine' = routine /\ Nobody \notin Thread /\ 0 \in Thread
      BY <2>1, Numbers, <1>1 DEF Same, launch, Nobody, Thread
    <3>3. holder \in Thread \cup {Nobody}
      BY <1>1 DEF Typed
    <3>. QED
      BY <1>1, <2>1, <2>2, <3>1, <3>2, <3>3 DEF HolderOK
  <2>. QED
    BY <2>4, <2>5
<1>9. CASE JoinChild(t)
  <2>1. /\ pc[t] = "join" /\ child[t] >= SpanBegin(size, t) /\ control[child[t]] # 1
        /\ child' = [child EXCEPT ![t] = child[t] - 1]
        /\ UNCHANGED <<Same, claim, holder, control, pc, rank, ending, ran>>
    BY <1>9 DEF JoinChild, Waits, Put
  <2>2. child'[t] = child[t] - 1 /\ child'[t] \in 0..MaxThreads
    BY <1>2, <1>3, <2>1
  <2>3. Window(t)
    BY <1>1, <2>1 DEF JoinOK, Window, BarrierLabel
  <2>4. Window(t)'
    <3>1. UNCHANGED <<threadCount, size, control>>
      BY <2>1 DEF Same
    <3>2. ~Serial(t)
      <4>1. CASE t = 0
        BY <1>2, <1>3, <2>1, <2>3, <4>1 DEF Window
      <4>. QED
        BY <4>1 DEF Serial
    <3>3. ASSUME NEW u \in Kids(t), u > child'[t] PROVE control[u] = 0
      <4>1. u \in Thread /\ u \in Int /\ child[t] \in Int
        BY <1>2, <1>3, <3>3 DEF Worker, Thread
      <4>2. CASE u > child[t]
        BY <2>3, <3>3, <4>2 DEF Window
      <4>3. CASE u = child[t]
        BY <1>1, <2>1, <4>1, <4>3 DEF Typed
      <4>. QED
        BY <2>2, <3>3, <4>1, <4>2, <4>3
    <3>. QED
      BY <1>2, <1>3, <2>1, <2>2, <2>3, <3>1, <3>2, <3>3 DEF Window, Serial, Kids
  <2>5. Moves(t)
    <3>1. pc' = [pc EXCEPT ![t] = "join"] /\ "join" \in BarrierLabel \ {"enter"}
      BY <1>2, <2>1 DEF BarrierLabel
    <3>2. child' = [child EXCEPT ![t] = child'[t]] /\ claim' \in Int /\ claim' <= claim
      BY <1>2, <2>1, <2>2
    <3>3. pc[t] \in BarrierLabel
      BY <2>1 DEF BarrierLabel
    <3>. QED
      BY <2>1, <2>2, <2>4, <3>1, <3>2, <3>3 DEF Moves
  <2>6. Typed'
    BY <1>1, <1>2, <2>1, <2>2 DEF Typed, Same, launch
  <2>7. HolderOK'
    BY <1>1, <2>1 DEF HolderOK, Same, launch
  <2>. QED
    BY <2>5, <2>6, <2>7
<1>. QED
  BY <1>5, <1>7, <1>8, <1>9 DEF BarrierStep, Barrier
-----------------------------------------------------------------------------
(* A worker leaves the barrier, or sees that it is to enter it             *)

(* A worker that leaves or enters the barrier leaves all in place.         *)
LEMMA DriverKeeps ==
  ASSUME PlaceInv, NEW t \in Worker, Lower(t) \/ Wake(t)
  PROVE  PlaceInv'
<1>1. Typed /\ MasterOK /\ WorkersOK /\ TreeOK /\ JoinOK /\ HolderOK
  BY DEF PlaceInv
<1>2. /\ UNCHANGED <<Same, claim, holder, rank, child, value, ran>>
      /\ t \in Thread /\ t # 0 /\ 0 \in Thread
  BY DEF Lower, Wake, Idle, Worker, Thread
<1>3. \A u \in Thread : u # t => pc'[u] = pc[u] /\ control'[u] = control[u] /\ ending'[u] = ending[u]
  BY <1>1 DEF Lower, Wake, Typed, Put, Go
<1>4. /\ routine' = routine /\ then' = then /\ threadCount' = threadCount /\ size' = size
      /\ (Ending' <=> Ending) /\ pc'[0] = pc[0] /\ child' = child
      /\ Out' = Out /\ Met' = Met /\ (Unmakes' <=> Unmakes) /\ \A u : Kids(u)' = Kids(u)
  <2>1. pc'[0] = pc[0]
    BY <1>2, <1>3
  <2>. QED
    BY <1>2, <2>1 DEF Same, launch, Ending, Out, Met, Below, Ready, Unmakes, Kids
<1>5. ASSUME Lower(t)
      PROVE  /\ pc[t] = "join" /\ control'[t] = 0 /\ control[t] = 1
             /\ pc'[t] = IF ending[t] THEN "off" ELSE "spin"
             /\ pc'[t] \in WorkerLabel /\ control' \in [Thread -> 0..1] /\ ending' = ending
             /\ IF t \in Out THEN ending[t] = Ending ELSE ending[t] <=> pc[0] = "reap" /\ t = threadCount
             /\ t \in Met \/ (pc[0] \in {"activate", "reap"} /\ t = threadCount)
             /\ \A u \in Kids(t) : control[u] = 0
  <2>1. pc[t] = "join" /\ child[t] < SpanBegin(size, t) /\ pc[t] \in BarrierLabel
    BY <1>5 DEF Lower, Joined, BarrierLabel
  <2>2. control' = [control EXCEPT ![t] = 0] /\ ending' = ending
        /\ pc' = [pc EXCEPT ![t] = IF ending[t] THEN "off" ELSE "spin"]
    BY <1>5 DEF Lower, Put
  <2>3. ASSUME NEW u \in Kids(t) PROVE control[u] = 0
    <3>1. u \in Int /\ SpanBegin(size, t) <= u /\ child[t] \in Int /\ SpanBegin(size, t) \in Int
      BY <1>1, <1>2, <2>3, KidFacts DEF Kids, Typed
    <3>. QED
      BY <1>1, <1>2, <2>1, <2>3, <3>1 DEF JoinOK, BarrierLabel
  <2>4. /\ control'[t] = 0 /\ control' \in [Thread -> 0..1]
        /\ pc'[t] = IF ending[t] THEN "off" ELSE "spin"
        /\ pc'[t] \in WorkerLabel
    BY <1>1, <1>2, <2>2 DEF Typed, WorkerLabel
  <2>. QED
    BY <2>1, <2>2, <2>3, <2>4, InBarrier
<1>6. ASSUME Wake(t)
      PROVE  /\ pc[t] = "spin" /\ control[t] = 1 /\ pc'[t] = "enter" /\ control' = control
             /\ ending'[t] = (routine = "none") /\ ending' \in [Thread -> BOOLEAN]
             /\ \/ t \in Out /\ Active(t) /\ (Ending <=> routine = "none")
                \/ Unmakes /\ pc[0] = "reap" /\ t = threadCount /\ routine = "none"
  <2>1. pc[t] = "spin" /\ control[t] = 1 /\ pc'[t] = "enter" /\ control' = control
        /\ ending'[t] = (routine = "none") /\ ending' \in [Thread -> BOOLEAN]
    BY <1>1, <1>2, <1>6 DEF Wake, Go, Put, Typed, Idle
  <2>2. CASE Unmakes
    <3>1. child[0] < threadCount
      BY <1>1, <2>2, Numbers DEF MasterOK, Typed
    <3>2. pc[0] = "reap" /\ t = threadCount
      BY <1>1, <2>1, <2>2, <3>1 DEF WorkersOK, Spare, Resting
    <3>. QED
      BY <1>1, <2>1, <2>2, <3>2 DEF MasterOK
  <2>3. CASE ~Unmakes
    <3>1. t \in Out
      BY <1>1, <2>1, <2>3 DEF WorkersOK, Resting
    <3>2. Active(t)
      BY <1>1, <2>1, <3>1 DEF WorkersOK, Done
    <3>3. then # "return" /\ then # "made" /\ then \in {"return", "made", "enter", "idle"}
      BY <1>1, <2>1, <3>1, <3>2 DEF MasterOK, Out, Active, Typed
    <3>. QED
      BY <1>1, <2>1, <3>1, <3>2, <3>3 DEF Ending, MasterOK
  <2>4. \/ t \in Out /\ Active(t) /\ (Ending <=> routine = "none")
        \/ Unmakes /\ pc[0] = "reap" /\ t = threadCount /\ routine = "none"
    BY <2>2, <2>3
  <2>. QED
    BY <2>1, <2>4
<1>7. Typed'
  <2>1. pc' \in [Thread -> MasterLabel \cup WorkerLabel] /\ pc'[t] \in WorkerLabel
    BY <1>1, <1>2 DEF Lower, Wake, Go, Put, Typed, WorkerLabel, BarrierLabel
  <2>2. control' \in [Thread -> 0..1] /\ ending' \in [Thread -> BOOLEAN]
    BY <1>1, <1>5, <1>6 DEF Typed
  <2>3. pc'[0] \in MasterLabel /\ \A u \in Worker : pc'[u] \in WorkerLabel
    BY <1>1, <1>3, <1>4, <2>1 DEF Typed, Worker
  <2>. QED
    BY <1>1, <1>2, <1>4, <2>1, <2>2, <2>3 DEF Typed, Same, launch
<1>8. MasterOK'
  <2>1. ASSUME pc[0] = "create", NEW u \in 1..child[0] PROVE control'[u] = 1
    <3>1. Met = (child[0] + 1)..(threadCount - 1) /\ child[0] \in Nat /\ threadCount \in Nat
          /\ threadCount <= MaxThreads /\ u \in Thread
      BY <1>1, <2>1, Numbers DEF Met, Out, Unmakes, Ready, MasterOK, Typed, Thread
    <3>2. u = t => ~Lower(t)
      BY <1>5, <2>1, <3>1
    <3>3. control[u] = 1
      BY <1>1, <2>1 DEF MasterOK
    <3>. QED
      BY <1>3, <1>6, <3>1, <3>2, <3>3
  <2>. QED
    BY <1>1, <1>2, <1>4, <2>1 DEF MasterOK, Same, launch, Ready, Unmakes
<1>9. WorkersOK'
  <2>1. ASSUME NEW u \in Out PROVE (Active(u) \/ Done(u))'
    <3>1. u \in Worker
      BY <1>1, <2>1, OutWorkers
    <3>2. CASE u # t
      <4>1. pc'[u] = pc[u] /\ control'[u] = control[u] /\ ending'[u] = ending[u]
        BY <1>3, <3>1, <3>2 DEF Worker
      <4>2. (Active(u) => Active(u)') /\ (Done(u) => Done(u)')
        BY <1>4, <4>1 DEF Active, Done, Ending
      <4>. QED
        BY <1>1, <2>1, <4>2 DEF WorkersOK
    <3>3. CASE u = t /\ Lower(t)
      BY <1>4, <1>5, <2>1, <3>3 DEF Done
    <3>4. CASE u = t /\ Wake(t)
      <4>1. Active(t) /\ (Ending <=> routine = "none") /\ control'[t] = 1 /\ pc'[t] = "enter"
            /\ ending'[t] = (routine = "none")
        <5>1. ~Unmakes
          BY <2>1 DEF Out
        <5>. QED
          BY <1>6, <3>4, <5>1
      <4>2. pc'[t] \in (IF routine = "none" THEN {"spin", "enter", "join"} ELSE {"spin"} \cup BarrierLabel)
        BY <4>1 DEF BarrierLabel
      <4>3. pc'[t] # "spin" /\ ending'[t] = Ending'
        BY <1>4, <4>1 DEF Ending
      <4>. QED
        BY <1>4, <3>4, <4>1, <4>2, <4>3 DEF Active
    <3>. QED
      BY <3>2, <3>3, <3>4
  <2>2. ASSUME ~Unmakes, NEW u \in Worker \ Out
        PROVE  IF u < threadCount /\ pc'[0] # "create" THEN Resting(u)' ELSE pc'[u] = "off"
    <3>1. u # t
      BY <1>1, <1>5, <1>6, <2>2 DEF Met, MasterOK, Unmakes, Worker
    <3>. QED
      BY <1>1, <1>3, <1>4, <2>2, <3>1 DEF WorkersOK, Resting, Worker
  <2>3. ASSUME Unmakes, NEW u \in Worker
        PROVE  IF child'[0] < u /\ u < threadCount THEN Spare(u)'
               ELSE IF pc'[0] = "activate" /\ u = threadCount THEN Spare(u)'
               ELSE IF pc'[0] = "reap" /\ u = threadCount THEN Reaped(u)'
               ELSE pc'[u] = "off"
    <3>1. child[0] < threadCount /\ routine = "none"
      BY <1>1, <2>3, Numbers DEF MasterOK, Typed
    <3>2. CASE u # t
      BY <1>1, <1>3, <1>4, <2>3, <3>1, <3>2 DEF WorkersOK, Spare, Reaped, Resting, Worker
    <3>3. CASE u = t /\ Lower(t)
      BY <1>1, <1>4, <1>5, <2>3, <3>1, <3>3
         DEF WorkersOK, Spare, Reaped, Resting, Worker, Met, Out, Below
    <3>4. CASE u = t /\ Wake(t)
      <4>1. pc[0] = "reap" /\ t = threadCount /\ control'[t] = 1 /\ pc'[t] = "enter" /\ ending'[t]
        BY <1>6, <2>3, <3>1, <3>4 DEF Out
      <4>. QED
        BY <1>4, <3>1, <3>4, <4>1, Numbers, <1>1 DEF Reaped
    <3>. QED
      BY <3>2, <3>3, <3>4
  <2>. QED
    BY <1>4, <2>1, <2>2, <2>3 DEF WorkersOK
<1>10. \A u \in Thread : control[u] = 0 => control'[u] = 0
  BY <1>1, <1>3, <1>5, <1>6
<1>11. \A u \in Thread : \A v \in Kids(u) : v \in Thread
  BY <1>1, KidFacts DEF Worker
<1>12. Met \subseteq Thread
  BY <1>1, Numbers DEF Met, Out, Below, Worker, Thread, Typed
<1>13. TreeOK'
  <2>. SUFFICES ASSUME NEW u \in Met, control'[u] = 0, NEW v \in Kids(u) PROVE control'[v] = 0
    BY <1>4 DEF TreeOK
  <2>1. CASE u = t /\ Lower(t)
    BY <1>5, <1>10, <1>11, <1>12, <2>1
  <2>2. CASE ~(u = t /\ Lower(t))
    <3>1. control[u] = 0
      BY <1>3, <1>6, <1>12, <2>2
    <3>. QED
      BY <1>1, <1>10, <1>11, <1>12, <3>1 DEF TreeOK
  <2>. QED
    BY <2>1, <2>2
<1>14. JoinOK'
  <2>. SUFFICES ASSUME NEW u \in Thread, pc'[u] \in BarrierLabel \ {"enter"} PROVE Window(u)'
    BY DEF JoinOK, Window
  <2>1. u # t
    BY <1>5, <1>6 DEF BarrierLabel
  <2>2. Window(u)
    BY <1>1, <1>3, <2>1 DEF JoinOK, Window
  <2>. QED
    BY <1>4, <1>10, <1>11, <2>2 DEF Window, Serial
<1>15. HolderOK'
  <2>1. pc[t] # "locked" /\ pc'[t] # "locked"
    BY <1>5, <1>6
  <2>2. holder' = holder /\ holder \in Thread \cup {Nobody}
    BY <1>1, <1>2 DEF Typed
  <2>. QED
    BY <1>1, <1>3, <1>4, <2>1, <2>2 DEF HolderOK
<1>. QED
  BY <1>7, <1>8, <1>9, <1>13, <1>14, <1>15 DEF PlaceInv
-----------------------------------------------------------------------------
(* The calls the application makes                                         *)

(* Where the workers are between launches                                  *)
LEMMA AtRest ==
  ASSUME PlaceInv, Ready
  PROVE  /\ \A t \in Worker : IF t < threadCount THEN Resting(t) ELSE pc[t] = "off"
         /\ holder = Nobody /\ then = "return" /\ ~Unmakes /\ Out = {}
<1>1. Typed /\ MasterOK /\ WorkersOK /\ HolderOK
  BY DEF PlaceInv
<1>2. ~Unmakes /\ Out = {} /\ then = "return" /\ pc[0] = "idle" /\ routine = "none"
  BY <1>1 DEF Ready, Unmakes, Out, MasterOK
<1>3. \A t \in Worker : IF t < threadCount THEN Resting(t) ELSE pc[t] = "off"
  BY <1>1, <1>2 DEF WorkersOK
<1>4. \A t \in Thread : pc[t] # "locked"
  BY <1>2, <1>3 DEF Resting, Worker
<1>5. holder = Nobody
  BY <1>1, <1>2, <1>4 DEF HolderOK, Typed
<1>. QED
  BY <1>2, <1>3, <1>5

(* What the calls that start something have in common                      *)
Begins(work, count, threads, locks, reduced, next) ==
  /\ Begin(work, count, threads, locks, reduced, next)
  /\ IF work = "none" THEN threads = 0 /\ count = 0 /\ locks = 0 /\ ~reduced /\ next = "enter"
     ELSE threads \in {threadCount - 1, threadCount}
  /\ work = "block" => locks = 0 /\ ~reduced /\ next = "idle"
  /\ holder' = IF work = "block" THEN 0 ELSE holder

Starts ==
  \E work \in {"none", "work", "block"}, count \in 0..MaxWork, threads \in Int, locks \in 0..1,
     reduced \in BOOLEAN, next \in {"enter", "idle"} :
    Begins(work, count, threads, locks, reduced, next)

(* A launch that begins leaves everyone in place.                          *)
LEMMA BeginKeeps ==
  ASSUME PlaceInv,
         NEW work \in {"none", "work", "block"}, NEW count \in 0..MaxWork, NEW threads,
         NEW locks \in 0..1, NEW reduced \in BOOLEAN, NEW next \in {"enter", "idle"},
         Begins(work, count, threads, locks, reduced, next)
  PROVE  PlaceInv'
<1>1. Typed /\ MasterOK /\ WorkersOK /\ TreeOK /\ JoinOK /\ HolderOK
  BY DEF PlaceInv
<1>2. /\ pc[0] = "idle" /\ pc' = [pc EXCEPT ![0] = IF threadCount > 1 THEN "start" ELSE next]
      /\ routine = "none" /\ routine' = work /\ workCount' = count /\ lockCount' = locks
      /\ reduces' = reduced /\ then' = next
      /\ IF threadCount > 1 THEN /\ workThreads' = threads /\ claim' = count
                                 /\ child' = [child EXCEPT ![0] = threadCount - 1]
         ELSE UNCHANGED <<workThreads, claim, child>>
      /\ UNCHANGED <<threadCount, size, control, ending, value, ran, rank>>
  BY DEF Begins, Begin, Go, Put
<1>14. /\ IF work = "none" THEN threads = 0 /\ count = 0 /\ locks = 0 /\ ~reduced /\ next = "enter"
          ELSE threads \in {threadCount - 1, threadCount}
       /\ work = "block" => locks = 0 /\ ~reduced /\ next = "idle"
       /\ holder' = IF work = "block" THEN 0 ELSE holder
  BY DEF Begins
<1>3. Ready
  BY <1>2 DEF Ready
<1>4. /\ \A t \in Worker : IF t < threadCount THEN Resting(t) ELSE pc[t] = "off"
      /\ holder = Nobody /\ then = "return" /\ ~Unmakes
  BY <1>3, AtRest
<1>5. 0 \in Thread /\ threadCount \in Nat /\ threadCount <= MaxThreads /\ MaxThreads \in Nat
  BY <1>1, Numbers
<1>6. /\ pc'[0] = IF threadCount > 1 THEN "start" ELSE next
      /\ \A t \in Worker : pc'[t] = pc[t]
      /\ threadCount > 1 => child'[0] = threadCount - 1
      /\ pc' \in [Thread -> MasterLabel \cup WorkerLabel] /\ child' \in [Thread -> 0..MaxThreads]
  <2>1. pc'[0] = IF threadCount > 1 THEN "start" ELSE next
    BY <1>1, <1>2, <1>5 DEF Typed
  <2>2. \A t \in Worker : pc'[t] = pc[t]
    BY <1>1, <1>2, <1>5 DEF Typed, Worker
  <2>3. threadCount > 1 => child'[0] = threadCount - 1
    BY <1>1, <1>2, <1>5 DEF Typed
  <2>4. "start" \in MasterLabel /\ "enter" \in MasterLabel /\ "idle" \in MasterLabel
    BY DEF MasterLabel
  <2>5. pc' \in [Thread -> MasterLabel \cup WorkerLabel]
    BY <1>1, <1>2, <2>4 DEF Typed
  <2>6. child' \in [Thread -> 0..MaxThreads]
    BY <1>1, <1>2, <1>5 DEF Typed
  <2>. QED
    BY <2>1, <2>2, <2>3, <2>5, <2>6
<1>7. Typed'
  <2>1. pc'[0] \in MasterLabel
    BY <1>6 DEF MasterLabel
  <2>2. workThreads' \in 0..MaxThreads /\ claim' \in Int
    BY <1>1, <1>2, <1>5, <1>14 DEF Typed
  <2>3. holder' \in Thread \cup {Nobody}
    BY <1>1, <1>5, <1>14 DEF Typed
  <2>. QED
    BY <1>1, <1>2, <1>6, <2>1, <2>2, <2>3 DEF Typed
<1>8. MasterOK'
  BY <1>1, <1>2, <1>4, <1>5, <1>6, <1>14 DEF MasterOK, Ready, Unmakes, Typed
<1>9. Out' = {} /\ ~Unmakes' /\ Met' = {}
  BY <1>2, <1>5, <1>6 DEF Out, Ready, Unmakes, Met
<1>10. WorkersOK' /\ TreeOK'
  BY <1>2, <1>4, <1>6, <1>9 DEF WorkersOK, Resting, TreeOK
<1>11. \A t \in Thread : pc'[t] \notin BarrierLabel \ {"enter"}
  BY <1>4, <1>6 DEF Resting, BarrierLabel, Worker
<1>12. JoinOK'
  BY <1>11 DEF JoinOK
<1>13. HolderOK'
  BY <1>2, <1>4, <1>6, <1>11, <1>14 DEF HolderOK, BarrierLabel
<1>. QED
  BY <1>7, <1>8, <1>10, <1>12, <1>13 DEF PlaceInv

(* The counts of a launch are in their ranges.                             *)
LEMMA LaunchFacts ==
  ASSUME NEW l \in Launches
  PROVE  l[1] \in 0..MaxWork /\ l[2] \in 0..1
OBVIOUS

(* A launch begins with counts in their ranges.                            *)
LEMMA StartsSo ==
  ASSUME NEW work \in {"none", "work", "block"}, NEW count \in 0..MaxWork, NEW threads \in Int,
         NEW locks \in 0..1, NEW reduced \in BOOLEAN, NEW next \in {"enter", "idle"},
         Begin(work, count, threads, locks, reduced, next),
         IF work = "none" THEN threads = 0 /\ count = 0 /\ locks = 0 /\ ~reduced /\ next = "enter"
         ELSE threads \in {threadCount - 1, threadCount},
         work = "block" => locks = 0 /\ ~reduced /\ next = "idle",
         holder' = IF work = "block" THEN 0 ELSE holder
  PROVE  Starts
<1>1. Begins(work, count, threads, locks, reduced, next)
  BY DEF Begins
<1>. QED
  BY <1>1 DEF Starts

(* A call of the master starts, waits, unblocks or makes the pool.         *)
LEMMA CallsStart ==
  ASSUME PlaceInv, Calls
  PROVE  Starts \/ Wait \/ Unblock \/ \E n \in PoolSizes : Initialize(n)
<1>1. Typed /\ MasterOK
  BY DEF PlaceInv
<1>2. /\ 0 \in Thread /\ threadCount \in Nat /\ threadCount <= MaxThreads /\ MaxThreads \in Nat
      /\ MaxWork \in Nat /\ MaxThreads <= MaxWork /\ 1 <= MaxThreads
      /\ threadCount \in Int /\ threadCount - 1 \in Int
  BY <1>1, Numbers
<1>3. \A count \in ReduceCounts : count \in 0..MaxWork
  BY LaunchFacts DEF ReduceCounts
<1>13. \A locks \in LockCounts \cup {0} : locks \in 0..1
  BY LaunchFacts DEF LockCounts
<1>4. CASE Finalize
  <2>1. Begin("none", 0, 0, 0, FALSE, "enter") /\ holder' = holder
    BY <1>4 DEF Finalize
  <2>2. 0 \in 0..MaxWork /\ 0 \in 0..1 /\ 0 \in Int
    BY <1>2
  <2>. QED
    BY <1>2, <2>1, <2>2, StartsSo
<1>5. CASE Run
  <2>1. PICK l \in Launches : Begin("work", l[1], threadCount, l[2], FALSE, "enter") /\ UNCHANGED holder
    BY <1>5 DEF Run
  <2>. QED
    BY <1>2, <2>1, LaunchFacts, StartsSo
<1>6. CASE RunReduce
  <2>1. PICK count \in ReduceCounts : Begin("work", count, threadCount, 0, TRUE, "enter") /\ UNCHANGED holder
    BY <1>6 DEF RunReduce
  <2>. QED
    BY <1>2, <1>3, <2>1, StartsSo, 0 \in 0..1
<1>7. CASE RunThreads
  <2>1. PICK locks \in LockCounts \cup {0}, reduced \in BOOLEAN :
          Begin("work", AllThreads, threadCount, locks, reduced, "enter") /\ UNCHANGED holder
    BY <1>7 DEF RunThreads
  <2>2. AllThreads \in 0..MaxWork
    BY <1>2 DEF AllThreads
  <2>. QED
    BY <1>2, <1>13, <2>1, <2>2, StartsSo
<1>8. CASE Start
  <2>1. PICK l \in Launches : Begin("work", l[1], threadCount - 1, l[2], FALSE, "idle") /\ UNCHANGED holder
    BY <1>8 DEF Start
  <2>. QED
    BY <1>2, <2>1, LaunchFacts, StartsSo
<1>9. CASE StartReduce
  <2>1. PICK count \in ReduceCounts : Begin("work", count, threadCount - 1, 0, TRUE, "idle") /\ UNCHANGED holder
    BY <1>9 DEF StartReduce
  <2>. QED
    BY <1>2, <1>3, <2>1, StartsSo, 0 \in 0..1
<1>10. CASE StartThreads
  <2>1. PICK locks \in LockCounts \cup {0}, reduced \in BOOLEAN, next \in {"enter", "idle"} :
          Begin("work", OtherThreads, threadCount - 1, locks, reduced, next) /\ UNCHANGED holder
    BY <1>10 DEF StartThreads
  <2>2. OtherThreads \in 0..MaxWork
    BY <1>2 DEF OtherThreads
  <2>. QED
    BY <1>2, <1>13, <2>1, <2>2, StartsSo
<1>11. CASE Block
  <2>1. threadCount \in 0..MaxWork
    BY <1>2
  <2>. QED
    <3>1. Begin("block", threadCount, threadCount, 0, FALSE, "idle") /\ holder' = 0
      BY <1>11 DEF Block
    <3>. QED
      BY <1>2, <2>1, <3>1, StartsSo, 0 \in 0..1
<1>. QED
  BY <1>4, <1>5, <1>6, <1>7, <1>8, <1>9, <1>10, <1>11 DEF Calls

(* A call of the master leaves everyone in place.                          *)
LEMMA CallsKeep ==
  ASSUME PlaceInv, Calls
  PROVE  PlaceInv'
<1>1. Typed /\ MasterOK /\ WorkersOK /\ TreeOK /\ JoinOK /\ HolderOK
  BY DEF PlaceInv
<1>2. /\ 0 \in Thread /\ threadCount \in Nat /\ threadCount <= MaxThreads /\ MaxThreads \in Nat
      /\ MaxWork \in Nat /\ MaxThreads <= MaxWork /\ 1 <= MaxThreads
  BY <1>1, Numbers
<1>3. CASE Starts
  BY <1>3, BeginKeeps DEF Starts
<1>12. CASE Wait \/ Unblock
  <2>1. /\ routine # "none" /\ pc[0] = "idle" /\ pc' = [pc EXCEPT ![0] = "enter"]
        /\ UNCHANGED <<Same, claim, control, rank, child, ending, value, ran>>
        /\ holder' = IF Unblock THEN Nobody ELSE holder
        /\ Unblock => holder = 0
    BY <1>12 DEF Wait, Unblock, Go
  <2>2. /\ pc'[0] = "enter" /\ \A t \in Worker : pc'[t] = pc[t]
        /\ pc' \in [Thread -> MasterLabel \cup WorkerLabel] /\ pc'[0] \in MasterLabel
    BY <1>1, <1>2, <2>1 DEF Typed, MasterLabel, Worker
  <2>3. Typed'
    BY <1>1, <2>1, <2>2 DEF Typed, Same, launch
  <2>4. MasterOK'
    BY <1>1, <2>1, <2>2 DEF MasterOK, Same, launch, Ready, Unmakes
  <2>5. /\ Out' = Out /\ ~Unmakes /\ ~Unmakes' /\ Met' = Met
        /\ \A u : Kids(u)' = Kids(u)
    BY <2>1, <2>2 DEF Out, Ready, Unmakes, Met, Same, launch, Kids
  <2>6. Out \subseteq Worker
    BY <1>1, <1>2, <2>1 DEF Out, Worker, Thread, Ready
  <2>7. \A u \in Worker : /\ Active(u) => Active(u)'
                          /\ Done(u) => Done(u)'
                          /\ Resting(u) => Resting(u)'
    BY <2>1, <2>2 DEF Active, Done, Resting, Ending, Same, launch
  <2>8. WorkersOK'
    BY <1>1, <2>1, <2>2, <2>5, <2>6, <2>7 DEF WorkersOK, Same, launch
  <2>9. TreeOK'
    BY <1>1, <2>1, <2>5 DEF TreeOK
  <2>10. JoinOK'
    BY <1>1, <2>1, <2>2, <2>5 DEF JoinOK, Same, launch, Serial, Worker, BarrierLabel
  <2>11. HolderOK'
    <3>1. \A u \in Thread : pc'[u] = "locked" => u # 0 /\ pc[u] = "locked"
      BY <2>2 DEF Worker
    <3>2. \A u \in Thread : pc[u] = "locked" => pc'[u] = "locked"
      BY <2>1, <2>2 DEF Worker
    <3>3. holder # Nobody /\ ~Unblock => pc[holder] = "locked"
      BY <1>1, <1>12, <2>1 DEF HolderOK, Wait
    <3>4. holder # Nobody => holder \in Thread
      BY <1>1 DEF Typed
    <3>5. CASE Unblock
      BY <1>1, <2>1, <3>1, <3>5 DEF HolderOK
    <3>6. CASE ~Unblock
      BY <1>1, <2>1, <3>1, <3>2, <3>3, <3>4, <3>6 DEF HolderOK
    <3>. QED
      BY <3>5, <3>6
  <2>. QED
    BY <2>3, <2>4, <2>8, <2>9, <2>10, <2>11 DEF PlaceInv
<1>13. ASSUME NEW n \in PoolSizes, Initialize(n) PROVE PlaceInv'
  <2>1. /\ threadCount = 0 /\ routine = "none" /\ threadCount' = n /\ size' = n /\ then' = "made"
        /\ control' = [t \in Thread |-> IF t <= n THEN 1 ELSE control[t]]
        /\ child' = [child EXCEPT ![0] = n - 1] /\ pc[0] = "idle"
        /\ pc' = [pc EXCEPT ![0] = IF n > 1 THEN "create" ELSE "enter"]
        /\ UNCHANGED <<Made, ending>>
    BY <1>13 DEF Initialize, Go, Put
  <2>2. n \in 1..MaxThreads
    OBVIOUS
  <2>3. /\ \A t \in Worker : pc[t] = "off"
        /\ holder = Nobody
    BY <1>2, <2>1, AtRest DEF Ready, Worker, Thread
  <2>4. /\ pc'[0] = IF n > 1 THEN "create" ELSE "enter"
        /\ \A t \in Worker : pc'[t] = "off"
        /\ child'[0] = n - 1
        /\ pc' \in [Thread -> MasterLabel \cup WorkerLabel] /\ pc'[0] \in MasterLabel
    BY <1>1, <1>2, <2>1, <2>3 DEF Typed, MasterLabel, Worker
  <2>5. Typed'
    <3>1. child' \in [Thread -> 0..MaxThreads] /\ control' \in [Thread -> 0..1]
      BY <1>1, <1>2, <2>1, <2>2 DEF Typed
    <3>2. \A t \in Worker : pc'[t] \in WorkerLabel
      BY <2>4 DEF WorkerLabel
    <3>. QED
      BY <1>1, <2>1, <2>2, <2>4, <3>1, <3>2 DEF Typed, Made
  <2>6. MasterOK'
    <3>1. \A t \in 1..child'[0] : control'[t] = 1
      BY <1>2, <2>1, <2>2, <2>4 DEF Thread
    <3>. QED
      BY <1>1, <2>1, <2>2, <2>4, <3>1 DEF MasterOK, Made, Ready, Unmakes
  <2>7. Out' = {} /\ ~Unmakes' /\ Met' = {}
    BY <2>1, <2>2, <2>4 DEF Out, Met, Unmakes, Ready
  <2>8. WorkersOK' /\ TreeOK'
    <3>1. \A t \in Worker : n <= 1 => ~(t < n)
      BY <2>2 DEF Worker, Thread
    <3>. QED
      BY <2>1, <2>2, <2>4, <2>7, <3>1 DEF WorkersOK, TreeOK
  <2>9. JoinOK'
    BY <2>4 DEF JoinOK, Worker, BarrierLabel
  <2>10. HolderOK'
    BY <2>1, <2>3, <2>4 DEF HolderOK, Made, Worker
  <2>. QED
    BY <2>5, <2>6, <2>8, <2>9, <2>10 DEF PlaceInv
<1>. QED
  BY <1>3, <1>12, <1>13, CallsStart
-----------------------------------------------------------------------------
(* The steps of the master                                                 *)

(* When the master has seen its own children done, all workers are.        *)
LEMMA AllDone ==
  ASSUME PlaceInv, Joined(0)
  PROVE  /\ pc[0] = "join" /\ ~Unmakes /\ Out = 1..(threadCount - 1)
         /\ \A t \in Worker : IF t < threadCount THEN Done(t) ELSE pc[t] = "off"
<1>1. Typed /\ MasterOK /\ WorkersOK /\ TreeOK /\ JoinOK
  BY DEF PlaceInv
<1>2. pc[0] = "join" /\ child[0] < SpanBegin(size, 0) /\ 0 \in Thread /\ threadCount \in Nat
  BY <1>1, Numbers DEF Joined
<1>3. ~Unmakes /\ Out = 1..(threadCount - 1)
  BY <1>2 DEF Unmakes, Out, Ready
<1>4. ASSUME NEW t \in 1..(threadCount - 1) PROVE control[t] = 0
  <2>. DEFINE S == {u \in 1..(threadCount - 1) : control[u] # 0}
  <2>1. SUFFICES ASSUME S # {} PROVE FALSE
    BY <1>4
  <2>2. S \in SUBSET Nat
    OBVIOUS
  <2>3. PICK m \in S : \A k \in S : m <= k
    <3>. HIDE DEF S
    <3>. QED
      BY <2>1, <2>2, LeastNumber
  <2>4. PICK p \in 0..(m - 1) : m \in Kids(p)
    BY <1>1, <1>3, Parents
  <2>5. CASE p = 0
    <3>1. SpanBegin(size, 0) <= m /\ SpanBegin(size, 0) \in Nat /\ child[0] \in Int
      BY <1>1, <1>2, <2>4, <2>5, KidFacts DEF Kids, Typed
    <3>2. control[m] = 0
      BY <1>1, <1>2, <2>4, <2>5, <3>1 DEF JoinOK, BarrierLabel
    <3>. QED
      BY <3>2
  <2>6. CASE p # 0
    <3>1. p \in 1..(threadCount - 1) /\ ~(m <= p)
      BY <1>2, <2>4, <2>6
    <3>2. p \in Met /\ p \notin S
      <4>. HIDE DEF S
      <4>. QED
        BY <1>3, <2>3, <3>1 DEF Met
    <3>3. control[p] = 0
      BY <3>1, <3>2
    <3>4. control[m] = 0
      BY <1>1, <2>4, <3>2, <3>3 DEF TreeOK
    <3>. QED
      BY <3>4
  <2>. QED
    BY <2>5, <2>6
<1>5. ASSUME NEW t \in Worker PROVE IF t < threadCount THEN Done(t) ELSE pc[t] = "off"
  <2>1. t \in Nat \ {0}
    BY DEF Worker, Thread
  <2>2. CASE t < threadCount
    <3>1. t \in Out /\ control[t] = 0
      BY <1>2, <1>3, <1>4, <2>1, <2>2
    <3>. QED
      BY <1>1, <2>2, <3>1 DEF WorkersOK, Active
  <2>3. CASE ~(t < threadCount)
    BY <1>1, <1>2, <1>3, <2>1, <2>3 DEF WorkersOK
  <2>. QED
    BY <2>2, <2>3
<1>. QED
  BY <1>2, <1>3, <1>5

(* The master that returns leaves everyone in place.                       *)
LEMMA ReturnsKeep ==
  ASSUME PlaceInv, WaitReturns \/ InitReturns
  PROVE  PlaceInv'
<1>1. Typed /\ MasterOK /\ WorkersOK /\ TreeOK /\ JoinOK /\ HolderOK
  BY DEF PlaceInv
<1>2. /\ pc[0] = "join" /\ ~Unmakes
      /\ \A t \in Worker : IF t < threadCount THEN Done(t) ELSE pc[t] = "off"
  BY AllDone DEF WaitReturns, InitReturns
<1>3. /\ pc' = [pc EXCEPT ![0] = "idle"] /\ then' = "return"
      /\ UNCHANGED <<size, holder, control, child, ending>>
      /\ routine' = "none" /\ workCount' = 0 /\ lockCount' = 0 /\ reduces' = FALSE
      /\ threadCount' = IF Ending THEN 0 ELSE threadCount
      /\ workThreads' \in 0..MaxThreads /\ claim' \in Int
      /\ rank' \in [Thread -> Rank \cup {-1}] /\ ran' \in [Rank -> SUBSET Thread]
  <2>1. CASE WaitReturns
    <3>1. /\ pc' = [pc EXCEPT ![0] = "idle"] /\ then' = "return" /\ then # "made"
          /\ UNCHANGED <<size, holder, control, child, ending>>
          /\ routine' = "none" /\ workCount' = 0 /\ lockCount' = 0 /\ reduces' = FALSE
          /\ threadCount' = IF routine = "none" THEN 0 ELSE threadCount
          /\ IF threadCount > 1 THEN workThreads' = 0 /\ claim' = 0 ELSE UNCHANGED <<workThreads, claim>>
          /\ rank' = NoRank /\ ran' = NotRun
      BY <2>1 DEF WaitReturns, Go
    <3>2. routine = "none" => then = "enter"
      BY <1>1, <1>2, <3>1 DEF MasterOK, Typed, Ready
    <3>. QED
      BY <1>1, <3>1, <3>2, Numbers DEF Typed, Ending, NoRank, NotRun
  <2>2. CASE InitReturns
    BY <1>1, <2>2 DEF InitReturns, Go, Made, Typed, MasterOK, Ending
  <2>. QED
    BY <2>1, <2>2
<1>4. 0 \in Thread /\ threadCount \in Nat /\ \A t \in Worker : t > 0
  BY <1>1, Numbers DEF Worker, Thread
<1>5. /\ pc'[0] = "idle" /\ \A t \in Worker : pc'[t] = pc[t]
      /\ pc' \in [Thread -> MasterLabel \cup WorkerLabel] /\ pc'[0] \in MasterLabel
  BY <1>1, <1>3, <1>4 DEF Typed, MasterLabel, Worker
<1>6. Typed'
  <2>1. threadCount' \in 0..MaxThreads
    BY <1>1, <1>3 DEF Typed
  <2>2. reduces' \in BOOLEAN /\ routine' \in {"none", "work", "block"}
        /\ then' \in {"return", "made", "enter", "idle"}
    BY <1>3
  <2>3. 0 \in 0..MaxWork /\ 0 \in 0..1
    OBVIOUS
  <2>4. \A t \in Worker : pc'[t] \in WorkerLabel
    BY <1>1, <1>5 DEF Typed
  <2>. QED
    BY <1>1, <1>3, <1>5, <2>1, <2>2, <2>3, <2>4 DEF Typed
<1>7. Ready' /\ ~Unmakes' /\ Out' = {} /\ Met' = {}
  BY <1>3, <1>5 DEF Ready, Unmakes, Out, Met
<1>8. MasterOK'
  BY <1>1, <1>2, <1>3, <1>4, <1>5, <1>7 DEF MasterOK
<1>9. \A t \in Worker : IF t < threadCount' THEN Resting(t)' ELSE pc'[t] = "off"
  <2>. SUFFICES ASSUME NEW t \in Worker
                PROVE  IF t < threadCount' THEN Resting(t)' ELSE pc'[t] = "off"
    OBVIOUS
  <2>1. CASE Ending
    BY <1>2, <1>3, <1>4, <1>5, <2>1, Numbers, <1>1 DEF Done, Worker, Thread
  <2>2. CASE ~Ending
    BY <1>2, <1>3, <1>5, <2>2 DEF Done, Resting
  <2>. QED
    BY <2>1, <2>2
<1>10. WorkersOK' /\ TreeOK'
  BY <1>5, <1>7, <1>9 DEF WorkersOK, TreeOK
<1>11. \A t \in Thread : pc'[t] \notin BarrierLabel /\ pc[t] # "locked"
  BY <1>2, <1>5 DEF Done, BarrierLabel, Worker
<1>12. JoinOK'
  BY <1>11 DEF JoinOK
<1>13. HolderOK'
  <2>1. holder = Nobody
    BY <1>1, <1>2, <1>11 DEF HolderOK, Typed
  <2>. QED
    BY <1>3, <1>11, <2>1 DEF HolderOK, BarrierLabel
<1>. QED
  BY <1>6, <1>8, <1>10, <1>12, <1>13 DEF PlaceInv

(* The master that activates a worker leaves everyone in place.            *)
LEMMA ActivateKeeps ==
  ASSUME PlaceInv, Activate
  PROVE  PlaceInv'
<1>1. Typed /\ MasterOK /\ WorkersOK /\ TreeOK /\ JoinOK /\ HolderOK
  BY DEF PlaceInv
<1>. DEFINE a == child[0]
<1>2. /\ pc[0] = "start" /\ control' = [control EXCEPT ![a] = 1]
      /\ child' = [child EXCEPT ![0] = a - 1]
      /\ pc' = [pc EXCEPT ![0] = IF a = 1 THEN then ELSE "start"]
      /\ UNCHANGED <<Same, claim, holder, rank, ending, value, ran>>
  BY <1>1 DEF Activate, Activated, Go, Put, Typed
<1>3. /\ 0 \in Thread /\ threadCount \in Nat /\ threadCount <= MaxThreads /\ MaxThreads \in Nat
      /\ threadCount > 1 /\ a \in 1..(threadCount - 1) /\ ~Unmakes /\ size = threadCount
      /\ then \in {"enter", "idle"} /\ (then = "idle" => routine # "none")
  BY <1>1, <1>2, Numbers DEF MasterOK, Unmakes
<1>4. a \in Worker /\ a \in Thread
  BY <1>3 DEF Worker, Thread
<1>5. /\ pc'[0] = IF a = 1 THEN then ELSE "start"
      /\ \A t \in Worker : pc'[t] = pc[t]
      /\ child'[0] = a - 1 /\ control'[a] = 1
      /\ \A t \in Worker : child'[t] = child[t]
      /\ \A t \in Thread : t # a => control'[t] = control[t]
      /\ pc' \in [Thread -> MasterLabel \cup WorkerLabel] /\ pc'[0] \in MasterLabel
      /\ child' \in [Thread -> 0..MaxThreads] /\ control' \in [Thread -> 0..1]
  <2>1. (IF a = 1 THEN then ELSE "start") \in MasterLabel
    BY <1>3 DEF MasterLabel
  <2>2. pc \in [Thread -> MasterLabel \cup WorkerLabel] /\ child \in [Thread -> 0..MaxThreads]
        /\ control \in [Thread -> 0..1]
    BY <1>1 DEF Typed
  <2>3. a - 1 \in 0..MaxThreads
    BY <1>3
  <2>. HIDE DEF a
  <2>. QED
    BY <1>2, <1>3, <1>4, <2>1, <2>2, <2>3 DEF Worker
<1>. HIDE DEF a
<1>6. Typed'
  BY <1>1, <1>2, <1>5 DEF Typed, Same, launch
<1>7. /\ Out = (a + 1)..(threadCount - 1) /\ Out' = a..(threadCount - 1) /\ ~Unmakes'
      /\ Met = Out /\ Met' = Out' /\ ~Ready'
  BY <1>2, <1>3, <1>5 DEF Out, Ready, Unmakes, Met, Same, launch, a
<1>8. MasterOK'
  BY <1>1, <1>2, <1>3, <1>5, <1>7 DEF MasterOK, Same, launch, a, Unmakes
<1>9. \A t \in Out : t \in Worker /\ t # a /\ t > a
  BY <1>3, <1>7 DEF Worker, Thread
<1>10. \A u : Kids(u)' = Kids(u)
  BY <1>2 DEF Kids, Same
<1>11. WorkersOK'
  <2>1. ASSUME NEW t \in Out PROVE (Active(t) \/ Done(t))'
    <3>1. (Active(t) => Active(t)') /\ (Done(t) => Done(t)')
      BY <1>2, <1>5, <1>9, <2>1 DEF Active, Done, Ending, Same, launch, Worker
    <3>. QED
      BY <1>1, <2>1, <3>1 DEF WorkersOK
  <2>2. ASSUME NEW t, t = a PROVE Active(t)'
    <3>1. Resting(t)
      BY <1>1, <1>2, <1>3, <1>4, <1>7, <2>2 DEF WorkersOK
    <3>2. pc'[t] = "spin" /\ control'[t] = 1 /\ then' # "made"
      BY <1>2, <1>3, <1>4, <1>5, <2>2, <3>1 DEF Resting, Same
    <3>. QED
      BY <3>2 DEF Active
  <2>3. ASSUME NEW t \in Worker, t \notin Out'
        PROVE  IF t < threadCount /\ pc'[0] # "create" THEN Resting(t)' ELSE pc'[t] = "off"
    <3>1. t \notin Out /\ t # a /\ t \in Thread
      BY <1>3, <1>7, <2>3 DEF Worker
    <3>2. pc'[0] # "create" /\ pc'[t] = pc[t] /\ control'[t] = control[t]
      BY <1>3, <1>5, <2>3, <3>1
    <3>. QED
      BY <1>1, <1>2, <1>3, <2>3, <3>1, <3>2 DEF WorkersOK, Resting
  <2>4. \A t \in Out' : t \in Out \/ t = a
    BY <1>3, <1>7
  <2>. QED
    BY <1>2, <1>7, <2>1, <2>2, <2>3, <2>4 DEF WorkersOK, Same
<1>12. ASSUME NEW t \in Out, NEW u \in Kids(t) PROVE u \in Thread /\ u # a
  BY <1>1, <1>3, <1>9, <1>12, <1>7, KidFacts DEF Worker, Thread
<1>13. TreeOK'
  <2>. SUFFICES ASSUME NEW t \in Out', control'[t] = 0, NEW u \in Kids(t) PROVE control'[u] = 0
    BY <1>7, <1>10 DEF TreeOK
  <2>1. t \in Out
    BY <1>3, <1>5, <1>7
  <2>. QED
    BY <1>1, <1>5, <1>7, <1>9, <1>12, <2>1 DEF TreeOK, Worker
<1>14. JoinOK'
  <2>. SUFFICES ASSUME NEW t \in Thread, pc'[t] \in BarrierLabel \ {"enter"} PROVE Window(t)'
    BY DEF JoinOK, Window
  <2>1. t # 0
    BY <1>3, <1>5 DEF BarrierLabel
  <2>2. t \in Worker /\ pc[t] \in BarrierLabel \ {"enter"}
    BY <1>5, <2>1 DEF Worker
  <2>3. t \in Out
    BY <1>2, <1>7, <2>2, InBarrier
  <2>4. Window(t)
    BY <1>1, <2>2 DEF JoinOK, Window
  <2>. QED
    BY <1>2, <1>5, <1>10, <1>12, <2>2, <2>3, <2>4 DEF Window, Serial, Same
<1>15. HolderOK'
  <2>1. \A t \in Thread : pc'[t] = "locked" <=> pc[t] = "locked"
    BY <1>2, <1>3, <1>5 DEF Worker
  <2>2. holder = 0 /\ routine = "block" => pc'[0] \in {"start", "idle"}
    BY <1>1, <1>5 DEF MasterOK
  <2>3. holder \in Thread \cup {Nobody}
    BY <1>1 DEF Typed
  <2>. QED
    BY <1>1, <1>2, <2>1, <2>2, <2>3 DEF HolderOK, Same, launch
<1>. QED
  BY <1>6, <1>8, <1>11, <1>13, <1>14, <1>15 DEF PlaceInv

(* The master that creates a worker leaves everyone in place.              *)
LEMMA CreateKeeps ==
  ASSUME PlaceInv, Create
  PROVE  PlaceInv'
<1>1. Typed /\ MasterOK /\ WorkersOK /\ TreeOK /\ JoinOK /\ HolderOK
  BY DEF PlaceInv
<1>. DEFINE a == child[0]
<1>2. /\ pc[0] = "create" /\ child' = [child EXCEPT ![0] = a - 1]
      /\ pc' = [pc EXCEPT ![a] = "enter", ![0] = IF a = 1 THEN "enter" ELSE @]
      /\ ending' = [ending EXCEPT ![a] = FALSE]
      /\ UNCHANGED <<Made, threadCount, size, then, control>>
  BY DEF Create, Put
<1>3. /\ 0 \in Thread /\ threadCount \in Nat /\ threadCount <= MaxThreads /\ MaxThreads \in Nat
      /\ threadCount > 1 /\ a \in 1..(threadCount - 1) /\ ~Unmakes /\ size = threadCount
      /\ then = "made" /\ routine = "none" /\ control[a] = 1
  BY <1>1, <1>2, Numbers DEF MasterOK, Unmakes
<1>4. a \in Worker /\ a \in Thread /\ a # 0
  BY <1>3 DEF Worker, Thread
<1>5. /\ pc'[0] = (IF a = 1 THEN "enter" ELSE "create") /\ pc'[a] = "enter" /\ ~ending'[a]
      /\ \A t \in Worker : t # a => pc'[t] = pc[t] /\ ending'[t] = ending[t]
      /\ child'[0] = a - 1 /\ \A t \in Worker : child'[t] = child[t]
      /\ pc' \in [Thread -> MasterLabel \cup WorkerLabel] /\ pc'[0] \in MasterLabel
      /\ child' \in [Thread -> 0..MaxThreads] /\ ending' \in [Thread -> BOOLEAN]
  <2>1. "enter" \in MasterLabel /\ "create" \in MasterLabel
    BY DEF MasterLabel
  <2>2. pc \in [Thread -> MasterLabel \cup WorkerLabel] /\ child \in [Thread -> 0..MaxThreads]
        /\ ending \in [Thread -> BOOLEAN]
    BY <1>1 DEF Typed
  <2>3. a - 1 \in 0..MaxThreads
    BY <1>3
  <2>. HIDE DEF a
  <2>4. pc'[0] = (IF a = 1 THEN "enter" ELSE "create") /\ pc'[a] = "enter"
    BY <1>2, <1>3, <1>4, <2>2
  <2>5. \A t \in Worker : t # a => pc'[t] = pc[t] /\ ending'[t] = ending[t]
    BY <1>2, <1>3, <1>4, <2>2 DEF Worker
  <2>6. child'[0] = a - 1 /\ (\A t \in Worker : child'[t] = child[t]) /\ child' \in [Thread -> 0..MaxThreads]
    BY <1>2, <1>3, <2>2, <2>3 DEF Worker
  <2>7. ~ending'[a] /\ ending' \in [Thread -> BOOLEAN]
    BY <1>2, <1>4, <2>2
  <2>8. pc' \in [Thread -> MasterLabel \cup WorkerLabel]
    BY <1>2, <1>3, <1>4, <2>1, <2>2
  <2>. QED
    BY <2>1, <2>4, <2>5, <2>6, <2>7, <2>8
<1>. HIDE DEF a
<1>6. Typed'
  <2>1. \A t \in Worker : pc'[t] \in WorkerLabel
    BY <1>1, <1>5 DEF Typed, WorkerLabel, BarrierLabel
  <2>. QED
    BY <1>1, <1>2, <1>5, <2>1 DEF Typed, Made
<1>7. /\ Out = (a + 1)..(threadCount - 1) /\ Out' = a..(threadCount - 1) /\ ~Unmakes'
      /\ Met = Out /\ Met' = Out' /\ ~Ready'
  BY <1>2, <1>3, <1>5 DEF Out, Ready, Unmakes, Met, Made, a
<1>8. MasterOK'
  <2>1. pc'[0] = "create" => \A t \in 1..child'[0] : control'[t] = 1
    BY <1>1, <1>2, <1>3, <1>5 DEF MasterOK, a
  <2>. QED
    BY <1>1, <1>2, <1>3, <1>5, <1>7, <2>1 DEF MasterOK, Made
<1>9. \A t \in Out : t \in Worker /\ t # a /\ t > a
  BY <1>3, <1>7 DEF Worker, Thread
<1>10. \A u : Kids(u)' = Kids(u)
  BY <1>2 DEF Kids
<1>11. WorkersOK'
  <2>1. ASSUME NEW t \in Out PROVE (Active(t) \/ Done(t))'
    <3>1. pc'[t] = pc[t] /\ ending'[t] = ending[t]
      BY <1>5, <1>9, <2>1
    <3>2. (Active(t) => Active(t)') /\ (Done(t) => Done(t)')
      BY <1>2, <3>1 DEF Active, Done, Ending, Made
    <3>. QED
      BY <1>1, <2>1, <3>2 DEF WorkersOK
  <2>2. ASSUME NEW t, t = a PROVE Active(t)'
    <3>1. control'[t] = 1 /\ pc'[t] = "enter" /\ ~ending'[t] /\ ending'[t] \in BOOLEAN
      BY <1>2, <1>3, <1>4, <1>5, <2>2
    <3>2. routine' = "none" /\ then' = "made"
      BY <1>2, <1>3 DEF Made
    <3>. QED
      BY <3>1, <3>2 DEF Active, Ending
  <2>3. ASSUME NEW t \in Worker, t \notin Out'
        PROVE  IF t < threadCount /\ pc'[0] # "create" THEN Resting(t)' ELSE pc'[t] = "off"
    <3>1. t \notin Out /\ t # a /\ t \in Nat \ {0}
      BY <1>3, <1>7, <2>3 DEF Worker, Thread
    <3>2. pc'[t] = "off"
      BY <1>1, <1>2, <1>3, <1>5, <2>3, <3>1 DEF WorkersOK
    <3>3. ~(t < threadCount /\ pc'[0] # "create")
      BY <1>3, <1>5, <1>7, <2>3, <3>1
    <3>. QED
      BY <3>2, <3>3
  <2>4. \A t \in Out' : t \in Out \/ t = a
    BY <1>3, <1>7
  <2>. QED
    BY <1>2, <1>7, <2>1, <2>2, <2>3, <2>4 DEF WorkersOK
<1>12. TreeOK'
  <2>. SUFFICES ASSUME NEW t \in Out', control'[t] = 0, NEW u \in Kids(t) PROVE control'[u] = 0
    BY <1>7, <1>10 DEF TreeOK
  <2>1. t \in Out
    BY <1>2, <1>3, <1>7
  <2>. QED
    BY <1>1, <1>2, <1>7, <2>1 DEF TreeOK
<1>13. JoinOK'
  <2>. SUFFICES ASSUME NEW t \in Thread, pc'[t] \in BarrierLabel \ {"enter"} PROVE Window(t)'
    BY DEF JoinOK, Window
  <2>1. t # 0 /\ t # a
    BY <1>3, <1>5 DEF BarrierLabel
  <2>2. t \in Worker /\ pc[t] \in BarrierLabel \ {"enter"}
    BY <1>5, <2>1 DEF Worker
  <2>3. Window(t)
    BY <1>1, <2>2 DEF JoinOK, Window
  <2>. QED
    BY <1>2, <1>5, <1>10, <2>2, <2>3 DEF Window, Serial
<1>14. HolderOK'
  <2>1. \A t \in Thread : pc'[t] = "locked" => pc[t] = "locked"
    BY <1>3, <1>5 DEF Worker
  <2>2. holder = Nobody \/ pc[holder] = "locked"
    BY <1>1, <1>3 DEF HolderOK
  <2>3. \A t \in Thread : pc[t] = "locked" => t # 0 /\ t # a /\ pc'[t] = "locked"
    <3>1. pc[a] = "off"
      BY <1>1, <1>2, <1>3, <1>4, <1>7 DEF WorkersOK
    <3>. QED
      BY <1>2, <1>5, <3>1 DEF Worker
  <2>4. holder \in Thread \cup {Nobody}
    BY <1>1 DEF Typed
  <2>. QED
    BY <1>1, <1>2, <2>1, <2>2, <2>3, <2>4 DEF HolderOK, Made
<1>. QED
  BY <1>6, <1>8, <1>11, <1>12, <1>13, <1>14 DEF PlaceInv

(* The master that ends what it has made leaves everyone in place.         *)
LEMMA UnmakeKeeps ==
  ASSUME PlaceInv, CreateFails \/ UnmakeNext \/ UnmakeActivates \/ UnmakeReaps \/ InitFails
  PROVE  PlaceInv'
<1>1. Typed /\ MasterOK /\ WorkersOK /\ TreeOK /\ JoinOK /\ HolderOK
  BY DEF PlaceInv
<1>. DEFINE Turn(new) ==
        /\ pc' = [pc EXCEPT ![0] = new]
        /\ \/ pc[0] = "create" /\ new = "unmake"
           \/ pc[0] = "unmake" /\ new \in {"activate", "idle"}
           \/ pc[0] = "activate" /\ new = "reap"
           \/ pc[0] = "reap" /\ new = "unmake"
        /\ UNCHANGED <<Made, size, child, ending>>
        /\ then' = IF new = "idle" THEN "return" ELSE then
        /\ threadCount' = IF new = "idle" THEN 0
                          ELSE IF new = "activate" THEN threadCount - 1 ELSE threadCount
        /\ new = "activate" => child[0] < threadCount - 1
        /\ new = "idle" => child[0] >= threadCount - 1
        /\ pc[0] \in {"activate", "reap"} => control[threadCount] = 0
        /\ control' = IF pc[0] = "create" THEN [control EXCEPT ![child[0]] = 0]
                      ELSE IF pc[0] = "activate" THEN [control EXCEPT ![threadCount] = 1]
                      ELSE control
<1>2. PICK new \in {"unmake", "activate", "reap", "idle"} : Turn(new)
  <2>1. CASE CreateFails
    <3>1. /\ pc[0] = "create" /\ pc' = [pc EXCEPT ![0] = "unmake"]
          /\ then' = then /\ threadCount' = threadCount
          /\ control' = [control EXCEPT ![child[0]] = 0]
      BY <2>1 DEF CreateFails, Go, Put, Made
    <3>2. UNCHANGED <<Made, size, child, ending>>
      BY <2>1 DEF CreateFails
    <3>3. Turn("unmake")
      BY <3>1, <3>2
    <3>. QED
      BY <3>3
  <2>2. CASE UnmakeNext
    <3>1. /\ pc[0] = "unmake" /\ pc' = [pc EXCEPT ![0] = "activate"]
          /\ then' = then /\ threadCount' = threadCount - 1 /\ child[0] < threadCount - 1
          /\ control' = control
      BY <2>2 DEF UnmakeNext, Go, Put, Made, Last, Unmaking
    <3>2. UNCHANGED <<Made, size, child, ending>>
      BY <2>2 DEF UnmakeNext, Unmaking
    <3>3. Turn("activate")
      BY <3>1, <3>2
    <3>. QED
      BY <3>3
  <2>3. CASE UnmakeActivates
    <3>1. /\ pc[0] = "activate" /\ pc' = [pc EXCEPT ![0] = "reap"]
          /\ then' = then /\ threadCount' = threadCount /\ control[threadCount] = 0
          /\ control' = [control EXCEPT ![threadCount] = 1]
      BY <2>3 DEF UnmakeActivates, Go, Put, Made, Last, Unmaking
    <3>2. UNCHANGED <<Made, size, child, ending>>
      BY <2>3 DEF UnmakeActivates, Unmaking
    <3>3. Turn("reap")
      BY <3>1, <3>2
    <3>. QED
      BY <3>3
  <2>4. CASE UnmakeReaps
    <3>1. Turn("unmake")
      BY <2>4 DEF UnmakeReaps, Go, Put, Made, Last, Unmaking
    <3>. QED
      BY <3>1
  <2>5. CASE InitFails
    <3>1. /\ pc[0] = "unmake" /\ pc' = [pc EXCEPT ![0] = "idle"]
          /\ then' = "return" /\ threadCount' = 0 /\ child[0] >= threadCount - 1
          /\ control' = control
      BY <2>5 DEF InitFails, Go, Put, Made, Last, Unmaking
    <3>2. UNCHANGED <<Made, size, child, ending>>
      BY <2>5 DEF InitFails, Unmaking
    <3>3. Turn("idle")
      BY <3>1, <3>2
    <3>. QED
      BY <3>3
  <2>. QED
    BY <2>1, <2>2, <2>3, <2>4, <2>5
<1>3. /\ 0 \in Thread /\ threadCount \in Nat /\ size \in Nat /\ size <= MaxThreads /\ MaxThreads \in Nat
      /\ threadCount > 1 /\ child[0] \in 1..(threadCount - 1) /\ threadCount <= size
      /\ then = "made" /\ routine = "none" /\ ~Ending
      /\ pc[0] \in {"activate", "reap"} => threadCount < size
      /\ Unmakes <=> pc[0] # "create"
  BY <1>1, <1>2, Numbers DEF MasterOK, Unmakes, Ending
<1>4. /\ pc'[0] = new /\ \A t \in Worker : pc'[t] = pc[t]
      /\ pc' \in [Thread -> MasterLabel \cup WorkerLabel] /\ pc'[0] \in MasterLabel
  BY <1>1, <1>2, <1>3 DEF Typed, MasterLabel, Worker
<1>5. /\ control' \in [Thread -> 0..1]
      /\ pc[0] = "create" => \A t \in Thread : control'[t] = IF t = child[0] THEN 0 ELSE control[t]
      /\ pc[0] = "activate" => \A t \in Thread : control'[t] = IF t = threadCount THEN 1 ELSE control[t]
      /\ pc[0] \notin {"create", "activate"} => control' = control
  <2>1. control \in [Thread -> 0..1]
    BY <1>1 DEF Typed
  <2>2. CASE pc[0] = "create"
    <3>1. child[0] \in Thread /\ control' = [control EXCEPT ![child[0]] = 0]
      BY <1>2, <1>3, <2>2 DEF Thread
    <3>. QED
      BY <2>1, <2>2, <3>1
  <2>3. CASE pc[0] = "activate"
    <3>1. control' = [control EXCEPT ![threadCount] = 1]
      BY <1>2, <2>3
    <3>2. pc[0] \notin {"create", "idle"} /\ 1 \in 0..1 /\ pc[0] # "create"
      BY <2>3
    <3>3. \A t \in Thread : control'[t] = IF t = threadCount THEN 1 ELSE control[t]
      BY <2>1, <3>1
    <3>4. control' \in [Thread -> 0..1]
      BY <2>1, <3>1, <3>2
    <3>. QED
      BY <2>3, <3>2, <3>3, <3>4
  <2>4. CASE pc[0] \notin {"create", "activate"}
    BY <1>2, <2>1, <2>4
  <2>. QED
    BY <2>2, <2>3, <2>4
<1>6. threadCount' \in 0..MaxThreads /\ threadCount' <= threadCount
  BY <1>2, <1>3
<1>7. Typed'
  <2>1. then' \in {"return", "made", "enter", "idle"} /\ \A t \in Worker : pc'[t] \in WorkerLabel
    BY <1>1, <1>2, <1>4 DEF Typed
  <2>. QED
    BY <1>1, <1>2, <1>4, <1>5, <1>6, <2>1 DEF Typed, Made
<1>8. /\ Ready' <=> new = "idle"
      /\ Unmakes' <=> new # "idle"
      /\ Out' = {}
  BY <1>2, <1>3, <1>4 DEF Ready, Unmakes, Out, Made
<1>9. MasterOK'
  BY <1>1, <1>2, <1>3, <1>4, <1>8 DEF MasterOK, Made, Unmakes
<1>10. pc[0] = "create" => Out = (child[0] + 1)..(threadCount - 1)
  BY <1>3 DEF Out, Ready
<1>11. WorkersOK'
  <2>1. SUFFICES ASSUME NEW t \in Worker
                 PROVE  IF new # "idle"
                        THEN IF child[0] < t /\ t < threadCount' THEN Spare(t)'
                             ELSE IF new = "activate" /\ t = threadCount' THEN Spare(t)'
                             ELSE IF new = "reap" /\ t = threadCount' THEN Reaped(t)'
                             ELSE pc'[t] = "off"
                        ELSE pc'[t] = "off" /\ threadCount' = 0
    <3>1. child' = child
      BY <1>2
    <3>2. new = "idle" => \A t \in Worker : ~(t < threadCount')
      BY <1>2 DEF Worker, Thread
    <3>. QED
      BY <1>4, <1>8, <3>1, <3>2 DEF WorkersOK
  <2>2. /\ t \in Thread /\ t \in Nat \ {0} /\ pc'[t] = pc[t] /\ ending' = ending
    BY <1>2, <1>4 DEF Worker, Thread
  <2>3. CASE pc[0] = "create"
    <3>1. new = "unmake" /\ threadCount' = threadCount
      BY <1>2, <2>3
    <3>2. CASE child[0] < t /\ t < threadCount
      <4>1. t \in Out /\ control'[t] = control[t]
        BY <1>3, <1>5, <1>10, <2>2, <2>3, <3>2
      <4>2. Active(t) \/ Done(t)
        BY <1>1, <4>1 DEF WorkersOK
      <4>. QED
        BY <1>3, <2>2, <3>1, <3>2, <4>1, <4>2 DEF Active, Done, Spare, Resting
    <3>3. CASE ~(child[0] < t /\ t < threadCount)
      <4>1. t \notin Out /\ ~Unmakes
        BY <1>3, <1>10, <2>2, <2>3, <3>3
      <4>2. pc[t] = "off"
        BY <1>1, <2>3, <4>1 DEF WorkersOK
      <4>. QED
        BY <2>2, <3>1, <3>3, <4>2
    <3>. QED
      BY <3>2, <3>3
  <2>4. CASE pc[0] = "unmake"
    <3>1. control' = control /\ Unmakes
      BY <1>3, <1>5, <2>4
    <3>2. (Spare(t) => Spare(t)')
      BY <2>2, <3>1 DEF Spare, Resting
    <3>3. IF child[0] < t /\ t < threadCount THEN Spare(t) ELSE pc[t] = "off"
      BY <1>1, <2>4, <3>1 DEF WorkersOK
    <3>4. CASE new = "activate"
      BY <1>2, <1>3, <2>2, <3>2, <3>3, <3>4
    <3>5. CASE new = "idle"
      BY <1>2, <1>3, <2>2, <3>3, <3>5
    <3>. QED
      BY <1>2, <2>4, <3>4, <3>5
  <2>5. CASE pc[0] = "activate"
    <3>1. new = "reap" /\ threadCount' = threadCount /\ control[threadCount] = 0 /\ Unmakes
      BY <1>2, <1>3, <2>5
    <3>2. CASE t = threadCount
      <4>1. Spare(t)
        BY <1>1, <1>3, <2>5, <3>1, <3>2 DEF WorkersOK
      <4>2. pc'[t] = "spin" /\ control'[t] = 1
        BY <1>5, <2>2, <2>5, <3>1, <3>2, <4>1 DEF Spare, Resting
      <4>3. Reaped(t)'
        BY <4>2 DEF Reaped
      <4>. QED
        BY <1>3, <3>1, <3>2, <4>3
    <3>3. CASE t # threadCount
      <4>1. control'[t] = control[t]
        BY <1>5, <2>2, <2>5, <3>3
      <4>2. Spare(t) => Spare(t)'
        BY <2>2, <4>1 DEF Spare, Resting
      <4>3. IF child[0] < t /\ t < threadCount THEN Spare(t) ELSE pc[t] = "off"
        BY <1>1, <2>5, <3>1, <3>3 DEF WorkersOK
      <4>. QED
        BY <2>2, <3>1, <3>3, <4>2, <4>3
    <3>. QED
      BY <3>2, <3>3
  <2>6. CASE pc[0] = "reap"
    <3>1. new = "unmake" /\ threadCount' = threadCount /\ control[threadCount] = 0 /\ Unmakes
          /\ control' = control
      BY <1>2, <1>3, <1>5, <2>6
    <3>2. t = threadCount => pc[t] = "off"
      <4>1. t = threadCount => Reaped(t)
        BY <1>1, <1>3, <2>6, <3>1 DEF WorkersOK
      <4>. QED
        BY <3>1, <4>1 DEF Reaped
    <3>3. Spare(t) => Spare(t)'
      BY <2>2, <3>1 DEF Spare, Resting
    <3>4. IF child[0] < t /\ t < threadCount THEN Spare(t) ELSE pc[t] = "off"
      BY <1>1, <2>6, <3>1, <3>2 DEF WorkersOK
    <3>. QED
      BY <2>2, <3>1, <3>3, <3>4
  <2>. QED
    BY <1>2, <2>3, <2>4, <2>5, <2>6
<1>12. \A t \in Thread : \A u \in Kids(t)' : u \in Kids(t) /\ u \in Thread /\ u < threadCount
  <2>1. \A t \in Thread : \A u \in Kids(t) : u \in Worker /\ u < threadCount
    BY <1>1, KidFacts
  <2>2. \A t \in Thread : \A u \in Kids(t)' : u \in Kids(t)
    <3>. SUFFICES ASSUME NEW t \in Thread, NEW u \in Kids(t)' PROVE u \in Kids(t)
      OBVIOUS
    <3>1. size' = size /\ u \in SpanBegin(size, t)..(SpanEnd(size, t) - 1) /\ u < threadCount'
      BY <1>2 DEF Kids
    <3>2. u \in Int
      BY <1>1, <3>1, KidFacts
    <3>. QED
      BY <1>3, <1>6, <3>1, <3>2 DEF Kids
  <2>. QED
    BY <2>1, <2>2 DEF Worker
<1>13. \A u \in Thread : u < threadCount /\ control[u] = 0 => control'[u] = 0
  BY <1>3, <1>5
<1>14. TreeOK'
  <2>. SUFFICES ASSUME NEW t \in Met', control'[t] = 0, NEW u \in Kids(t)' PROVE control'[u] = 0
    BY DEF TreeOK
  <2>1. t \in Met /\ t \in Thread /\ child[0] < t /\ t < threadCount
    <3>1. t \in Worker /\ child[0] < t /\ t < threadCount' /\ new # "idle"
      BY <1>2, <1>8 DEF Met, Below
    <3>2. t \in Int
      BY <3>1 DEF Worker, Thread
    <3>3. t < threadCount
      BY <1>3, <1>6, <3>1, <3>2
    <3>. QED
      BY <1>3, <1>10, <3>1, <3>2, <3>3 DEF Met, Below, Worker
  <2>2. control[t] = 0
    BY <1>3, <1>5, <2>1
  <2>. QED
    BY <1>1, <1>12, <1>13, <2>1, <2>2 DEF TreeOK
<1>15. JoinOK'
  <2>. SUFFICES ASSUME NEW t \in Thread, pc'[t] \in BarrierLabel \ {"enter"} PROVE Window(t)'
    BY DEF JoinOK, Window
  <2>1. t # 0
    BY <1>4 DEF BarrierLabel
  <2>2. t \in Worker /\ pc[t] \in BarrierLabel \ {"enter"}
    BY <1>4, <2>1 DEF Worker
  <2>3. Window(t)
    BY <1>1, <2>2 DEF JoinOK, Window
  <2>. QED
    BY <1>2, <1>12, <1>13, <2>1, <2>3 DEF Window, Serial
<1>16. HolderOK'
  <2>1. \A t \in Thread : pc'[t] = "locked" <=> pc[t] = "locked"
    BY <1>2, <1>4 DEF Worker
  <2>2. holder' = holder /\ routine' = routine /\ holder \in Thread \cup {Nobody}
    BY <1>1, <1>2 DEF Typed, Made
  <2>. QED
    BY <1>1, <1>3, <2>1, <2>2 DEF HolderOK
<1>. QED
  BY <1>7, <1>9, <1>11, <1>14, <1>15, <1>16 DEF PlaceInv
-----------------------------------------------------------------------------
(* The invariant is one                                                    *)

(* At first everyone is in place.                                          *)
LEMMA PlaceBegins == Init => PlaceInv
<1>. SUFFICES ASSUME Init PROVE PlaceInv
  OBVIOUS
<1>1. /\ 0 \in Thread /\ 0 \in 0..MaxThreads /\ 0 \in 0..MaxWork /\ 0 \in 0..1
      /\ \A t \in Worker : t \in Thread /\ t # 0 /\ ~(t < 0)
  BY DEF Thread, Worker
<1>2. /\ threadCount = 0 /\ size = 0 /\ routine = "none" /\ workCount = 0 /\ workThreads = 0
      /\ claim = 0 /\ lockCount = 0 /\ reduces = FALSE /\ holder = Nobody
      /\ control = [t \in Thread |-> 0] /\ child = [t \in Thread |-> 0]
      /\ pc = [t \in Thread |-> IF t = 0 THEN "idle" ELSE "off"]
      /\ ending = [t \in Thread |-> FALSE] /\ then = "return"
      /\ rank \in [Thread -> Rank \cup {-1}] /\ ran \in [Rank -> SUBSET Thread]
  BY DEF Init, NoRank, NotRun
<1>3. /\ pc[0] = "idle" /\ \A t \in Worker : pc[t] = "off"
      /\ pc \in [Thread -> MasterLabel \cup WorkerLabel]
      /\ pc[0] \in MasterLabel /\ \A t \in Worker : pc[t] \in WorkerLabel
  BY <1>1, <1>2 DEF MasterLabel, WorkerLabel
<1>4. Typed
  <2>1. reduces \in BOOLEAN /\ routine \in {"none", "work", "block"}
        /\ then \in {"return", "made", "enter", "idle"}
    BY <1>2
  <2>2. ending \in [Thread -> BOOLEAN]
    BY <1>2
  <2>3. control \in [Thread -> 0..1] /\ child \in [Thread -> 0..MaxThreads]
    BY <1>1, <1>2
  <2>. QED
    BY <1>1, <1>2, <1>3, <2>1, <2>2, <2>3 DEF Typed
<1>5. Ready /\ ~Unmakes /\ Out = {} /\ Met = {}
  BY <1>2, <1>3 DEF Ready, Unmakes, Out, Met
<1>6. MasterOK
  BY <1>2, <1>3, <1>5 DEF MasterOK
<1>7. WorkersOK /\ TreeOK
  BY <1>1, <1>2, <1>3, <1>5 DEF WorkersOK, TreeOK
<1>8. \A t \in Thread : pc[t] \notin BarrierLabel
  BY <1>3 DEF BarrierLabel, Worker
<1>9. JoinOK /\ HolderOK
  BY <1>2, <1>8 DEF JoinOK, HolderOK, BarrierLabel
<1>. QED
  BY <1>4, <1>6, <1>7, <1>9 DEF PlaceInv

(* Whose step a step is                                                    *)
LEMMA Steps ==
  ASSUME Next
  PROVE  \/ Calls
         \/ \E t \in Thread : BarrierStep(t)
         \/ \E t \in Worker : Lower(t) \/ Wake(t)
         \/ Activate \/ Create \/ WaitReturns \/ InitReturns
         \/ CreateFails \/ UnmakeNext \/ UnmakeActivates \/ UnmakeReaps \/ InitFails
<1>1. 0 \in Thread /\ Worker \subseteq Thread
  BY DEF Thread, Worker
<1>2. ASSUME MasterSteps, ~(\E t \in Thread : BarrierStep(t))
      PROVE  \/ Activate \/ Create \/ WaitReturns \/ InitReturns
             \/ CreateFails \/ UnmakeNext \/ UnmakeActivates \/ UnmakeReaps \/ InitFails
  BY <1>1, <1>2 DEF MasterSteps, BarrierStep
<1>3. ASSUME NEW t \in Worker, DriverSteps(t), ~BarrierStep(t) PROVE Lower(t) \/ Wake(t)
  BY <1>3 DEF DriverSteps, BarrierStep
<1>. QED
  BY <1>1, <1>2, <1>3 DEF Next

(* Every step leaves everyone in place.                                    *)
LEMMA PlaceKept == PlaceInv /\ [Next]_vars => PlaceInv'
<1>1. ASSUME PlaceInv, Next PROVE PlaceInv'
  <2>1. CASE Calls
    BY <1>1, <2>1, CallsKeep
  <2>2. ASSUME NEW t \in Thread, BarrierStep(t) PROVE PlaceInv'
    <3>1. Moves(t) /\ Typed' /\ HolderOK'
      BY <1>1, <2>2, BarrierMoves
    <3>. QED
      BY <1>1, <3>1, MovesKeep DEF PlaceInv
  <2>3. ASSUME NEW t \in Worker, Lower(t) \/ Wake(t) PROVE PlaceInv'
    BY <1>1, <2>3, DriverKeeps
  <2>4. CASE Activate
    BY <1>1, <2>4, ActivateKeeps
  <2>5. CASE Create
    BY <1>1, <2>5, CreateKeeps
  <2>6. CASE WaitReturns \/ InitReturns
    BY <1>1, <2>6, ReturnsKeep
  <2>7. CASE CreateFails \/ UnmakeNext \/ UnmakeActivates \/ UnmakeReaps \/ InitFails
    BY <1>1, <2>7, UnmakeKeeps
  <2>. QED
    BY <1>1, <2>1, <2>2, <2>3, <2>4, <2>5, <2>6, <2>7, Steps
<1>2. ASSUME PlaceInv, UNCHANGED vars PROVE PlaceInv'
  BY <1>2 DEF vars, launch, PlaceInv, Typed, MasterOK, WorkersOK, TreeOK, JoinOK, HolderOK, Ready,
     Unmakes, Ending, Out, Active, Done, Resting, Spare, Reaped, Kids, Below, Met, Serial
<1>. QED
  BY <1>1, <1>2

(* Every thread is where the launch, or the making of the pool, has it.    *)
THEOREM ThreadsInPlace == Spec => []PlaceInv
<1>. QED
  BY PlaceBegins, PlaceKept, PTL DEF Spec

(* Between launches all workers of the pool spin and there is no other,    *)
(* and the lock is free: after TPI_Finalize, and after a TPI_Init that     *)
(* could not create its threads, none is left.                             *)
THEOREM QuietBetweenLaunches == Spec => []QuietWhenReady
<1>1. PlaceInv => QuietWhenReady
  BY AtRest DEF QuietWhenReady, Ready, Resting
<1>. QED
  BY <1>1, ThreadsInPlace, PTL
-----------------------------------------------------------------------------
(* The calls of a launch                                                   *)

Calling(t) == pc[t] \in {"call", "locked"}
(* One that will make no more calls in this launch                         *)
Through(t) == pc[t] = "join" \/ (t \in Out /\ control[t] = 0)
Throughs == {t \in Thread : Through(t)}
Begun(t) == Calling(t) \/ Through(t)

Launched == routine # "none"
Claiming == Launched /\ threadCount > 1 /\ ~ByRank

(* The master alone makes them in their order.                             *)
InOrder ==
  /\ \A r \in Rank : ran[r] = IF r <= rank[0] THEN {0} ELSE {}
  /\ rank[0] < workCount
  /\ pc[0] = "join" => rank[0] + 1 >= workCount
  /\ pc[0] \in {"idle", "enter"} => rank[0] = -1

(* A thread makes the call of its own rank, when it has come to it.        *)
OneEach == \A r \in Rank :
  ran[r] = IF r < workCount /\ Begun(threadCount - 1 - r) THEN {threadCount - 1 - r} ELSE {}

(* Those that were claimed have been made, and a thread stops when none is *)
(* left to claim.                                                          *)
AsClaimed ==
  /\ \A r \in Rank : ran[r] # {} <=> r < workCount /\ r < workCount - claim
  /\ \A t \in Thread : Through(t) => claim <= 0

RanksOK ==
  /\ ~Launched => ran = NotRun /\ rank = NoRank
  /\ \A t \in Thread : Calling(t) => rank[t] \in 0..(workCount - 1) /\ ran[rank[t]] = {t}
  /\ \A r \in Rank : ran[r] = {} \/ \E t \in Thread : ran[r] = {t}
  /\ Launched /\ threadCount <= 1 => InOrder
  /\ Launched /\ threadCount > 1 /\ ByRank => OneEach
  /\ Claiming => AsClaimed

(* A thread takes the count below zero once.                               *)
ClaimOK == IF Claiming THEN -claim <= Cardinality(Throughs) ELSE claim \in 0..MaxWork

(* What a thread that has not been joined holds is in no other's value.    *)
Members == {0} \cup 1..(threadCount - 1)
Entered(t) == pc[t] = "work" \/ Begun(t)
Given(e) ==
  \/ \E t \in 1..(threadCount - 1) : e = -t /\ Entered(t)
  \/ e \in Rank /\ ran[e] # {} /\ \A t \in Thread : Calling(t) => rank[t] # e
Has(p, t) ==
  /\ t \in Kids(p)
  /\ IF pc[p] = "join" THEN child[p] < t ELSE p \in Out /\ control[p] = 0
Absorbed(t) == \E p \in Members : Has(p, t)
Apart(t, u) == DOMAIN value[t] \cap DOMAIN value[u] = {}
ValuesOK ==
  IF reduces
  THEN /\ value = [t \in Thread |-> SetToBag(DOMAIN value[t])]
       /\ \A t \in Members : t # 0 /\ ~Entered(t) => value[t] = EmptyBag
       /\ \A t \in Members : \A e \in DOMAIN value[t] : e \in Int /\ Given(e)
       /\ \A e \in Int : Given(e) => \E t \in Members : ~Absorbed(t) /\ e \in DOMAIN value[t]
       /\ \A t, u \in Members : t # u /\ ~Absorbed(t) /\ ~Absorbed(u) => Apart(t, u)
  ELSE value = NoValue

(* While a thread makes its calls it has not looked at its children.       *)
FreshOK == Launched => \A t \in Thread :
  pc[t] \in {"work", "call", "locked"} => IF Serial(t) THEN child[t] = 0 ELSE child[t] = SpanEnd(size, t) - 1

CallInv == RanksOK /\ ClaimOK /\ FreshOK /\ ValuesOK
-----------------------------------------------------------------------------
(* Who is in the barrier during a launch                                   *)
LEMMA InLaunch ==
  ASSUME PlaceInv, Launched, NEW t \in Thread, pc[t] \in BarrierLabel
  PROVE  /\ t \in Members /\ ~Unmakes
         /\ t # 0 => t \in Out /\ control[t] = 1
<1>1. Typed /\ MasterOK /\ 0 \in Thread /\ threadCount \in Nat
  BY Numbers DEF PlaceInv
<1>2. ~Unmakes /\ ~Ready
  BY <1>1 DEF MasterOK, Launched, Ready, Unmakes
<1>3. CASE t = 0
  BY <1>2, <1>3 DEF Members
<1>4. CASE t # 0
  <2>1. t \in Worker
    BY <1>4 DEF Worker
  <2>2. control[t] = 1 /\ (t \in Met \/ (pc[0] \in {"activate", "reap"} /\ t = threadCount))
    BY <2>1, InBarrier
  <2>3. t \in Out
    BY <1>2, <2>2 DEF Met, Unmakes
  <2>4. t \in 1..(threadCount - 1)
    BY <1>1, <1>2, <2>3 DEF Out, MasterOK
  <2>. QED
    BY <1>2, <2>2, <2>3, <2>4 DEF Members
<1>. QED
  BY <1>3, <1>4

(* Calls are made in a launch.                                             *)
LEMMA CallingIsLaunched ==
  ASSUME PlaceInv, NEW t \in Thread, Calling(t)
  PROVE  Launched
<1>1. MasterOK
  BY DEF PlaceInv
<1>2. t = 0 => Launched
  BY <1>1 DEF MasterOK, Launched, Calling
<1>3. ASSUME t # 0 PROVE Launched
  <2>1. t \in Worker /\ pc[t] \in BarrierLabel /\ pc[t] \notin {"enter", "join"}
    BY <1>3 DEF Worker, Calling, BarrierLabel
  <2>. QED
    BY <2>1, InBarrier DEF Launched
<1>. QED
  BY <1>2, <1>3

(* What a step in the barrier leaves alone                                 *)
LEMMA MovesFrame ==
  ASSUME PlaceInv, NEW t \in Thread, Moves(t)
  PROVE  /\ Out' = Out /\ UNCHANGED <<threadCount, size, launch, then, control>>
         /\ \A u \in Thread : u # t => pc'[u] = pc[u] /\ child'[u] = child[u]
         /\ pc'[t] \in BarrierLabel /\ pc[t] \in BarrierLabel
<1>1. Typed /\ 0 \in Thread
  BY Numbers DEF PlaceInv
<1>2. PICK new \in BarrierLabel \ {"enter"} :
        /\ pc[t] \in BarrierLabel /\ pc' = [pc EXCEPT ![t] = new]
        /\ UNCHANGED <<Same, control, ending>>
        /\ child' = [child EXCEPT ![t] = child'[t]]
  BY DEF Moves
<1>3. /\ UNCHANGED <<threadCount, size, launch, then, control>>
      /\ \A u \in Thread : u # t => pc'[u] = pc[u] /\ child'[u] = child[u]
      /\ pc'[t] \in BarrierLabel
  BY <1>1, <1>2 DEF Same, Typed
<1>4. \/ pc'[0] = pc[0] /\ child'[0] = child[0]
      \/ pc'[0] \in BarrierLabel /\ pc[0] \in BarrierLabel
  BY <1>1, <1>2, <1>3
<1>5. Out' = Out
  BY <1>3, <1>4 DEF Out, Unmakes, Ready, BarrierLabel, launch
<1>. QED
  BY <1>2, <1>3, <1>5

(* A step that makes no call, and starts and ends no launch                *)
LEMMA RanksStay ==
  ASSUME PlaceInv, RanksOK, ClaimOK,
         UNCHANGED <<ran, rank, claim, threadCount, routine, workCount, workThreads>>,
         \A t \in Thread : Calling(t)' => Calling(t),
         Launched /\ threadCount > 1 =>
           \A t \in Thread : IF ByRank THEN Begun(t)' <=> Begun(t) ELSE Through(t)' <=> Through(t),
         Launched /\ threadCount <= 1 =>
           /\ pc'[0] = "join" => pc[0] = "join"
           /\ pc'[0] \in {"idle", "enter"} => pc[0] \in {"idle", "enter"}
  PROVE  RanksOK' /\ ClaimOK'
<1>1. Typed /\ MasterOK /\ 0 \in Thread /\ threadCount \in Nat /\ threadCount <= MaxThreads
  BY Numbers DEF PlaceInv
<1>2. (Launched' <=> Launched) /\ (ByRank' <=> ByRank) /\ (Claiming' <=> Claiming)
  BY DEF Launched, ByRank, Claiming
<1>3. Launched /\ threadCount <= 1 => InOrder'
  BY DEF RanksOK, InOrder
<1>4. ASSUME Launched, threadCount > 1, ByRank PROVE OneEach'
  <2>1. OneEach
    BY <1>4 DEF RanksOK
  <2>. SUFFICES ASSUME NEW r \in Rank
                PROVE  ran'[r] = IF r < workCount /\ Begun(threadCount - 1 - r)'
                                 THEN {threadCount - 1 - r} ELSE {}
    BY DEF OneEach
  <2>2. workCount <= threadCount /\ r \in Nat /\ workCount \in Nat
    BY <1>1, <1>4 DEF MasterOK, Launched, ByRank, Typed, Rank
  <2>3. r < workCount => threadCount - 1 - r \in Thread
    BY <1>1, <2>2 DEF Thread
  <2>4. ASSUME r < workCount, NEW t, t = threadCount - 1 - r PROVE Begun(t)' <=> Begun(t)
    BY <1>4, <2>3, <2>4
  <2>5. r < workCount => (Begun(threadCount - 1 - r)' <=> Begun(threadCount - 1 - r))
    BY <1>4, <2>3
  <2>. QED
    BY <2>1, <2>5 DEF OneEach
<1>5. ASSUME Claiming PROVE AsClaimed' /\ Throughs' = Throughs
  <2>1. AsClaimed /\ Launched /\ threadCount > 1 /\ ~ByRank
    BY <1>5 DEF RanksOK, Claiming
  <2>2. \A t \in Thread : Through(t)' <=> Through(t)
    BY <2>1
  <2>3. Throughs' = Throughs
    BY <2>2 DEF Throughs
  <2>. QED
    BY <2>1, <2>2, <2>3 DEF AsClaimed
<1>6. RanksOK'
  BY <1>2, <1>3, <1>4, <1>5 DEF RanksOK
<1>7. ClaimOK'
  BY <1>2, <1>5 DEF ClaimOK
<1>. QED
  BY <1>6, <1>7

(* Between launches nothing is called.                                     *)
LEMMA NoneCalls == PlaceInv => (~Launched => \A t \in Thread : ~Calling(t))
BY CallingIsLaunched

(* Between launches nothing is called.                                     *)
LEMMA RanksAtRest ==
  ASSUME PlaceInv', ~Launched', ran' = NotRun, rank' = NoRank, claim' \in 0..MaxWork
  PROVE  RanksOK' /\ ClaimOK'
<1>1. PlaceInv' => (~Launched => \A t \in Thread : ~Calling(t))'
  BY NoneCalls, PTL
<1>2. \A t \in Thread : ~Calling(t)'
  BY <1>1
<1>3. \A r \in Rank : ran'[r] = {}
  BY DEF NotRun
<1>. QED
  BY <1>2, <1>3 DEF RanksOK, ClaimOK, Claiming

BarrierRest(t) ==
  Enter(t) \/ LockWork(t) \/ UnlockWork(t) \/ Work(t) \/ BlockWork(t) \/ JoinChild(t)

(* The steps in the barrier that make no call leave the calls.             *)
LEMMA RestKeepsRanks ==
  ASSUME PlaceInv, RanksOK, ClaimOK, NEW t \in Thread, BarrierRest(t)
  PROVE  RanksOK' /\ ClaimOK'
<1>1. Typed /\ MasterOK /\ 0 \in Thread
  BY Numbers DEF PlaceInv
<1>2. Moves(t)
  BY BarrierMoves DEF BarrierStep, Barrier, BarrierRest
<1>3. /\ Out' = Out /\ UNCHANGED <<threadCount, size, launch, then, control>>
      /\ \A u \in Thread : u # t => pc'[u] = pc[u] /\ child'[u] = child[u]
      /\ pc'[t] \in BarrierLabel /\ pc[t] \in BarrierLabel
  BY <1>2, MovesFrame
<1>4. UNCHANGED <<ran, rank, claim>>
  BY DEF BarrierRest, Enter, LockWork, UnlockWork, Work, BlockWork, JoinChild, Returned
<1>5. /\ pc[t] = "enter" => pc'[t] = IF Launched THEN "work" ELSE "join"
      /\ pc[t] = "call" => pc'[t] \in {"locked", Again(t)}
      /\ pc[t] = "locked" => pc'[t] = Again(t)
      /\ pc[t] = "join" => pc'[t] = "join"
      /\ pc[t] # "work"
      /\ Again(t) = IF threadCount > 1 /\ ByRank THEN "join" ELSE "work"
  BY <1>1 DEF BarrierRest, Enter, LockWork, UnlockWork, Work, BlockWork, JoinChild, Go, Typed, Launched, Again
<1>6. \A u \in Thread : u # t => (Calling(u)' <=> Calling(u)) /\ (Through(u)' <=> Through(u))
  BY <1>3 DEF Calling, Through
<1>7. Calling(t)' => Calling(t)
  BY <1>3, <1>5 DEF Calling, BarrierLabel
<1>8. Launched => (t # 0 => control[t] = 1) /\ (t = 0 => t \notin Out)
  <2>1. 0 \notin Out
    BY <1>1, Numbers DEF Out, MasterOK
  <2>. QED
    BY <1>3, <2>1, InLaunch
<1>9. ASSUME Launched
      PROVE  /\ Through(t) <=> pc[t] = "join"
             /\ Through(t)' <=> pc'[t] = "join"
  BY <1>3, <1>8, <1>9 DEF Through
<1>10. ASSUME Launched, threadCount > 1
       PROVE  IF ByRank THEN Begun(t)' <=> Begun(t) ELSE Through(t)' <=> Through(t)
  BY <1>3, <1>5, <1>9, <1>10 DEF Begun, Calling, BarrierLabel
<1>11. ASSUME Launched, threadCount <= 1
       PROVE  /\ pc'[0] = "join" => pc[0] = "join"
              /\ pc'[0] \in {"idle", "enter"} => pc[0] \in {"idle", "enter"}
  <2>1. ~(threadCount > 1)
    BY <1>1, <1>11, Numbers
  <2>2. CASE t = 0
    BY <1>3, <1>5, <1>11, <2>1, <2>2 DEF BarrierLabel
  <2>3. CASE t # 0
    BY <1>1, <1>3, <2>3
  <2>. QED
    BY <2>2, <2>3
<1>12. \A u \in Thread : Calling(u)' => Calling(u)
  BY <1>6, <1>7
<1>13. ASSUME Launched, threadCount > 1, NEW u \in Thread
       PROVE  IF ByRank THEN Begun(u)' <=> Begun(u) ELSE Through(u)' <=> Through(u)
  BY <1>6, <1>10, <1>13 DEF Begun
<1>. QED
  BY <1>3, <1>4, <1>11, <1>12, <1>13, RanksStay DEF launch

(* A worker that leaves or enters the barrier leaves the calls.            *)
LEMMA DriverKeepsRanks ==
  ASSUME PlaceInv, RanksOK, ClaimOK, NEW t \in Worker, Lower(t) \/ Wake(t)
  PROVE  RanksOK' /\ ClaimOK'
<1>1. Typed /\ MasterOK /\ 0 \in Thread /\ t \in Thread /\ t # 0
  BY Numbers DEF PlaceInv, Worker
<1>2. UNCHANGED <<threadCount, size, launch, then, claim, rank, child, ran>>
  BY DEF Lower, Wake, Idle, Same
<1>3. \A u \in Thread : u # t => pc'[u] = pc[u] /\ control'[u] = control[u]
  BY <1>1 DEF Lower, Wake, Typed, Put, Go, Idle
<1>4. Out' = Out /\ pc'[0] = pc[0]
  <2>1. pc'[0] = pc[0]
    BY <1>1, <1>3
  <2>. QED
    BY <1>2, <2>1 DEF Out, Unmakes, Ready, launch
<1>5. \A u \in Thread : u # t => (Calling(u)' <=> Calling(u)) /\ (Through(u)' <=> Through(u))
  BY <1>3, <1>4 DEF Calling, Through
<1>6. ~Calling(t)' /\ ~Calling(t)
  BY <1>1 DEF Lower, Wake, Typed, Put, Go, Calling, Joined
<1>7. Launched => (Through(t)' <=> Through(t))
  <2>1. ASSUME Lower(t), Launched PROVE Through(t)' /\ Through(t)
    <3>1. pc[t] = "join" /\ control'[t] = 0
      BY <1>1, <2>1 DEF Lower, Joined, Put, Typed
    <3>2. t \in Out
      BY <1>1, <2>1, <3>1, InLaunch DEF BarrierLabel
    <3>. QED
      BY <1>4, <3>1, <3>2 DEF Through
  <2>2. ASSUME Wake(t) PROVE ~Through(t)' /\ ~Through(t)
    <3>1. pc[t] = "spin" /\ control[t] = 1 /\ pc'[t] = "enter" /\ control' = control
      BY <1>1, <2>2 DEF Wake, Go, Typed, Idle
    <3>. QED
      BY <3>1 DEF Through
  <2>. QED
    BY <2>1, <2>2
<1>8. \A u \in Thread : Calling(u)' => Calling(u)
  BY <1>5, <1>6
<1>9. ASSUME Launched, threadCount > 1, NEW u \in Thread
      PROVE  IF ByRank THEN Begun(u)' <=> Begun(u) ELSE Through(u)' <=> Through(u)
  BY <1>5, <1>6, <1>7, <1>9 DEF Begun
<1>. QED
  BY <1>2, <1>4, <1>8, <1>9, RanksStay DEF launch

(* The master that activates a worker leaves the calls.                    *)
LEMMA ActivateKeepsRanks ==
  ASSUME PlaceInv, RanksOK, ClaimOK, Activate
  PROVE  RanksOK' /\ ClaimOK'
<1>1. Typed /\ MasterOK /\ WorkersOK /\ 0 \in Thread /\ threadCount \in Nat
  BY Numbers DEF PlaceInv
<1>. DEFINE a == child[0]
<1>2. /\ pc[0] = "start" /\ control' = [control EXCEPT ![a] = 1]
      /\ child' = [child EXCEPT ![0] = a - 1]
      /\ pc' = [pc EXCEPT ![0] = IF a = 1 THEN then ELSE "start"]
      /\ UNCHANGED <<threadCount, size, launch, then, claim, rank, ran>>
  BY <1>1 DEF Activate, Activated, Go, Put, Typed, Same
<1>3. /\ threadCount > 1 /\ a \in 1..(threadCount - 1) /\ ~Unmakes /\ ~Ready
      /\ then \in {"enter", "idle"} /\ (then = "idle" => routine # "none")
      /\ threadCount <= MaxThreads
  BY <1>1, <1>2, Numbers DEF MasterOK, Unmakes, Ready
<1>4. /\ pc'[0] \in {"start", "enter", "idle"} /\ (pc'[0] = IF a = 1 THEN then ELSE "start")
      /\ \A t \in Worker : pc'[t] = pc[t]
      /\ child'[0] = a - 1
      /\ \A t \in Thread : t # a => control'[t] = control[t]
      /\ a \in Thread => control'[a] = 1
  <2>1. pc \in [Thread -> MasterLabel \cup WorkerLabel] /\ child \in [Thread -> 0..MaxThreads]
        /\ control \in [Thread -> 0..1]
    BY <1>1 DEF Typed
  <2>. HIDE DEF a
  <2>. QED
    BY <1>1, <1>2, <1>3, <2>1 DEF Worker
<1>5. a \in Thread /\ a # 0 /\ a < threadCount
  <2>. HIDE DEF a
  <2>1. a \in Int /\ 0 <= a /\ a <= MaxThreads - 1
    BY <1>1, <1>3
  <2>. QED
    BY <1>1, <1>3, <2>1 DEF Thread
<1>6. /\ Out = (a + 1)..(threadCount - 1) /\ Out' = a..(threadCount - 1)
  <2>1. ~Ready' /\ ~Unmakes'
    BY <1>2, <1>3, <1>4 DEF Ready, Unmakes, launch
  <2>. HIDE DEF a
  <2>2. a = 1 => pc'[0] \notin {"create", "start"}
    BY <1>3, <1>4
  <2>. QED
    BY <1>2, <1>3, <1>4, <2>1, <2>2 DEF Out, a
<1>. HIDE DEF a
<1>7. \A t \in Thread : Calling(t)' <=> Calling(t)
  BY <1>2, <1>4 DEF Calling, Worker
<1>8. \A t \in Thread : t # a => (Through(t)' <=> Through(t))
  <2>1. \A t \in Thread : t # a => (t \in Out' <=> t \in Out)
    BY <1>3, <1>6 DEF Thread
  <2>2. pc[0] # "join" /\ pc'[0] # "join"
    BY <1>2, <1>4
  <2>. QED
    BY <1>4, <2>1, <2>2 DEF Through, Worker
<1>9. \A t : t = a => (Through(t)' <=> Through(t))
  <2>. SUFFICES ASSUME NEW t, t = a PROVE Through(t)' <=> Through(t)
    OBVIOUS
  <2>1. Resting(t)
    <3>1. t \in Worker /\ t \notin Out /\ t < threadCount
      BY <1>1, <1>3, <1>5, <1>6, t = a DEF Worker
    <3>. QED
      BY <1>1, <1>2, <1>3, <3>1 DEF WorkersOK
  <2>2. t \notin Out /\ control'[t] = 1 /\ pc[t] = "spin" /\ pc'[t] = "spin"
    BY <1>3, <1>4, <1>5, <1>6, <2>1 DEF Resting, Worker
  <2>. QED
    BY <2>2 DEF Through
<1>10. \A t \in Thread : IF ByRank THEN Begun(t)' <=> Begun(t) ELSE Through(t)' <=> Through(t)
  BY <1>7, <1>8, <1>9 DEF Begun
<1>11. \A t \in Thread : Calling(t)' => Calling(t)
  BY <1>7
<1>12. UNCHANGED <<ran, rank, claim, threadCount, routine, workCount, workThreads>>
  BY <1>2 DEF launch
<1>13. ~(threadCount <= 1)
  BY <1>1, <1>3
<1>. QED
  BY <1>10, <1>11, <1>12, <1>13, RanksStay

CallStep(t) == CallByRank(t) \/ CallByClaim(t) \/ (t = 0 /\ CallSerial)

(* The next call of a thread has not been made.                            *)
LEMMA NextIsNew ==
  ASSUME PlaceInv, RanksOK, NEW t \in Thread, CallStep(t)
  PROVE  /\ Launched /\ t \in Members /\ pc[t] = "work" /\ ~Begun(t)
         /\ UNCHANGED <<threadCount, size, launch, then, control, child, Out, value>>
         /\ Claiming => CallByClaim(t)
         /\ ~Claiming => claim' = claim
         /\ pc' = [pc EXCEPT ![t] = pc'[t]] /\ pc'[t] \in {"call", "join"}
         /\ pc'[t] = "call" => /\ rank'[t] \in 0..(workCount - 1) /\ rank'[t] \in Rank
                               /\ rank' = [rank EXCEPT ![t] = rank'[t]]
                               /\ ran[rank'[t]] = {}
                               /\ ran' = [ran EXCEPT ![rank'[t]] = {t}]
                               /\ Claiming => claim > 0 /\ rank'[t] = workCount - claim
                               /\ threadCount > 1 /\ ByRank => rank'[t] = threadCount - 1 - t
                               /\ threadCount <= 1 => t = 0 /\ rank'[t] = rank[0] + 1
         /\ pc'[t] = "join" => /\ rank' = rank /\ ran' = ran
                               /\ Claiming => ~(claim > 0)
                               /\ threadCount > 1 /\ ByRank => threadCount - 1 - t >= workCount
                               /\ threadCount <= 1 => t = 0 /\ rank[0] + 1 >= workCount
<1>1. Typed /\ MasterOK /\ 0 \in Thread /\ threadCount \in Nat /\ workCount \in Nat /\ claim \in Int
  BY Numbers DEF PlaceInv, Typed
<1>2. /\ pc[t] = "work" /\ Launched
      /\ \/ \E r \in 0..(workCount - 1) : r \in Rank /\ Call(t, r)
         \/ NoCall(t)
  BY CallsAreRanks DEF CallStep, Launched
<1>3. Moves(t)
  BY BarrierMoves DEF BarrierStep, Barrier, CallStep
<1>4. Out' = Out /\ UNCHANGED <<threadCount, size, launch, then, control>>
  BY <1>3, MovesFrame
<1>5. UNCHANGED <<child, value>>
  BY DEF CallStep, CallByRank, CallByClaim, CallSerial, Working
<1>6. t \in Members /\ (t # 0 => control[t] = 1) /\ 0 \notin Out
  <2>1. 0 \notin Out
    BY <1>1 DEF Out, MasterOK
  <2>. QED
    BY <1>2, <2>1, InLaunch DEF BarrierLabel
<1>7. ~Begun(t)
  BY <1>2, <1>6 DEF Begun, Calling, Through
<1>8. /\ Claiming => CallByClaim(t)
      /\ threadCount > 1 /\ ByRank => CallByRank(t)
      /\ threadCount <= 1 => t = 0 /\ CallSerial
  BY <1>1 DEF CallStep, CallByRank, CallByClaim, CallSerial, Claiming
<1>9. ~Claiming => claim' = claim
  <2>1. ~Claiming => ~CallByClaim(t)
    BY <1>2 DEF CallByClaim, Claiming
  <2>. QED
    BY <2>1 DEF CallStep, CallByRank, CallSerial
<1>10. pc' = [pc EXCEPT ![t] = pc'[t]] /\ pc'[t] \in {"call", "join"}
  BY <1>1, <1>2 DEF Call, NoCall, Go, Typed
<1>11. ASSUME pc'[t] = "join"
       PROVE  /\ rank' = rank /\ ran' = ran
              /\ Claiming => ~(claim > 0)
              /\ threadCount > 1 /\ ByRank => threadCount - 1 - t >= workCount
              /\ threadCount <= 1 => t = 0 /\ rank[0] + 1 >= workCount
  <2>1. \A r : ~Call(t, r)
    BY <1>1, <1>11 DEF Call, Go, Typed
  <2>2. rank' = rank /\ ran' = ran
    BY <1>2, <2>1 DEF NoCall
  <2>3. Claiming => ~(claim > 0)
    BY <1>8, <2>1 DEF CallByClaim, Claims
  <2>4. threadCount > 1 /\ ByRank => threadCount - 1 - t >= workCount
    <3>1. t \in Int
      BY DEF Thread
    <3>. QED
      BY <1>1, <1>8, <2>1, <3>1 DEF CallByRank, RankOf
  <2>5. threadCount <= 1 => t = 0 /\ rank[0] + 1 >= workCount
    <3>1. rank[0] \in Int
      BY <1>1 DEF Typed, Rank
    <3>. QED
      BY <1>1, <1>8, <2>1, <3>1 DEF CallSerial
  <2>. QED
    BY <2>2, <2>3, <2>4, <2>5
<1>12. ASSUME pc'[t] = "call"
       PROVE  /\ rank'[t] \in 0..(workCount - 1) /\ rank'[t] \in Rank
              /\ rank' = [rank EXCEPT ![t] = rank'[t]]
              /\ ran[rank'[t]] = {}
              /\ ran' = [ran EXCEPT ![rank'[t]] = {t}]
              /\ Claiming => claim > 0 /\ rank'[t] = workCount - claim
              /\ threadCount > 1 /\ ByRank => rank'[t] = threadCount - 1 - t
              /\ threadCount <= 1 => t = 0 /\ rank'[t] = rank[0] + 1
  <2>1. ~NoCall(t)
    BY <1>1, <1>12 DEF NoCall, Go, Typed
  <2>2. PICK r \in 0..(workCount - 1) : r \in Rank /\ Call(t, r)
    BY <1>2, <2>1
  <2>3. rank' = [rank EXCEPT ![t] = r] /\ ran' = [ran EXCEPT ![r] = ran[r] \cup {t}] /\ rank'[t] = r
    BY <1>1, <2>2 DEF Call, Put, Typed
  <2>4. \A q : Call(t, q) => q = r
    BY <1>1, <2>3 DEF Call, Put, Typed
  <2>5. Claiming => claim > 0 /\ r = workCount - claim
    BY <1>8, <2>1, <2>4 DEF CallByClaim, Claims
  <2>6. threadCount > 1 /\ ByRank => r = threadCount - 1 - t
    BY <1>8, <2>1, <2>4 DEF CallByRank, RankOf
  <2>7. threadCount <= 1 => t = 0 /\ r = rank[0] + 1
    BY <1>8, <2>1, <2>4 DEF CallSerial
  <2>8. ran[r] = {}
    <3>0. r \in Int /\ t \in Int /\ rank[0] \in Int
      BY <1>1 DEF Typed, Rank, Thread
    <3>1. CASE threadCount <= 1
      BY <1>2, <2>2, <2>7, <3>0, <3>1 DEF RanksOK, InOrder
    <3>2. CASE threadCount > 1 /\ ByRank
      <4>1. OneEach /\ r = threadCount - 1 - t
        BY <1>2, <2>6, <3>2 DEF RanksOK
      <4>2. threadCount - 1 - r = t
        BY <1>1, <3>0, <4>1
      <4>. QED
        BY <1>7, <2>2, <4>1, <4>2 DEF OneEach
    <3>3. CASE threadCount > 1 /\ ~ByRank
      BY <1>1, <1>2, <2>2, <2>5, <3>0, <3>3 DEF RanksOK, AsClaimed, Claiming
    <3>. QED
      BY <1>1, <3>1, <3>2, <3>3
  <2>. QED
    BY <2>2, <2>3, <2>5, <2>6, <2>7, <2>8
<1>. QED
  BY <1>2, <1>4, <1>5, <1>6, <1>7, <1>8, <1>9, <1>10, <1>11, <1>12

(* No more threads than there are can be through.                          *)
LEMMA ThroughsFinite ==
  IsFiniteSet(Throughs) /\ Cardinality(Throughs) \in Nat /\ Cardinality(Throughs) <= MaxThreads
<1>1. IsFiniteSet(Thread) /\ Cardinality(Thread) = MaxThreads
  <2>1. MaxThreads - 1 \in Int /\ 0 \in Int
    OBVIOUS
  <2>2. IsFiniteSet(0..(MaxThreads - 1))
        /\ Cardinality(0..(MaxThreads - 1)) = IF 0 > MaxThreads - 1 THEN 0 ELSE (MaxThreads - 1) - 0 + 1
    BY <2>1, FS_Interval
  <2>. QED
    BY <2>2 DEF Thread
<1>2. Throughs \subseteq Thread
  BY DEF Throughs
<1>3. IsFiniteSet(Throughs) /\ Cardinality(Throughs) <= MaxThreads
  BY <1>1, <1>2, FS_Subset
<1>. QED
  BY <1>3, FS_CardinalityType

(* A thread that calls, or finds no call, keeps them apart.                *)
LEMMA CallKeepsRanks ==
  ASSUME PlaceInv, RanksOK, ClaimOK, NEW t \in Thread, CallStep(t)
  PROVE  RanksOK' /\ ClaimOK'
<1>1. /\ Typed /\ MasterOK /\ 0 \in Thread /\ threadCount \in Nat /\ workCount \in Nat /\ claim \in Int
      /\ t \in Nat /\ threadCount <= MaxThreads /\ rank[0] \in Int
  <2>1. Typed /\ MasterOK
    BY DEF PlaceInv
  <2>2. rank[0] \in Rank \cup {-1} /\ t \in Nat
    BY <2>1, Numbers DEF Typed, Thread
  <2>. QED
    BY <2>1, <2>2, Numbers DEF Typed, Rank
<1>2. /\ Launched /\ t \in Members /\ pc[t] = "work" /\ ~Begun(t)
      /\ UNCHANGED <<threadCount, size, launch, then, control, child, Out, value>>
      /\ Claiming => CallByClaim(t)
      /\ ~Claiming => claim' = claim
      /\ pc' = [pc EXCEPT ![t] = pc'[t]] /\ pc'[t] \in {"call", "join"}
      /\ pc'[t] = "call" => /\ rank'[t] \in 0..(workCount - 1) /\ rank'[t] \in Rank
                            /\ rank' = [rank EXCEPT ![t] = rank'[t]]
                            /\ ran[rank'[t]] = {}
                            /\ ran' = [ran EXCEPT ![rank'[t]] = {t}]
                            /\ Claiming => claim > 0 /\ rank'[t] = workCount - claim
                            /\ threadCount > 1 /\ ByRank => rank'[t] = threadCount - 1 - t
                            /\ threadCount <= 1 => t = 0 /\ rank'[t] = rank[0] + 1
      /\ pc'[t] = "join" => /\ rank' = rank /\ ran' = ran
                            /\ Claiming => ~(claim > 0)
                            /\ threadCount > 1 /\ ByRank => threadCount - 1 - t >= workCount
                            /\ threadCount <= 1 => t = 0 /\ rank[0] + 1 >= workCount
  BY NextIsNew
<1>3. Launched' /\ (ByRank' <=> ByRank) /\ (Claiming' <=> Claiming) /\ Launched
  BY <1>2 DEF Launched, ByRank, Claiming, launch
<1>4. \A u \in Thread : u # t => /\ pc'[u] = pc[u]
                                 /\ (Calling(u)' <=> Calling(u)) /\ (Through(u)' <=> Through(u))
                                 /\ (Begun(u)' <=> Begun(u))
  BY <1>1, <1>2 DEF Typed, Calling, Through, Begun
<1>5. Begun(t)' /\ ~Calling(t) /\ ~Through(t)
  BY <1>2 DEF Begun, Calling, Through
<1>6. Claiming => claim' = claim - 1
  BY <1>2 DEF CallByClaim
<1>7. rank \in [Thread -> Rank \cup {-1}] /\ ran \in [Rank -> SUBSET Thread]
  BY <1>1 DEF Typed
<1>8. CASE pc'[t] = "call"
  <2>. DEFINE r == rank'[t]
  <2>1. /\ r \in 0..(workCount - 1) /\ r \in Rank /\ ran[r] = {} /\ r \in Int
        /\ \A u \in Thread : rank'[u] = IF u = t THEN r ELSE rank[u]
        /\ \A q \in Rank : ran'[q] = IF q = r THEN {t} ELSE ran[q]
    BY <1>1, <1>2, <1>7, <1>8
  <2>. HIDE DEF r
  <2>2. ~Through(t)' /\ Throughs' = Throughs
    <3>1. ~Through(t)'
      BY <1>2, <1>5, <1>8 DEF Through
    <3>. QED
      BY <1>4, <1>5, <3>1 DEF Throughs
  <2>3. \A u \in Thread : Calling(u)' => rank'[u] \in 0..(workCount - 1) /\ ran'[rank'[u]] = {u}
    <3>. SUFFICES ASSUME NEW u \in Thread, Calling(u)'
                  PROVE  rank'[u] \in 0..(workCount - 1) /\ ran'[rank'[u]] = {u}
      OBVIOUS
    <3>1. CASE u = t
      BY <2>1, <3>1
    <3>2. CASE u # t
      <4>1. rank[u] \in 0..(workCount - 1) /\ ran[rank[u]] = {u}
        BY <1>4, <3>2 DEF RanksOK
      <4>2. rank[u] \in Rank
        BY <1>1, <1>7, <4>1
      <4>. QED
        BY <2>1, <3>2, <4>1, <4>2
    <3>. QED
      BY <3>1, <3>2
  <2>4. \A q \in Rank : ran'[q] = {} \/ \E u \in Thread : ran'[q] = {u}
    BY <2>1 DEF RanksOK
  <2>5. ASSUME threadCount <= 1 PROVE InOrder'
    <3>1. InOrder /\ t = 0 /\ r = rank[0] + 1 /\ rank'[0] = r
      BY <1>1, <1>2, <1>8, <2>1, <2>5 DEF RanksOK, r
    <3>2. \A q \in Rank : ran'[q] = IF q <= rank'[0] THEN {0} ELSE {}
      BY <1>1, <2>1, <3>1 DEF InOrder, Rank
    <3>3. rank'[0] < workCount
      BY <1>1, <2>1, <3>1
    <3>. QED
      BY <1>2, <1>8, <3>1, <3>2, <3>3 DEF InOrder, launch
  <2>6. ASSUME threadCount > 1, ByRank PROVE OneEach'
    <3>1. OneEach /\ r = threadCount - 1 - t
      BY <1>2, <1>8, <2>6 DEF RanksOK, r
    <3>. SUFFICES ASSUME NEW q \in Rank
                  PROVE  ran'[q] = IF q < workCount /\ Begun(threadCount - 1 - q)'
                                   THEN {threadCount - 1 - q} ELSE {}
      BY <1>2 DEF OneEach, launch
    <3>2. q \in Nat /\ workCount <= threadCount
      BY <1>1, <1>2, <2>6 DEF Rank, MasterOK, Launched, ByRank
    <3>3. CASE q = r
      <4>1. threadCount - 1 - q = t
        BY <1>1, <3>1, <3>3
      <4>2. ASSUME NEW u, u = t PROVE Begun(u)'
        BY <1>5, <4>2 DEF Begun, Calling, Through
      <4>3. Begun(threadCount - 1 - q)'
        BY <1>2, <4>1, <4>2
      <4>4. q < workCount /\ ran'[q] = {threadCount - 1 - q}
        BY <1>1, <2>1, <3>3, <4>1
      <4>. QED
        BY <4>3, <4>4
    <3>4. CASE q # r
      <4>1. threadCount - 1 - q # t
        BY <1>1, <3>1, <3>2, <3>4
      <4>2. q < workCount => threadCount - 1 - q \in Thread
        BY <1>1, <3>2 DEF Thread
      <4>3. q < workCount => (Begun(threadCount - 1 - q)' <=> Begun(threadCount - 1 - q))
        BY <1>2, <1>4, <4>1, <4>2
      <4>. QED
        BY <2>1, <3>1, <3>4, <4>3 DEF OneEach
    <3>. QED
      BY <3>3, <3>4
  <2>7. ASSUME Claiming PROVE AsClaimed'
    <3>1. AsClaimed /\ claim > 0 /\ r = workCount - claim /\ claim' = claim - 1
      BY <1>2, <1>6, <1>8, <2>7 DEF RanksOK, r
    <3>2. \A q \in Rank : ran'[q] # {} <=> q < workCount /\ q < workCount - claim'
      BY <1>1, <2>1, <3>1 DEF AsClaimed, Rank
    <3>3. \A u \in Thread : ~Through(u)'
      <4>1. \A u \in Thread : ~Through(u)
        BY <1>1, <3>1 DEF AsClaimed
      <4>. QED
        BY <1>4, <2>2, <4>1
    <3>. QED
      BY <1>2, <3>2, <3>3 DEF AsClaimed, launch
  <2>8. RanksOK'
    BY <1>2, <1>3, <2>3, <2>4, <2>5, <2>6, <2>7 DEF RanksOK, launch, Claiming
  <2>9. ClaimOK'
    <3>1. Claiming => -claim' <= Cardinality(Throughs)
      BY <1>1, <1>2, <1>6, <1>8, ThroughsFinite
    <3>. QED
      BY <1>2, <1>3, <2>2, <3>1 DEF ClaimOK
  <2>. QED
    BY <2>8, <2>9
<1>9. CASE pc'[t] = "join"
  <2>1. rank' = rank /\ ran' = ran /\ Through(t)' /\ ~Calling(t)'
    BY <1>2, <1>9 DEF Through, Calling
  <2>2. Throughs' = Throughs \cup {t} /\ t \notin Throughs
    BY <1>4, <1>5, <2>1 DEF Throughs
  <2>3. ASSUME threadCount <= 1 PROVE InOrder'
    <3>1. InOrder /\ t = 0 /\ rank[0] + 1 >= workCount
      BY <1>1, <1>2, <1>9, <2>3 DEF RanksOK
    <3>. QED
      BY <1>2, <1>9, <2>1, <3>1 DEF InOrder, launch
  <2>4. ASSUME threadCount > 1, ByRank PROVE OneEach'
    <3>1. OneEach /\ threadCount - 1 - t >= workCount
      BY <1>2, <1>9, <2>4 DEF RanksOK
    <3>. SUFFICES ASSUME NEW q \in Rank, q < workCount
                  PROVE  Begun(threadCount - 1 - q)' <=> Begun(threadCount - 1 - q)
      BY <1>2, <2>1, <3>1 DEF OneEach, launch
    <3>2. q \in Nat /\ workCount <= threadCount
      BY <1>1, <1>2, <2>4 DEF Rank, MasterOK, Launched, ByRank
    <3>3. threadCount - 1 - q # t /\ threadCount - 1 - q \in Thread
      BY <1>1, <3>1, <3>2 DEF Thread
    <3>. QED
      BY <1>2, <1>4, <3>3
  <2>5. ASSUME Claiming PROVE AsClaimed'
    <3>1. AsClaimed /\ ~(claim > 0) /\ claim' = claim - 1
      BY <1>2, <1>6, <1>9, <2>5 DEF RanksOK
    <3>2. \A q \in Rank : ran'[q] # {} <=> q < workCount /\ q < workCount - claim'
      BY <1>1, <2>1, <3>1 DEF AsClaimed, Rank
    <3>3. claim' <= 0
      BY <1>1, <3>1
    <3>. QED
      BY <1>2, <3>2, <3>3 DEF AsClaimed, launch
  <2>6. RanksOK'
    <3>1. \A u \in Thread : Calling(u)' => Calling(u)
      BY <1>4, <2>1
    <3>. QED
      BY <1>2, <1>3, <2>1, <2>3, <2>4, <2>5, <3>1 DEF RanksOK, launch, Claiming
  <2>7. ClaimOK'
    <3>1. Cardinality(Throughs \cup {t}) = Cardinality(Throughs) + 1
      BY <2>2, ThroughsFinite, FS_AddElement
    <3>2. Claiming => -claim' <= Cardinality(Throughs')
      BY <1>1, <1>6, <2>2, <3>1, ThroughsFinite DEF ClaimOK
    <3>. QED
      BY <1>2, <1>3, <3>2 DEF ClaimOK
  <2>. QED
    BY <2>6, <2>7
<1>. QED
  BY <1>2, <1>8, <1>9

(* A launch begins with no call made.                                      *)
LEMMA StartKeepsRanks ==
  ASSUME PlaceInv, RanksOK, ClaimOK, Starts
  PROVE  RanksOK' /\ ClaimOK'
<1>1. Typed /\ MasterOK /\ 0 \in Thread /\ threadCount \in Nat
  BY Numbers DEF PlaceInv
<1>2. PICK work \in {"none", "work", "block"}, count \in 0..MaxWork, threads \in Int, locks \in 0..1,
           reduced \in BOOLEAN, next \in {"enter", "idle"} :
        Begins(work, count, threads, locks, reduced, next)
  BY DEF Starts
<1>3. /\ pc[0] = "idle" /\ pc' = [pc EXCEPT ![0] = IF threadCount > 1 THEN "start" ELSE next]
      /\ routine = "none" /\ routine' = work /\ workCount' = count
      /\ IF threadCount > 1 THEN claim' = count ELSE claim' = claim
      /\ UNCHANGED <<threadCount, size, control, ending, value, ran, rank>>
      /\ work = "none" => count = 0
  BY <1>2 DEF Begins, Begin, Go, Put
<1>4. Ready /\ ~Launched /\ ~Claiming
  BY <1>3 DEF Ready, Launched, Claiming
<1>5. ran = NotRun /\ rank = NoRank /\ claim \in 0..MaxWork
  BY <1>4 DEF RanksOK, ClaimOK
<1>6. /\ pc'[0] = IF threadCount > 1 THEN "start" ELSE next
      /\ \A t \in Worker : pc'[t] \in {"spin", "off"}
  <2>1. \A t \in Worker : pc[t] \in {"spin", "off"}
    BY <1>4, AtRest DEF Resting
  <2>. QED
    BY <1>1, <1>3, <2>1 DEF Typed, Worker
<1>7. \A t \in Thread : pc'[t] \notin {"call", "locked", "join"}
  BY <1>1, <1>6 DEF Worker
<1>8. Out' = {}
  <2>1. threadCount > 1 => child'[0] = threadCount - 1
    BY <1>1, <1>2 DEF Begins, Begin, Put, Typed
  <2>2. threadCount' = threadCount
    BY <1>3
  <2>3. IF threadCount > 1 THEN pc'[0] = "start" ELSE pc'[0] \in {"enter", "idle"}
    BY <1>6
  <2>4. CASE threadCount > 1
    BY <1>1, <2>1, <2>2, <2>3, <2>4 DEF Out
  <2>5. CASE threadCount <= 1
    <3>1. pc'[0] \notin {"create", "start"} /\ 1..(threadCount - 1) = {}
      BY <1>1, <2>3, <2>5
    <3>. QED
      BY <2>2, <3>1 DEF Out
  <2>. QED
    BY <1>1, <2>4, <2>5
<1>9. \A t \in Thread : ~Calling(t)' /\ ~Through(t)' /\ ~Begun(t)'
  BY <1>7, <1>8 DEF Calling, Through, Begun
<1>10. \A r \in Rank : ran'[r] = {}
  BY <1>3, <1>5 DEF NotRun
<1>11. rank'[0] = -1
  BY <1>1, <1>3, <1>5 DEF NoRank
<1>12. ASSUME threadCount <= 1 PROVE InOrder'
  <2>1. \A r \in Rank : ~(r <= rank'[0])
    BY <1>11 DEF Rank
  <2>2. pc'[0] \in {"enter", "idle"}
    BY <1>1, <1>6, <1>12
  <2>3. workCount' \in Nat /\ rank'[0] < workCount'
    <3>1. workCount' \in Nat
      BY <1>3
    <3>. QED
      BY <1>11, <3>1
  <2>4. \A r \in Rank : ran'[r] = IF r <= rank'[0] THEN {0} ELSE {}
    BY <1>10, <2>1
  <2>. QED
    BY <1>11, <2>2, <2>3, <2>4 DEF InOrder
<1>13. ASSUME threadCount > 1, workCount' <= workThreads', Launched' PROVE OneEach'
  <2>. SUFFICES ASSUME NEW r \in Rank PROVE ~(r < workCount' /\ Begun(threadCount - 1 - r)')
    BY <1>3, <1>10 DEF OneEach
  <2>1. workThreads' \in {threadCount - 1, threadCount}
    BY <1>2, <1>13, <1>3 DEF Begins, Begin, Launched
  <2>2. r < workCount' => threadCount - 1 - r \in Thread
    BY <1>1, <1>3, <1>13, <2>1, Numbers DEF Rank, Thread
  <2>3. \A u \in Thread : u = threadCount - 1 - r => ~Begun(u)'
    BY <1>9
  <2>. QED
    BY <1>3, <2>2, <2>3
<1>14. ASSUME Claiming' PROVE AsClaimed'
  <2>1. claim' = workCount' /\ workCount' \in Int
    BY <1>3, <1>14 DEF Claiming
  <2>2. \A r \in Rank : ~(r < 0)
    BY DEF Rank
  <2>3. workCount' - claim' = 0
    <3>1. \A i \in Int : i - i = 0
      OBVIOUS
    <3>. QED
      BY <2>1, <3>1
  <2>. QED
    BY <1>9, <1>10, <2>1, <2>2, <2>3 DEF AsClaimed
<1>15. RanksOK'
  <2>1. \A r \in Rank : ran'[r] = {} \/ \E t \in Thread : ran'[r] = {t}
    BY <1>10
  <2>2. ran' = NotRun /\ rank' = NoRank
    BY <1>3, <1>5
  <2>3. threadCount' = threadCount
    BY <1>3
  <2>. QED
    BY <1>9, <1>12, <1>13, <1>14, <2>1, <2>2, <2>3 DEF RanksOK, ByRank
<1>16. ClaimOK'
  <2>1. Throughs' = {}
    BY <1>9 DEF Throughs
  <2>2. claim' \in 0..MaxWork
    BY <1>3, <1>5
  <2>3. -claim' <= Cardinality({})
    BY <2>2, FS_EmptySet
  <2>. QED
    BY <2>1, <2>2, <2>3 DEF ClaimOK
<1>. QED
  BY <1>15, <1>16

(* The other calls, and the steps of the master outside the barrier        *)
MasterRest ==
  \/ Create \/ InitReturns
  \/ CreateFails \/ UnmakeNext \/ UnmakeActivates \/ UnmakeReaps \/ InitFails

(* Making the pool is not a launch, and the pool is not made yet.          *)
LEMMA RestAreIdle ==
  ASSUME PlaceInv, MasterRest \/ \E n \in PoolSizes : Initialize(n)
  PROVE  /\ ~Launched /\ ~Launched' /\ UNCHANGED <<claim, rank, ran, value, launch>>
         /\ ~(threadCount > 0 /\ then # "made")
<1>1. MasterOK
  BY DEF PlaceInv
<1>2. CASE \E n \in PoolSizes : Initialize(n)
  BY <1>2 DEF Initialize, Launched, Made, launch
<1>3. CASE InitReturns
  BY <1>1, <1>3 DEF InitReturns, Launched, Made, launch, MasterOK
<1>4. CASE Create \/ CreateFails
  BY <1>1, <1>4 DEF Create, CreateFails, Go, Launched, Made, launch, MasterOK
<1>5. CASE UnmakeNext \/ UnmakeActivates \/ UnmakeReaps \/ InitFails
  <2>1. UNCHANGED Unmaking /\ Unmakes
    BY <1>5 DEF UnmakeNext, UnmakeActivates, UnmakeReaps, InitFails, Go, Unmakes
  <2>. QED
    BY <1>1, <2>1 DEF Unmaking, Launched, Made, launch, MasterOK
<1>. QED
  BY <1>2, <1>3, <1>4, <1>5 DEF MasterRest

(* The master that returns, or makes the pool, has no call made.           *)
LEMMA MasterKeepsRanks ==
  ASSUME PlaceInv, PlaceInv', RanksOK, ClaimOK,
         WaitReturns \/ MasterRest \/ \E n \in PoolSizes : Initialize(n)
  PROVE  RanksOK' /\ ClaimOK'
<1>1. CASE WaitReturns
  <2>1. ~Launched' /\ ran' = NotRun /\ rank' = NoRank
    BY <1>1 DEF WaitReturns, Launched
  <2>2. claim' \in 0..MaxWork
    BY <1>1 DEF WaitReturns, ClaimOK, Claiming
  <2>. QED
    BY <2>1, <2>2, RanksAtRest
<1>2. CASE MasterRest \/ \E n \in PoolSizes : Initialize(n)
  <2>1. ~Launched /\ ~Launched' /\ UNCHANGED <<claim, rank, ran>>
    BY <1>2, RestAreIdle
  <2>2. claim' \in 0..MaxWork /\ ran' = NotRun /\ rank' = NoRank
    BY <2>1 DEF RanksOK, ClaimOK, Claiming
  <2>. QED
    BY <2>1, <2>2, RanksAtRest
<1>. QED
  BY <1>1, <1>2

(* The master that comes to wait leaves the calls.                         *)
LEMMA WaitKeepsRanks ==
  ASSUME PlaceInv, RanksOK, ClaimOK, Wait \/ Unblock
  PROVE  RanksOK' /\ ClaimOK'
<1>1. Typed /\ 0 \in Thread
  BY Numbers DEF PlaceInv
<1>2. /\ pc[0] = "idle" /\ pc'[0] = "enter" /\ \A t \in Worker : pc'[t] = pc[t]
      /\ UNCHANGED <<threadCount, size, launch, then, claim, control, rank, child, value, ran>>
      /\ routine # "none"
  BY <1>1 DEF Wait, Unblock, Go, Same, Typed, Worker
<1>3. Out' = Out
  BY <1>2 DEF Out, Unmakes, Ready, launch
<1>4. \A t \in Thread : /\ Calling(t)' <=> Calling(t)
                        /\ Through(t)' <=> Through(t)
                        /\ Begun(t)' <=> Begun(t)
  BY <1>2, <1>3 DEF Calling, Through, Begun, Worker
<1>. QED
  BY <1>2, <1>4, RanksStay DEF launch

(* A step that leaves the threads at their calls                           *)
LEMMA FreshStays ==
  ASSUME FreshOK, UNCHANGED <<routine, threadCount, size>>,
         \A t \in Thread : pc'[t] \in {"work", "call", "locked"} =>
           pc[t] \in {"work", "call", "locked"} /\ child'[t] = child[t]
  PROVE  FreshOK'
BY DEF FreshOK, Launched, Serial

(* No thread looks at its children before its calls are made.              *)
LEMMA FreshKept ==
  ASSUME PlaceInv, FreshOK,
         \/ \E t \in Thread : BarrierStep(t)
         \/ \E t \in Worker : Lower(t) \/ Wake(t)
         \/ Starts \/ Wait \/ Unblock \/ Activate
  PROVE  FreshOK'
<1>1. Typed /\ MasterOK /\ 0 \in Thread
  BY Numbers DEF PlaceInv
<1>2. pc \in [Thread -> MasterLabel \cup WorkerLabel] /\ child \in [Thread -> 0..MaxThreads]
  BY <1>1 DEF Typed
<1>3. ASSUME NEW t \in Thread, BarrierStep(t) PROVE FreshOK'
  <2>1. Moves(t)
    BY <1>3, BarrierMoves
  <2>2. /\ UNCHANGED <<threadCount, size, launch>>
        /\ \A u \in Thread : u # t => pc'[u] = pc[u] /\ child'[u] = child[u]
    BY <2>1, MovesFrame
  <2>3. CASE Enter(t)
    <3>1. child'[t] = IF Serial(t) THEN 0 ELSE SpanEnd(size, t) - 1
      BY <1>2, <2>3 DEF Enter, Put
    <3>. QED
      BY <2>2, <3>1 DEF FreshOK, Launched, Serial, launch
  <2>4. CASE ~Enter(t)
    <3>1. pc'[t] \in {"work", "call", "locked"} =>
            pc[t] \in {"work", "call", "locked"} /\ child'[t] = child[t]
      <4>1. CASE JoinChild(t)
        BY <4>1 DEF JoinChild
      <4>2. CASE CallStep(t)
        BY <4>2 DEF CallStep, CallByRank, CallByClaim, CallSerial, Call, NoCall, Go, Working
      <4>3. CASE LockWork(t) \/ UnlockWork(t) \/ Work(t) \/ BlockWork(t)
        BY <4>3 DEF LockWork, UnlockWork, Work, BlockWork, Go, Returned
      <4>. QED
        BY <1>3, <2>4, <4>1, <4>2, <4>3 DEF BarrierStep, Barrier, CallStep
    <3>. QED
      BY <2>2, <3>1, FreshStays DEF launch
  <2>. QED
    BY <2>3, <2>4
<1>4. ASSUME NEW t \in Worker, Lower(t) \/ Wake(t) PROVE FreshOK'
  <2>1. UNCHANGED <<routine, threadCount, size, child>>
    BY <1>4 DEF Lower, Wake, Idle, Same, launch
  <2>2. \A u \in Thread : u # t => pc'[u] = pc[u]
    BY <1>2, <1>4 DEF Lower, Wake, Put, Go
  <2>3. pc'[t] \notin {"work", "call", "locked"}
    BY <1>2, <1>4 DEF Lower, Wake, Put, Go, Worker
  <2>. QED
    BY <2>1, <2>2, <2>3, FreshStays
<1>5. CASE Starts
  <2>1. Ready /\ pc' = [pc EXCEPT ![0] = pc'[0]] /\ pc'[0] \in {"start", "enter", "idle"}
    BY <1>1, <1>2, <1>5 DEF Starts, Begins, Begin, Go, Ready
  <2>2. \A t \in Worker : pc[t] \in {"spin", "off"}
    BY <2>1, AtRest DEF Resting
  <2>3. \A t \in Thread : pc'[t] \notin {"work", "call", "locked"}
    BY <1>1, <1>2, <2>1, <2>2 DEF Worker
  <2>. QED
    BY <2>3 DEF FreshOK
<1>6. CASE Wait \/ Unblock \/ Activate
  <2>1. /\ UNCHANGED <<routine, threadCount, size>>
        /\ child' = [child EXCEPT ![0] = child'[0]]
        /\ pc' = [pc EXCEPT ![0] = pc'[0]] /\ pc'[0] \in {"start", "enter", "idle"}
    <3>1. CASE Wait \/ Unblock
      BY <1>1, <1>2, <3>1 DEF Wait, Unblock, Go, Same, launch
    <3>2. CASE Activate
      <4>1. then \in {"enter", "idle"} /\ pc[0] = "start"
        BY <1>1, <3>2 DEF Activate, MasterOK
      <4>. QED
        BY <1>1, <1>2, <3>2, <4>1 DEF Activate, Put, Go, Same, launch
    <3>. QED
      BY <1>6, <3>1, <3>2
  <2>2. \A t \in Thread : t # 0 => pc'[t] = pc[t] /\ child'[t] = child[t]
    BY <1>2, <2>1
  <2>3. \A t \in Thread : pc'[t] \in {"work", "call", "locked"} =>
           pc[t] \in {"work", "call", "locked"} /\ child'[t] = child[t]
    BY <2>1, <2>2
  <2>. QED
    BY <2>1, <2>3, FreshStays
<1>. QED
  BY <1>3, <1>4, <1>5, <1>6
-----------------------------------------------------------------------------
(* What has been reduced                                                   *)

(* A set, each of its elements once, is a bag.                             *)
LEMMA SetsAreBags ==
  ASSUME NEW S
  PROVE  IsABag(SetToBag(S)) /\ DOMAIN SetToBag(S) = S
BY DEF IsABag, SetToBag

(* The empty bag holds nothing.                                            *)
LEMMA NothingHeld == DOMAIN EmptyBag = {} /\ EmptyBag = SetToBag({})
BY DEF EmptyBag, SetToBag

(* Two that hold nothing in common hold each element once.                 *)
LEMMA BagsJoin ==
  ASSUME NEW S, NEW T, S \cap T = {}
  PROVE  SetToBag(S) (+) SetToBag(T) = SetToBag(S \cup T)
<1>1. SetToBag(S) (+) SetToBag(T) = [e \in S \cup T |-> 1]
  BY DEF SetToBag, (+)
<1>. QED
  BY <1>1 DEF SetToBag

(* One that holds an element for the first time holds it once.             *)
LEMMA BagsGrow ==
  ASSUME NEW S, NEW e, e \notin S
  PROVE  BagAdd(SetToBag(S), e) = SetToBag(S \cup {e})
<1>1. DOMAIN SetToBag(S) = S /\ \A x \in S : SetToBag(S)[x] = 1
  BY DEF SetToBag
<1>2. BagAdd(SetToBag(S), e) = [x \in S \cup {e} |-> IF x = e THEN 1 ELSE SetToBag(S)[x]]
  BY <1>1 DEF BagAdd
<1>3. [x \in S \cup {e} |-> IF x = e THEN 1 ELSE SetToBag(S)[x]] = [x \in S \cup {e} |-> 1]
  BY <1>1
<1>. QED
  BY <1>2, <1>3 DEF SetToBag

(* A thread that is in the barrier has not been joined.                    *)
LEMMA NotAbsorbed ==
  ASSUME PlaceInv, Launched, NEW t \in Thread, pc[t] \in BarrierLabel
  PROVE  ~Absorbed(t)
<1>1. Typed /\ MasterOK /\ TreeOK /\ JoinOK
  BY DEF PlaceInv
<1>2. Members \subseteq Thread
  BY <1>1, Numbers DEF Members, Thread
<1>. SUFFICES ASSUME NEW p \in Members, Has(p, t) PROVE FALSE
  BY DEF Absorbed
<1>3. t \in Kids(p) /\ p \in Thread
  BY <1>2 DEF Has
<1>4. t # 0
  BY <1>1, <1>3, KidFacts DEF Worker
<1>5. control[t] = 1
  BY <1>4, InLaunch
<1>6. CASE pc[p] = "join"
  BY <1>1, <1>3, <1>5, <1>6 DEF Has, JoinOK, BarrierLabel
<1>7. CASE pc[p] # "join"
  BY <1>1, <1>3, <1>5, <1>7 DEF Has, TreeOK, Met
<1>. QED
  BY <1>6, <1>7

(* A thread is the child of one thread.                                    *)
LEMMA OneParent ==
  ASSUME PlaceInv, Launched, threadCount > 1, NEW p \in Members, NEW q \in Members, NEW t,
         t \in Kids(p), t \in Kids(q)
  PROVE  p = q
<1>1. Typed /\ MasterOK /\ ~Unmakes
  BY DEF PlaceInv, MasterOK, Launched, Unmakes
<1>2. size = threadCount /\ size \in 1..THREAD_COUNT_MAX /\ p \in Nat /\ q \in Nat
  BY <1>1, Numbers, CountAssumption DEF Typed, Members, THREAD_COUNT_MAX
<1>3. /\ \A u \in Nat : SpanBegin(size, u) \in Nat /\ SpanEnd(size, u) \in Nat
      /\ \A u, v \in Nat : u < v => SpanEnd(size, u) <= SpanBegin(size, v)
  BY <1>2, SpanShape
<1>4. /\ SpanBegin(size, p) \in Nat /\ SpanEnd(size, p) \in Nat
      /\ SpanBegin(size, q) \in Nat /\ SpanEnd(size, q) \in Nat
      /\ p < q => SpanEnd(size, p) <= SpanBegin(size, q)
      /\ q < p => SpanEnd(size, q) <= SpanBegin(size, p)
  BY <1>2, <1>3
<1>5. /\ SpanBegin(size, p) <= t /\ t < SpanEnd(size, p) /\ SpanBegin(size, q) <= t /\ t < SpanEnd(size, q)
      /\ t \in Int
  BY <1>4 DEF Kids
<1>. QED
  BY <1>2, <1>4, <1>5

(* A step that adds nothing and joins nothing                              *)
LEMMA ValuesStay ==
  ASSUME ValuesOK, UNCHANGED <<value, reduces, threadCount>>,
         reduces => /\ \A t \in Members : t # 0 => (Entered(t)' <=> Entered(t))
                    /\ \A e \in Int : Given(e)' <=> Given(e)
                    /\ \A t \in Members : Absorbed(t)' <=> Absorbed(t)
  PROVE  ValuesOK'
<1>1. CASE ~reduces
  BY <1>1 DEF ValuesOK
<1>2. CASE reduces
  <2>1. Members' = Members /\ \A t, u : Apart(t, u)' <=> Apart(t, u)
    BY DEF Members, Apart
  <2>2. /\ value = [t \in Thread |-> SetToBag(DOMAIN value[t])]
        /\ \A t \in Members : t # 0 /\ ~Entered(t) => value[t] = EmptyBag
        /\ \A t \in Members : \A e \in DOMAIN value[t] : e \in Int /\ Given(e)
        /\ \A e \in Int : Given(e) => \E t \in Members : ~Absorbed(t) /\ e \in DOMAIN value[t]
        /\ \A t, u \in Members : t # u /\ ~Absorbed(t) /\ ~Absorbed(u) => Apart(t, u)
    BY <1>2 DEF ValuesOK
  <2>3. \A t \in Members : t # 0 /\ ~Entered(t)' => value[t] = EmptyBag
    BY <1>2, <2>2
  <2>4. \A t \in Members : \A e \in DOMAIN value[t] : e \in Int /\ Given(e)'
    BY <1>2, <2>2
  <2>5. \A e \in Int : Given(e)' => \E t \in Members : ~Absorbed(t)' /\ e \in DOMAIN value[t]
    BY <1>2, <2>2
  <2>6. \A t, u \in Members : t # u /\ ~Absorbed(t)' /\ ~Absorbed(u)' => Apart(t, u)
    BY <1>2, <2>2
  <2>. QED
    BY <1>2, <2>1, <2>2, <2>3, <2>4, <2>5, <2>6 DEF ValuesOK
<1>. QED
  BY <1>1, <1>2

(* What is given depends on who has entered, and on the calls.             *)
LEMMA GivenStays ==
  ASSUME UNCHANGED <<ran, rank, threadCount>>,
         \A t \in Members : t # 0 => (Entered(t)' <=> Entered(t)),
         \A t \in Thread : Calling(t)' <=> Calling(t)
  PROVE  \A e \in Int : Given(e)' <=> Given(e)
<1>1. \A t \in 1..(threadCount - 1) : Entered(t)' <=> Entered(t)
  BY DEF Members
<1>. QED
  BY <1>1 DEF Given
(* A member of the pool is a thread, and no child of itself.               *)
LEMMA MemberFacts ==
  ASSUME PlaceInv, Launched
  PROVE  /\ Members \subseteq Thread /\ 0 \in Members /\ 0 \notin Out /\ ~Unmakes
         /\ \A p \in Members : \A u \in Kids(p) : u \in Members /\ u \in Worker /\ u # p /\ threadCount > 1
<1>1. Typed /\ MasterOK /\ ~Unmakes
  BY DEF PlaceInv, MasterOK, Launched, Unmakes
<1>2. threadCount \in Nat /\ threadCount <= MaxThreads /\ 0 \in Thread
      /\ (threadCount > 0 => size = threadCount)
  BY <1>1, Numbers
<1>3. Members \subseteq Thread /\ 0 \in Members
  BY <1>2 DEF Members, Thread
<1>4. 0 \notin Out
  BY <1>1, <1>2 DEF Out, MasterOK
<1>5. ASSUME NEW p \in Members, NEW u \in Kids(p)
      PROVE  u \in Members /\ u \in Worker /\ u # p /\ threadCount > 1
  <2>1. u \in Worker /\ u < threadCount /\ (p < size => p < u)
    BY <1>1, <1>3, <1>5, KidFacts
  <2>2. u \in Nat \ {0}
    BY <2>1 DEF Worker, Thread
  <2>3. threadCount > 1 /\ u \in 1..(threadCount - 1)
    BY <1>2, <2>1, <2>2
  <2>4. p < size /\ p \in Nat
    BY <1>2, <1>5, <2>3 DEF Members
  <2>. QED
    BY <2>1, <2>2, <2>3, <2>4 DEF Members
<1>. QED
  BY <1>1, <1>3, <1>4, <1>5

(* Nobody is joined by a step of a thread before it looks at its children. *)
LEMMA NoneAbsorbed ==
  ASSUME PlaceInv, FreshOK, Launched, NEW t \in Thread, Moves(t),
         \/ pc[t] = "enter" /\ pc'[t] # "join"
         \/ pc[t] \in {"work", "call", "locked"} /\ child'[t] = child[t]
  PROVE  \A u : Absorbed(u)' <=> Absorbed(u)
<1>1. Typed /\ MasterOK /\ TreeOK /\ JoinOK /\ 0 \in Thread
  BY Numbers DEF PlaceInv
<1>2. /\ Out' = Out /\ UNCHANGED <<threadCount, size, launch, then, control>>
      /\ \A u \in Thread : u # t => pc'[u] = pc[u] /\ child'[u] = child[u]
      /\ pc'[t] \in BarrierLabel /\ pc[t] \in BarrierLabel
  BY MovesFrame
<1>3. Members' = Members /\ \A p : Kids(p)' = Kids(p)
  BY <1>2 DEF Members, Kids
<1>4. t \in Members /\ (t # 0 => control[t] = 1)
  BY <1>2, InLaunch
<1>5. ASSUME NEW p \in Members, p # t, NEW u PROVE Has(p, u)' <=> Has(p, u)
  <2>1. p \in Thread
    BY MemberFacts
  <2>. QED
    BY <1>2, <1>3, <1>5, <2>1 DEF Has
<1>6. ~(t \in Out /\ control[t] = 0)
  BY <1>4, MemberFacts
<1>7. pc[t] # "join"
  OBVIOUS
<1>8. ASSUME NEW u PROVE ~Has(t, u)
  BY <1>6, <1>7 DEF Has
<1>9. ASSUME NEW u PROVE ~Has(t, u)'
  <2>1. CASE pc'[t] # "join"
    BY <1>2, <1>6, <2>1 DEF Has
  <2>2. CASE pc'[t] = "join"
    <3>1. child'[t] = child[t] /\ (IF Serial(t) THEN child[t] = 0 ELSE child[t] = SpanEnd(size, t) - 1)
      BY <2>2 DEF FreshOK
    <3>2. SUFFICES ASSUME u \in Kids(t), child[t] < u PROVE FALSE
      BY <1>3, <2>2, <3>1 DEF Has
    <3>3. ~Serial(t)
      BY <1>4, <3>2, MemberFacts, Numbers, <1>1 DEF Serial
    <3>4. SpanBegin(size, t) \in Int /\ SpanEnd(size, t) \in Int
      BY <1>1, KidFacts
    <3>. QED
      BY <3>1, <3>2, <3>3, <3>4 DEF Kids
  <2>. QED
    BY <2>1, <2>2
<1>10. \A p \in Members : \A u : Has(p, u)' <=> Has(p, u)
  BY <1>5, <1>8, <1>9
<1>. QED
  BY <1>3, <1>10 DEF Absorbed

(* All values are sets if the one that changes is.                         *)
LEMMA BagsPut ==
  ASSUME value = [u \in Thread |-> SetToBag(DOMAIN value[u])], NEW t \in Thread, NEW S,
         value' = [value EXCEPT ![t] = SetToBag(S)]
  PROVE  /\ value' = [u \in Thread |-> SetToBag(DOMAIN value'[u])]
         /\ DOMAIN value'[t] = S
         /\ \A u \in Thread : u # t => value'[u] = value[u]
<1>1. value'[t] = SetToBag(S) /\ \A u \in Thread : u # t => value'[u] = value[u]
  OBVIOUS
<1>2. DOMAIN value'[t] = S
  BY <1>1, SetsAreBags
<1>3. ASSUME NEW u \in Thread PROVE value'[u] = SetToBag(DOMAIN value'[u])
  <2>1. CASE u = t
    BY <1>1, <1>2, <2>1
  <2>2. CASE u # t
    BY <1>1, <2>2
  <2>. QED
    BY <2>1, <2>2
<1>4. DOMAIN value' = Thread /\ value' = [u \in DOMAIN value' |-> value'[u]]
  OBVIOUS
<1>5. value' = [u \in Thread |-> SetToBag(DOMAIN value'[u])]
  BY <1>3, <1>4
<1>. QED
  BY <1>1, <1>2, <1>5

(* What the values say, of a launch that reduces                           *)
LEMMA Reduced ==
  ASSUME ValuesOK, reduces
  PROVE  /\ value = [t \in Thread |-> SetToBag(DOMAIN value[t])]
         /\ \A t \in Members : t # 0 /\ ~Entered(t) => value[t] = EmptyBag
         /\ \A t \in Members : \A e \in DOMAIN value[t] : e \in Int /\ Given(e)
         /\ \A e \in Int : Given(e) => \E t \in Members : ~Absorbed(t) /\ e \in DOMAIN value[t]
         /\ \A t, u \in Members : t # u /\ ~Absorbed(t) /\ ~Absorbed(u) => DOMAIN value[t] \cap DOMAIN value[u] = {}
BY DEF ValuesOK, Apart

(* A thread adds what nobody holds.                                        *)
LEMMA GivesOne ==
  ASSUME PlaceInv, ValuesOK, Launched, reduces, UNCHANGED <<reduces, threadCount>>,
         NEW t \in Members, NEW x \in Int, ~Given(x), ~Absorbed(t),
         value' = [value EXCEPT ![t] = SetToBag(DOMAIN value[t] \cup {x})],
         \A u : Absorbed(u)' <=> Absorbed(u),
         \A e \in Int : Given(e)' <=> Given(e) \/ e = x,
         \A u \in Members : u # 0 /\ ~Entered(u)' => u # t /\ ~Entered(u)
  PROVE  ValuesOK'
<1>1. Members' = Members /\ Members \subseteq Thread
  BY MemberFacts DEF Members
<1>2. /\ value' = [u \in Thread |-> SetToBag(DOMAIN value'[u])]
      /\ DOMAIN value'[t] = DOMAIN value[t] \cup {x}
      /\ \A u \in Thread : u # t => value'[u] = value[u]
  BY <1>1, Reduced, BagsPut
<1>3. \A u \in Members : x \notin DOMAIN value[u]
  BY Reduced
<1>4. \A u \in Members : u # 0 /\ ~Entered(u)' => value'[u] = EmptyBag
  BY <1>1, <1>2, Reduced
<1>5. ASSUME NEW u \in Members, NEW e \in DOMAIN value'[u] PROVE e \in Int /\ Given(e)'
  <2>1. e = x \/ \E v \in Members : e \in DOMAIN value[v]
    BY <1>1, <1>2, <1>5
  <2>2. e \in Int /\ (Given(e) \/ e = x)
    BY <2>1, Reduced
  <2>. QED
    BY <2>2
<1>6. ASSUME NEW e \in Int, Given(e)' PROVE \E u \in Members : ~Absorbed(u)' /\ e \in DOMAIN value'[u]
  <2>1. CASE e = x
    BY <1>2, <2>1
  <2>2. CASE e # x
    <3>1. PICK u \in Members : ~Absorbed(u) /\ e \in DOMAIN value[u]
      BY <1>6, <2>2, Reduced
    <3>. QED
      BY <1>1, <1>2, <3>1
  <2>. QED
    BY <2>1, <2>2
<1>7. ASSUME NEW u \in Members, NEW v \in Members, u # v, ~Absorbed(u)', ~Absorbed(v)'
      PROVE  DOMAIN value'[u] \cap DOMAIN value'[v] = {}
  <2>1. DOMAIN value[u] \cap DOMAIN value[v] = {} /\ x \notin DOMAIN value[u] /\ x \notin DOMAIN value[v]
    BY <1>3, <1>7, Reduced
  <2>2. /\ DOMAIN value'[u] = IF u = t THEN DOMAIN value[u] \cup {x} ELSE DOMAIN value[u]
        /\ DOMAIN value'[v] = IF v = t THEN DOMAIN value[v] \cup {x} ELSE DOMAIN value[v]
    BY <1>1, <1>2
  <2>. QED
    BY <1>7, <2>1, <2>2
<1>. QED
  BY <1>1, <1>2, <1>4, <1>5, <1>6, <1>7 DEF ValuesOK, Apart

(* A thread takes over what a child holds.                                 *)
LEMMA JoinsOne ==
  ASSUME PlaceInv, ValuesOK, Launched, reduces, UNCHANGED <<reduces, threadCount>>,
         NEW t \in Members, NEW c \in Members, t # c, ~Absorbed(c), ~Absorbed(t),
         value' = [value EXCEPT ![t] = SetToBag(DOMAIN value[t] \cup DOMAIN value[c])],
         \A u \in Members : Absorbed(u)' <=> Absorbed(u) \/ u = c,
         \A e \in Int : Given(e)' <=> Given(e),
         \A u \in Members : u # 0 /\ ~Entered(u)' => u # t /\ ~Entered(u)
  PROVE  ValuesOK'
<1>1. Members' = Members /\ Members \subseteq Thread
  BY MemberFacts DEF Members
<1>2. /\ value' = [u \in Thread |-> SetToBag(DOMAIN value'[u])]
      /\ DOMAIN value'[t] = DOMAIN value[t] \cup DOMAIN value[c]
      /\ \A u \in Thread : u # t => value'[u] = value[u]
  BY <1>1, Reduced, BagsPut
<1>4. \A u \in Members : u # 0 /\ ~Entered(u)' => value'[u] = EmptyBag
  BY <1>1, <1>2, Reduced
<1>5. ASSUME NEW u \in Members, NEW e \in DOMAIN value'[u] PROVE e \in Int /\ Given(e)'
  <2>1. \E v \in Members : e \in DOMAIN value[v]
    BY <1>1, <1>2, <1>5
  <2>. QED
    BY <2>1, Reduced
<1>6. ASSUME NEW e \in Int, Given(e)' PROVE \E u \in Members : ~Absorbed(u)' /\ e \in DOMAIN value'[u]
  <2>1. PICK u \in Members : ~Absorbed(u) /\ e \in DOMAIN value[u]
    BY <1>6, Reduced
  <2>2. CASE u = c \/ u = t
    BY <1>2, <2>1, <2>2
  <2>3. CASE u # c /\ u # t
    BY <1>1, <1>2, <2>1, <2>3
  <2>. QED
    BY <2>2, <2>3
<1>7. ASSUME NEW u \in Members, NEW v \in Members, u # v, ~Absorbed(u)', ~Absorbed(v)'
      PROVE  DOMAIN value'[u] \cap DOMAIN value'[v] = {}
  <2>1. /\ DOMAIN value[u] \cap DOMAIN value[v] = {} /\ u # c /\ v # c
        /\ DOMAIN value[u] \cap DOMAIN value[c] = {} /\ DOMAIN value[v] \cap DOMAIN value[c] = {}
    BY <1>7, Reduced
  <2>2. /\ DOMAIN value'[u] = IF u = t THEN DOMAIN value[u] \cup DOMAIN value[c] ELSE DOMAIN value[u]
        /\ DOMAIN value'[v] = IF v = t THEN DOMAIN value[v] \cup DOMAIN value[c] ELSE DOMAIN value[v]
    BY <1>1, <1>2
  <2>. QED
    BY <1>7, <2>1, <2>2
<1>. QED
  BY <1>1, <1>2, <1>4, <1>5, <1>6, <1>7 DEF ValuesOK, Apart

(* Only a launch reduces.                                                  *)
LEMMA ReducesLaunched ==
  ASSUME PlaceInv, reduces
  PROVE  Launched
BY DEF PlaceInv, MasterOK, Launched

(* A thread that enters initializes its value, which none holds.           *)
LEMMA EnterKeepsValues ==
  ASSUME PlaceInv, FreshOK, ValuesOK, NEW t \in Thread, Enter(t)
  PROVE  ValuesOK'
<1>1. Typed /\ MasterOK /\ 0 \in Thread
  BY Numbers DEF PlaceInv
<1>2. Moves(t)
  BY BarrierMoves DEF BarrierStep, Barrier
<1>3. /\ Out' = Out /\ UNCHANGED <<threadCount, size, launch, then, control>>
      /\ \A u \in Thread : u # t => pc'[u] = pc[u] /\ child'[u] = child[u]
      /\ pc'[t] \in BarrierLabel /\ pc[t] \in BarrierLabel
  BY <1>2, MovesFrame
<1>4. /\ pc[t] = "enter" /\ UNCHANGED <<rank, ran>>
      /\ Launched => pc'[t] = "work"
      /\ value' = IF Joins /\ t # 0 THEN [value EXCEPT ![t] = SetToBag({-t})] ELSE value
  BY <1>1 DEF Enter, Go, Typed, Launched, Put
<1>5. CASE ~reduces
  <2>1. value' = value
    BY <1>4, <1>5 DEF Joins
  <2>. QED
    BY <1>3, <1>5, <2>1, ValuesStay DEF launch
<1>6. CASE reduces
  <2>1. /\ Launched /\ pc'[t] = "work" /\ t \in Members /\ (t # 0 => control[t] = 1)
        /\ Members \subseteq Thread /\ 0 \notin Out
    BY <1>3, <1>4, <1>6, ReducesLaunched, InLaunch, MemberFacts
  <2>2. \A u : Absorbed(u)' <=> Absorbed(u)
    BY <1>2, <1>4, <2>1, NoneAbsorbed
  <2>3. \A u \in Members : u # t => (Entered(u)' <=> Entered(u))
    BY <1>3, <2>1 DEF Entered, Begun, Calling, Through
  <2>4. \A u \in Thread : Calling(u)' <=> Calling(u)
    BY <1>3, <1>4, <2>1 DEF Calling
  <2>5. CASE t = 0
    <3>1. value' = value
      BY <1>4, <2>5
    <3>2. \A u \in Members : u # 0 => (Entered(u)' <=> Entered(u))
      BY <2>3, <2>5
    <3>3. \A e \in Int : Given(e)' <=> Given(e)
      BY <1>3, <1>4, <2>4, <3>2, GivenStays
    <3>. QED
      BY <1>3, <2>2, <3>1, <3>2, <3>3, ValuesStay DEF launch
  <2>6. CASE t # 0
    <3>1. t \in 1..(threadCount - 1) /\ threadCount > 1 /\ threadCount \in Nat /\ -t \in Int
      BY <1>1, <2>1, <2>6, Numbers DEF Members
    <3>2. Entered(t)' /\ ~Entered(t)
      BY <1>4, <2>1, <2>6 DEF Entered, Begun, Calling, Through
    <3>3. value[t] = EmptyBag /\ DOMAIN value[t] = {}
      BY <1>6, <2>1, <2>6, <3>2, Reduced, NothingHeld
    <3>4. value' = [value EXCEPT ![t] = SetToBag(DOMAIN value[t] \cup {-t})]
      <4>1. DOMAIN value[t] \cup {-t} = {-t}
        BY <3>3
      <4>. QED
        BY <1>4, <1>6, <2>6, <3>1, <4>1 DEF Joins
    <3>5. ~Given(-t)
      <4>1. -t \notin Rank
        BY <3>1 DEF Rank
      <4>2. \A u \in 1..(threadCount - 1) : -t = -u => u = t
        BY <3>1
      <4>. QED
        BY <3>2, <4>1, <4>2 DEF Given
    <3>6. ASSUME NEW e \in Int PROVE Given(e)' <=> Given(e) \/ e = -t
      <4>1. (\E u \in 1..(threadCount - 1) : e = -u /\ Entered(u)')
              <=> (\E u \in 1..(threadCount - 1) : e = -u /\ Entered(u)) \/ e = -t
        BY <2>3, <3>1, <3>2 DEF Members
      <4>2. Given(e)' <=> \/ \E u \in 1..(threadCount - 1) : e = -u /\ Entered(u)'
                          \/ e \in Rank /\ ran[e] # {} /\ \A u \in Thread : Calling(u)' => rank[u] # e
        BY <1>3, <1>4 DEF Given
      <4>. QED
        BY <2>4, <4>1, <4>2 DEF Given
    <3>7. ~Absorbed(t)
      BY <1>3, <2>1, NotAbsorbed
    <3>8. \A u \in Members : u # 0 /\ ~Entered(u)' => u # t /\ ~Entered(u)
      BY <2>3, <3>2
    <3>. QED
      BY <1>3, <1>6, <2>1, <2>2, <3>1, <3>4, <3>5, <3>6, <3>7, <3>8, GivesOne DEF launch
  <2>. QED
    BY <2>5, <2>6
<1>. QED
  BY <1>5, <1>6

(* The call that a thread makes gives nothing yet.                         *)
LEMMA CallKeepsValues ==
  ASSUME PlaceInv, RanksOK, FreshOK, ValuesOK, NEW t \in Thread, CallStep(t)
  PROVE  ValuesOK'
<1>1. Typed /\ MasterOK /\ 0 \in Thread
  BY Numbers DEF PlaceInv
<1>2. /\ Launched /\ t \in Members /\ pc[t] = "work" /\ ~Begun(t)
      /\ UNCHANGED <<threadCount, size, launch, then, control, child, Out, value>>
      /\ pc' = [pc EXCEPT ![t] = pc'[t]] /\ pc'[t] \in {"call", "join"}
      /\ pc'[t] = "call" => /\ rank'[t] \in Rank
                            /\ rank' = [rank EXCEPT ![t] = rank'[t]]
                            /\ ran[rank'[t]] = {}
                            /\ ran' = [ran EXCEPT ![rank'[t]] = {t}]
      /\ pc'[t] = "join" => rank' = rank /\ ran' = ran
  BY NextIsNew
<1>3. Moves(t)
  BY BarrierMoves DEF BarrierStep, Barrier, CallStep
<1>4. \A u : Absorbed(u)' <=> Absorbed(u)
  BY <1>2, <1>3, NoneAbsorbed
<1>5. \A u \in Thread : u # t => pc'[u] = pc[u]
  BY <1>1, <1>2 DEF Typed
<1>6. /\ Members \subseteq Thread /\ 0 \notin Out
      /\ \A u \in Members : Entered(u)' <=> Entered(u)
  <2>1. Members \subseteq Thread /\ 0 \notin Out
    BY <1>2, MemberFacts
  <2>2. \A u \in Members : u # t => (Entered(u)' <=> Entered(u))
    BY <1>2, <1>5, <2>1 DEF Entered, Begun, Calling, Through
  <2>3. Entered(t)' /\ Entered(t)
    BY <1>2 DEF Entered, Begun, Calling, Through
  <2>. QED
    BY <2>1, <2>2, <2>3
<1>7. \A u \in Thread : u # t => (Calling(u)' <=> Calling(u))
  BY <1>5 DEF Calling
<1>8. ~Calling(t)
  BY <1>2 DEF Begun
<1>9. ASSUME NEW e \in Int PROVE Given(e)' <=> Given(e)
  <2>1. (\E u \in 1..(threadCount - 1) : e = -u /\ Entered(u)')
          <=> (\E u \in 1..(threadCount - 1) : e = -u /\ Entered(u))
    BY <1>6 DEF Members
  <2>2. Given(e)' <=> \/ \E u \in 1..(threadCount - 1) : e = -u /\ Entered(u)'
                      \/ e \in Rank /\ ran'[e] # {} /\ \A u \in Thread : Calling(u)' => rank'[u] # e
    BY <1>2 DEF Given
  <2>3. CASE pc'[t] = "join"
    <3>1. ~Calling(t)' /\ rank' = rank /\ ran' = ran
      BY <1>2, <2>3 DEF Calling
    <3>2. \A u \in Thread : Calling(u)' <=> Calling(u)
      BY <1>7, <1>8, <3>1
    <3>. QED
      BY <2>1, <2>2, <3>1, <3>2 DEF Given
  <2>4. CASE pc'[t] = "call"
    <3>1. /\ rank'[t] \in Rank /\ ran[rank'[t]] = {} /\ Calling(t)'
          /\ \A u \in Thread : u # t => rank'[u] = rank[u]
          /\ \A r \in Rank : r # rank'[t] => ran'[r] = ran[r]
      BY <1>1, <1>2, <2>4 DEF Calling, Typed
    <3>2. CASE e = rank'[t]
      BY <2>1, <2>2, <3>1, <3>2 DEF Given
    <3>3. CASE e # rank'[t]
      <4>1. (\A u \in Thread : Calling(u)' => rank'[u] # e) <=> (\A u \in Thread : Calling(u) => rank[u] # e)
        BY <1>7, <1>8, <3>1, <3>3
      <4>2. e \in Rank => ran'[e] = ran[e]
        BY <3>1, <3>3
      <4>. QED
        BY <2>1, <2>2, <4>1, <4>2 DEF Given
    <3>. QED
      BY <3>2, <3>3
  <2>. QED
    BY <1>2, <2>3, <2>4
<1>. QED
  BY <1>2, <1>4, <1>6, <1>9, ValuesStay DEF launch

(* A call returns, and gives what it has computed.                         *)
LEMMA ReturnKeepsValues ==
  ASSUME PlaceInv, RanksOK, FreshOK, ValuesOK, NEW t \in Thread,
         LockWork(t) \/ UnlockWork(t) \/ Work(t) \/ BlockWork(t)
  PROVE  ValuesOK'
<1>1. Typed /\ MasterOK /\ 0 \in Thread
  BY Numbers DEF PlaceInv
<1>2. Moves(t)
  BY BarrierMoves DEF BarrierStep, Barrier
<1>3. /\ Out' = Out /\ UNCHANGED <<threadCount, size, launch, then, control>>
      /\ \A u \in Thread : u # t => pc'[u] = pc[u]
      /\ pc'[t] \in BarrierLabel /\ pc[t] \in BarrierLabel
  BY <1>2, MovesFrame
<1>4. /\ pc[t] \in {"call", "locked"} /\ pc'[t] \in {"locked", Again(t)}
      /\ UNCHANGED <<child, rank, ran>>
  BY <1>1 DEF LockWork, UnlockWork, Work, BlockWork, Go, Typed, Returned
<1>5. Calling(t) /\ Launched
  BY <1>4, CallingIsLaunched DEF Calling
<1>6. /\ t \in Members /\ (t # 0 => control[t] = 1) /\ Members \subseteq Thread /\ 0 \notin Out
      /\ ~Absorbed(t)
  BY <1>3, <1>5, InLaunch, MemberFacts, NotAbsorbed
<1>7. \A u : Absorbed(u)' <=> Absorbed(u)
  BY <1>2, <1>4, <1>5, NoneAbsorbed
<1>8. \A u \in Members : Entered(u)' <=> Entered(u)
  <2>1. \A u \in Members : u # t => (Entered(u)' <=> Entered(u))
    BY <1>3, <1>6 DEF Entered, Begun, Calling, Through
  <2>2. Entered(t)
    BY <1>5 DEF Entered, Begun
  <2>3. Entered(t)'
    BY <1>4 DEF Entered, Begun, Calling, Through, Again
  <2>. QED
    BY <2>1, <2>2, <2>3
<1>9. \A u \in Thread : u # t => (Calling(u)' <=> Calling(u))
  BY <1>3 DEF Calling
<1>10. CASE Calling(t)'
  <2>1. value' = value
    <3>1. pc'[t] \in {"call", "locked"}
      BY <1>10 DEF Calling
    <3>2. LockWork(t)
      BY <1>1, <3>1 DEF LockWork, UnlockWork, Work, BlockWork, Go, Typed, Again
    <3>. QED
      BY <3>2 DEF LockWork
  <2>2. \A u \in Thread : Calling(u)' <=> Calling(u)
    BY <1>5, <1>9, <1>10
  <2>3. \A e \in Int : Given(e)' <=> Given(e)
    BY <1>3, <1>4, <1>8, <2>2, GivenStays
  <2>. QED
    BY <1>3, <1>7, <1>8, <2>1, <2>3, ValuesStay DEF launch
<1>11. CASE ~Calling(t)' /\ ~reduces
  <2>1. value' = value
    BY <1>11 DEF LockWork, UnlockWork, Work, BlockWork, Contribute
  <2>. QED
    BY <1>3, <1>11, <2>1, ValuesStay DEF launch
<1>12. CASE ~Calling(t)' /\ reduces
  <2>. DEFINE x == rank[t]
  <2>1. x \in Rank /\ x \in Int /\ ran[x] = {t}
    <3>1. x \in 0..(workCount - 1) /\ ran[x] = {t}
      BY <1>5 DEF RanksOK
    <3>2. workCount <= MaxWork /\ workCount \in Nat
      BY <1>1 DEF Typed
    <3>. QED
      BY <3>1, <3>2 DEF Rank
  <2>2. value' = [value EXCEPT ![t] = BagAdd(value[t], x)]
    <3>1. ~LockWork(t)
      BY <1>1, <1>12 DEF LockWork, Go, Typed, Calling
    <3>2. ~BlockWork(t)
      BY <1>1, <1>12 DEF BlockWork, MasterOK
    <3>. QED
      BY <1>12, <3>1, <3>2 DEF UnlockWork, Work, Contribute, Put
  <2>3. ~Given(x)
    <3>1. \A u \in 1..(threadCount - 1) : x # -u
      BY <2>1 DEF Rank
    <3>. QED
      BY <1>5, <3>1 DEF Given
  <2>4. value[t] = SetToBag(DOMAIN value[t]) /\ x \notin DOMAIN value[t]
    <3>1. value = [u \in Thread |-> SetToBag(DOMAIN value[u])] /\ \A e \in DOMAIN value[t] : Given(e)
      BY <1>6, <1>12, Reduced
    <3>. QED
      BY <2>3, <3>1
  <2>5. value' = [value EXCEPT ![t] = SetToBag(DOMAIN value[t] \cup {x})]
    <3>1. BagAdd(SetToBag(DOMAIN value[t]), x) = SetToBag(DOMAIN value[t] \cup {x})
      BY <2>4, BagsGrow
    <3>. QED
      BY <2>2, <2>4, <3>1
  <2>6. ASSUME NEW e \in Int PROVE Given(e)' <=> Given(e) \/ e = x
    <3>1. (\E u \in 1..(threadCount - 1) : e = -u /\ Entered(u)')
            <=> (\E u \in 1..(threadCount - 1) : e = -u /\ Entered(u))
      BY <1>8 DEF Members
    <3>2. Given(e)' <=> \/ \E u \in 1..(threadCount - 1) : e = -u /\ Entered(u)'
                        \/ e \in Rank /\ ran[e] # {} /\ \A u \in Thread : Calling(u)' => rank[u] # e
      BY <1>3, <1>4 DEF Given
    <3>3. ASSUME e = x PROVE \A u \in Thread : Calling(u)' => rank[u] # e
      <4>1. \A u \in Thread : Calling(u) /\ rank[u] = x => u = t
        BY <2>1 DEF RanksOK
      <4>. QED
        BY <1>9, <1>12, <3>3, <4>1
    <3>4. ASSUME e # x
          PROVE (\A u \in Thread : Calling(u)' => rank[u] # e) <=> (\A u \in Thread : Calling(u) => rank[u] # e)
      BY <1>5, <1>9, <1>12, <3>4
    <3>. HIDE DEF x
    <3>5. CASE e = x
      BY <2>1, <3>2, <3>3, <3>5
    <3>6. CASE e # x
      BY <3>1, <3>2, <3>4, <3>6 DEF Given
    <3>. QED
      BY <3>5, <3>6
  <2>7. \A u \in Members : u # 0 /\ ~Entered(u)' => u # t /\ ~Entered(u)
    BY <1>5, <1>8 DEF Entered, Begun
  <2>. HIDE DEF x
  <2>. QED
    BY <1>3, <1>5, <1>6, <1>7, <1>12, <2>1, <2>3, <2>5, <2>6, <2>7, GivesOne DEF launch
<1>. QED
  BY <1>10, <1>11, <1>12

(* A child is joined by one thread, once.                                  *)
LEMMA JoinKeepsValues ==
  ASSUME PlaceInv, ValuesOK, NEW t \in Thread, JoinChild(t)
  PROVE  ValuesOK'
<1>1. Typed /\ MasterOK /\ JoinOK /\ 0 \in Thread /\ threadCount \in Nat /\ size \in Nat
  BY Numbers DEF PlaceInv
<1>2. Moves(t)
  BY BarrierMoves DEF BarrierStep, Barrier
<1>3. /\ Out' = Out /\ UNCHANGED <<threadCount, size, launch, then, control>>
      /\ \A u \in Thread : u # t => child'[u] = child[u]
  BY <1>2, MovesFrame
<1>. DEFINE c == child[t]
<1>4. /\ pc[t] = "join" /\ pc' = pc /\ c >= SpanBegin(size, t) /\ control[c] # 1
      /\ child'[t] = c - 1 /\ UNCHANGED <<rank, ran>> /\ c \in Int
      /\ value' = IF Joins /\ Launched THEN [value EXCEPT ![t] = value[t] (+) value[c]] ELSE value
  BY <1>1 DEF JoinChild, Waits, Put, Typed, Launched
<1>5. CASE ~reduces
  <2>1. value' = value
    BY <1>4, <1>5 DEF Joins
  <2>. QED
    BY <1>3, <1>5, <2>1, ValuesStay DEF launch
<1>6. CASE reduces
  <2>1. Launched /\ t \in Members /\ Members \subseteq Thread /\ ~Absorbed(t) /\ ~Unmakes
    BY <1>4, <1>6, ReducesLaunched, InLaunch, MemberFacts, NotAbsorbed DEF BarrierLabel
  <2>2. SpanBegin(size, t) \in Nat \ {0} /\ SpanEnd(size, t) \in Nat /\ (t < size => SpanEnd(size, t) <= size)
    BY <1>1, KidFacts
  <2>3. ~Serial(t) /\ c <= SpanEnd(size, t) - 1
    BY <1>1, <1>4, <2>2 DEF JoinOK, BarrierLabel
  <2>4. threadCount > 1 /\ size = threadCount /\ t < size
    BY <1>1, <2>1, <2>3, Numbers DEF Serial, Members
  <2>. HIDE DEF c
  <2>5. c \in Kids(t)
    BY <1>1, <1>4, <2>2, <2>3, <2>4 DEF Kids
  <2>6. c \in Members /\ c # t
    BY <2>1, <2>5, MemberFacts
  <2>7. ASSUME NEW p \in Members, NEW u PROVE Has(p, u)' <=> Has(p, u) \/ (p = t /\ u = c)
    <3>1. Kids(p)' = Kids(p)
      BY <1>3 DEF Kids
    <3>2. CASE p # t
      BY <1>3, <1>4, <2>1, <3>1, <3>2 DEF Has
    <3>3. CASE p = t
      <4>1. u \in Kids(t) => u \in Int
        BY <2>2 DEF Kids
      <4>2. Has(t, u) <=> u \in Kids(t) /\ c < u
        BY <1>4 DEF Has, c
      <4>3. Has(p, u)' <=> u \in Kids(t) /\ c - 1 < u
        BY <1>4, <3>1, <3>3 DEF Has
      <4>. QED
        BY <1>4, <2>5, <3>3, <4>1, <4>2, <4>3
    <3>. QED
      BY <3>2, <3>3
  <2>8. \A u \in Members : Absorbed(u)' <=> Absorbed(u) \/ u = c
    <3>1. Members' = Members
      BY <1>3 DEF Members
    <3>. QED
      BY <2>1, <2>7, <3>1 DEF Absorbed
  <2>9. ~Absorbed(c)
    <3>1. SUFFICES ASSUME NEW p \in Members, Has(p, c) PROVE FALSE
      BY DEF Absorbed
    <3>2. p = t
      BY <2>1, <2>4, <2>5, <3>1, OneParent DEF Has
    <3>. QED
      BY <1>4, <3>1, <3>2 DEF Has, c
  <2>10. \A u \in Members : Entered(u)' <=> Entered(u)
    BY <1>3, <1>4 DEF Entered, Begun, Calling, Through
  <2>11. Entered(t)
    BY <1>4 DEF Entered, Begun, Through
  <2>12. \A e \in Int : Given(e)' <=> Given(e)
    <3>1. \A u \in Thread : Calling(u)' <=> Calling(u)
      BY <1>4 DEF Calling
    <3>. QED
      BY <1>3, <1>4, <2>10, <3>1, GivenStays
  <2>13. value' = [value EXCEPT ![t] = SetToBag(DOMAIN value[t] \cup DOMAIN value[c])]
    <3>1. value[t] = SetToBag(DOMAIN value[t]) /\ value[c] = SetToBag(DOMAIN value[c])
      BY <1>6, <2>1, <2>6, Reduced
    <3>2. DOMAIN value[t] \cap DOMAIN value[c] = {}
      BY <1>6, <2>1, <2>6, <2>9, Reduced
    <3>3. value[t] (+) value[c] = SetToBag(DOMAIN value[t] \cup DOMAIN value[c])
      BY <3>1, <3>2, BagsJoin
    <3>4. value' = [value EXCEPT ![t] = value[t] (+) value[c]]
      BY <1>4, <1>6, <2>1, <2>4 DEF Joins
    <3>. QED
      BY <3>3, <3>4
  <2>14. \A u \in Members : u # 0 /\ ~Entered(u)' => u # t /\ ~Entered(u)
    BY <2>10, <2>11
  <2>. QED
    BY <1>3, <1>6, <2>1, <2>6, <2>8, <2>9, <2>12, <2>13, <2>14, JoinsOne DEF launch
<1>. QED
  BY <1>5, <1>6

(* A worker that is done stands for the threads it has joined.             *)
LEMMA DriverKeepsValues ==
  ASSUME PlaceInv, ValuesOK, NEW t \in Worker, Lower(t) \/ Wake(t)
  PROVE  ValuesOK'
<1>1. Typed /\ MasterOK /\ 0 \in Thread /\ t \in Thread /\ t # 0
  BY Numbers DEF PlaceInv, Worker
<1>2. UNCHANGED <<threadCount, size, launch, then, claim, rank, child, ran, value>>
  BY DEF Lower, Wake, Idle, Same
<1>3. \A u \in Thread : u # t => pc'[u] = pc[u] /\ control'[u] = control[u]
  BY <1>1 DEF Lower, Wake, Typed, Put, Go, Idle
<1>4. Out' = Out /\ pc'[0] = pc[0] /\ Members' = Members /\ \A p : Kids(p)' = Kids(p)
  <2>1. pc'[0] = pc[0]
    BY <1>1, <1>3
  <2>. QED
    BY <1>2, <2>1 DEF Out, Unmakes, Ready, launch, Members, Kids
<1>5. CASE ~reduces
  BY <1>2, <1>5, ValuesStay DEF launch
<1>6. CASE reduces
  <2>1. Launched /\ Members \subseteq Thread
    BY <1>6, ReducesLaunched, MemberFacts
  <2>2. /\ Entered(t)' <=> Entered(t)
        /\ ~Calling(t) /\ ~Calling(t)'
        /\ \A u : Has(t, u)' <=> Has(t, u)
    <3>1. CASE Lower(t)
      <4>1. pc[t] = "join" /\ control'[t] = 0 /\ pc'[t] \in {"off", "spin"} /\ child[t] < SpanBegin(size, t)
        BY <1>1, <3>1 DEF Lower, Joined, Put, Typed
      <4>2. t \in Out
        BY <1>1, <2>1, <4>1, InLaunch DEF BarrierLabel
      <4>3. Entered(t)' /\ Entered(t)
        BY <1>4, <4>1, <4>2 DEF Entered, Begun, Through
      <4>4. ASSUME NEW u \in Kids(t) PROVE child[t] < u
        <5>1. SpanBegin(size, t) \in Nat /\ SpanEnd(size, t) \in Nat /\ child[t] \in Int
          BY <1>1, KidFacts DEF Typed
        <5>. QED
          BY <4>1, <5>1 DEF Kids
      <4>5. \A u : Has(t, u)' <=> u \in Kids(t)
        BY <1>4, <4>1, <4>2 DEF Has
      <4>6. \A u : Has(t, u) <=> u \in Kids(t)
        BY <4>1, <4>4 DEF Has
      <4>. QED
        BY <4>1, <4>3, <4>5, <4>6 DEF Calling
    <3>2. CASE Wake(t)
      <4>1. pc[t] = "spin" /\ control[t] = 1 /\ pc'[t] = "enter" /\ control' = control
        BY <1>1, <3>2 DEF Wake, Go, Typed, Idle
      <4>. QED
        BY <1>4, <4>1 DEF Has, Entered, Begun, Through, Calling
    <3>. QED
      BY <3>1, <3>2
  <2>3. ASSUME NEW u \in Thread, u # t
        PROVE  /\ Entered(u)' <=> Entered(u)
               /\ Calling(u)' <=> Calling(u)
               /\ \A v : Has(u, v)' <=> Has(u, v)
    BY <1>2, <1>3, <1>4, <2>3 DEF Has, Entered, Begun, Through, Calling
  <2>4. \A u \in Members : Entered(u)' <=> Entered(u)
    BY <2>1, <2>2, <2>3
  <2>5. \A u : Absorbed(u)' <=> Absorbed(u)
    BY <1>4, <2>1, <2>2, <2>3 DEF Absorbed
  <2>6. \A e \in Int : Given(e)' <=> Given(e)
    BY <1>2, <2>2, <2>3, <2>4, GivenStays
  <2>. QED
    BY <1>2, <2>4, <2>5, <2>6, ValuesStay DEF launch
<1>. QED
  BY <1>5, <1>6

(* The master that activates, or comes to wait, joins nothing.             *)
LEMMA MasterKeepsValues ==
  ASSUME PlaceInv, ValuesOK, Activate \/ Wait \/ Unblock
  PROVE  ValuesOK'
<1>1. Typed /\ MasterOK /\ WorkersOK /\ 0 \in Thread /\ threadCount \in Nat
  BY Numbers DEF PlaceInv
<1>2. UNCHANGED <<threadCount, size, launch, then, rank, ran, value>>
  BY DEF Activate, Wait, Unblock, Same
<1>3. CASE ~reduces
  BY <1>2, <1>3, ValuesStay DEF launch
<1>4. CASE reduces
  <2>1. Launched /\ Members \subseteq Thread /\ ~Unmakes /\ 0 \notin Out
    BY <1>4, ReducesLaunched, MemberFacts
  <2>2. Members' = Members /\ \A p : Kids(p)' = Kids(p)
    BY <1>2 DEF Members, Kids
  <2>3. /\ pc[0] \in {"start", "idle"} /\ pc'[0] \in {"start", "enter", "idle"}
        /\ \A u \in Thread : u # 0 => pc'[u] = pc[u]
        /\ \A u \in Thread : u # 0 => child'[u] = child[u]
    BY <1>1 DEF Activate, Wait, Unblock, Go, Typed, MasterOK, Put
  <2>4. \A u \in Thread : /\ Calling(u)' <=> Calling(u)
                          /\ pc'[u] = "work" <=> pc[u] = "work"
                          /\ pc'[u] = "join" <=> pc[u] = "join"
    BY <2>3 DEF Calling
  <2>5. \A u \in Thread : u # 0 => ((u \in Out' /\ control'[u] = 0) <=> (u \in Out /\ control[u] = 0))
    <3>1. CASE Wait \/ Unblock
      <4>1. UNCHANGED <<child, control>> /\ routine # "none"
        BY <3>1 DEF Wait, Unblock
      <4>2. Out' = Out
        <5>1. pc[0] = "idle" /\ pc'[0] = "enter"
          BY <1>1, <3>1 DEF Wait, Unblock, Go, Typed
        <5>. QED
          BY <1>2, <4>1, <5>1 DEF Out, Ready, Unmakes, launch
      <4>. QED
        BY <4>1, <4>2
    <3>2. CASE Activate
      <4>. DEFINE a == child[0]
      <4>1. /\ pc[0] = "start" /\ control' = [control EXCEPT ![a] = 1] /\ child'[0] = a - 1
            /\ pc'[0] = IF a = 1 THEN then ELSE "start"
        BY <1>1, <3>2 DEF Activate, Activated, Go, Put, Typed
      <4>2. a \in 1..(threadCount - 1) /\ then \in {"enter", "idle"} /\ ~Ready /\ ~Ready' /\ ~Unmakes'
        BY <1>1, <1>2, <2>1, <2>3, <4>1 DEF MasterOK, Ready, Unmakes, Launched, launch
      <4>. HIDE DEF a
      <4>3. Out = (a + 1)..(threadCount - 1)
        BY <2>1, <4>1, <4>2 DEF Out, a
      <4>4. Out' = a..(threadCount - 1)
        <5>1. a = 1 => pc'[0] \notin {"create", "start"}
          BY <4>1, <4>2
        <5>. QED
          BY <1>2, <4>1, <4>2, <5>1 DEF Out
      <4>5. a \in Thread /\ (\A u \in Thread : u # a => control'[u] = control[u]) /\ control'[a] = 1
        <5>1. threadCount <= MaxThreads
          BY <1>1, Numbers
        <5>2. a \in Thread
          BY <1>1, <4>2, <5>1 DEF Thread
        <5>. QED
          BY <1>1, <4>1, <5>2 DEF Typed
      <4>6. a \notin Out
        BY <1>1, <4>2, <4>3
      <4>7. \A u \in Thread : u # a => (u \in Out' <=> u \in Out)
        BY <1>1, <4>2, <4>3, <4>4 DEF Thread
      <4>. QED
        BY <4>5, <4>6, <4>7
    <3>. QED
      BY <3>1, <3>2
  <2>6. 0 \notin Out'
    <3>1. \A u \in Out' : u \in 1..(threadCount - 1) \/ u \in (child'[0] + 1)..(threadCount - 1)
      BY <1>2 DEF Out
    <3>2. pc'[0] = "start" => child'[0] \in Nat
      BY <1>1, <2>1, <2>3 DEF Activate, Wait, Unblock, Go, MasterOK, Typed, Put
    <3>3. 0 \in Out' => pc'[0] = "start"
      BY <1>1, <1>2, <2>3 DEF Out
    <3>. QED
      BY <1>1, <3>1, <3>2, <3>3
  <2>7. \A u \in Members : /\ Entered(u)' <=> Entered(u)
                           /\ \A v : Has(u, v)' <=> Has(u, v)
    <3>1. ASSUME NEW u \in Members, u # 0
          PROVE  /\ Entered(u)' <=> Entered(u)
                 /\ \A v : Has(u, v)' <=> Has(u, v)
      BY <2>1, <2>2, <2>3, <2>4, <2>5, <3>1 DEF Entered, Begun, Through, Has, Calling
    <3>2. Entered(0)' <=> Entered(0)
      BY <1>1, <2>1, <2>4, <2>6 DEF Entered, Begun, Through, Calling
    <3>3. \A v : Has(0, v)' <=> Has(0, v)
      <4>1. pc[0] # "join" /\ pc'[0] # "join"
        BY <2>3
      <4>. QED
        BY <2>1, <2>6, <4>1 DEF Has
    <3>. QED
      BY <3>1, <3>2, <3>3
  <2>8. \A u : Absorbed(u)' <=> Absorbed(u)
    BY <2>2, <2>7 DEF Absorbed
  <2>9. \A e \in Int : Given(e)' <=> Given(e)
    BY <1>2, <2>4, <2>7, GivenStays
  <2>. QED
    BY <1>2, <2>7, <2>8, <2>9, ValuesStay DEF launch
<1>. QED
  BY <1>3, <1>4

(* A launch begins with nothing given.                                     *)
LEMMA StartKeepsValues ==
  ASSUME PlaceInv, RanksOK, ValuesOK, Starts
  PROVE  ValuesOK'
<1>1. Typed /\ MasterOK /\ 0 \in Thread /\ threadCount \in Nat
  BY Numbers DEF PlaceInv
<1>2. /\ Ready /\ UNCHANGED <<threadCount, size, value, ran, rank>>
      /\ pc' = [pc EXCEPT ![0] = pc'[0]] /\ pc'[0] \in {"start", "enter", "idle"}
      /\ IF threadCount > 1 THEN pc'[0] = "start" /\ child'[0] = threadCount - 1
         ELSE pc'[0] # "start"
  BY <1>1 DEF Starts, Begins, Begin, Go, Ready, Put, Typed
<1>3. value = NoValue /\ ran = NotRun
  BY <1>1, <1>2 DEF ValuesOK, RanksOK, MasterOK, Ready, Launched
<1>4. \A t \in Worker : pc[t] \in {"spin", "off"}
  BY <1>2, AtRest DEF Resting
<1>5. \A t \in Thread : pc'[t] \notin {"work", "call", "locked", "join"}
  BY <1>1, <1>2, <1>4 DEF Typed, Worker
<1>6. Out' = {}
  <2>1. CASE threadCount > 1
    BY <1>1, <1>2, <2>1 DEF Out
  <2>2. CASE threadCount <= 1
    <3>1. pc'[0] \notin {"create", "start"} /\ 1..(threadCount - 1) = {}
      BY <1>1, <1>2, <2>2
    <3>. QED
      BY <1>2, <3>1 DEF Out
  <2>. QED
    BY <1>1, <2>1, <2>2
<1>7. \A t \in Thread : ~Entered(t)'
  BY <1>5, <1>6 DEF Entered, Begun, Calling, Through
<1>8. Members \subseteq Thread /\ Members' = Members
  <2>1. threadCount <= MaxThreads /\ MaxThreads \in Nat
    BY <1>1, Numbers
  <2>. QED
    BY <1>1, <1>2, <2>1 DEF Members, Thread
<1>9. ASSUME NEW e \in Int PROVE ~Given(e)'
  <2>1. \A t \in 1..(threadCount - 1) : ~Entered(t)'
    BY <1>7, <1>8 DEF Members
  <2>2. \A r \in Rank : ran'[r] = {}
    BY <1>2, <1>3 DEF NotRun
  <2>. QED
    BY <1>2, <2>1, <2>2 DEF Given
<1>10. value' = NoValue /\ \A t \in Thread : value'[t] = EmptyBag /\ DOMAIN value'[t] = {}
  BY <1>2, <1>3, NothingHeld DEF NoValue
<1>11. value' = [t \in Thread |-> SetToBag(DOMAIN value'[t])]
  <2>1. \A t \in Thread : EmptyBag = SetToBag(DOMAIN value'[t])
    BY <1>10, NothingHeld
  <2>. QED
    BY <1>10, <2>1 DEF NoValue
<1>. QED
  BY <1>8, <1>9, <1>10, <1>11 DEF ValuesOK, Apart

(* The master that returns, or makes the pool, leaves no value.            *)
LEMMA RestKeepsValues ==
  ASSUME PlaceInv, ValuesOK,
         WaitReturns \/ MasterRest \/ \E n \in PoolSizes : Initialize(n)
  PROVE  ValuesOK'
<1>1. CASE WaitReturns
  BY <1>1 DEF WaitReturns, ValuesOK
<1>2. CASE MasterRest \/ \E n \in PoolSizes : Initialize(n)
  <2>1. ~Launched /\ UNCHANGED <<value, launch>>
    BY <1>2, RestAreIdle
  <2>2. ~reduces
    BY <2>1, ReducesLaunched
  <2>. QED
    BY <2>1, <2>2 DEF ValuesOK, launch
<1>. QED
  BY <1>1, <1>2
-----------------------------------------------------------------------------
(* At first nothing is called.                                             *)
LEMMA CallBegins == Init => CallInv
<1>. SUFFICES ASSUME Init PROVE CallInv
  OBVIOUS
<1>1. /\ routine = "none" /\ claim = 0 /\ reduces = FALSE /\ rank = NoRank /\ ran = NotRun
      /\ value = NoValue /\ \A t \in Thread : pc[t] \in {"idle", "off"}
  BY DEF Init
<1>2. \A t \in Thread : ~Calling(t)
  BY <1>1 DEF Calling
<1>3. \A r \in Rank : ran[r] = {}
  BY <1>1 DEF NotRun
<1>. QED
  BY <1>1, <1>2, <1>3 DEF CallInv, RanksOK, ClaimOK, FreshOK, ValuesOK, Launched, Claiming

(* Every step keeps the calls and the values.                              *)
LEMMA CallKept == PlaceInv /\ PlaceInv' /\ CallInv /\ [Next]_vars => CallInv'
<1>1. ASSUME PlaceInv, PlaceInv', CallInv, Next PROVE CallInv'
  <2>1. RanksOK /\ ClaimOK /\ FreshOK /\ ValuesOK
    BY <1>1 DEF CallInv
  <2>2. CASE Starts \/ Wait \/ Unblock \/ Activate
    BY <1>1, <2>1, <2>2, StartKeepsRanks, WaitKeepsRanks, ActivateKeepsRanks, FreshKept,
       StartKeepsValues, MasterKeepsValues DEF CallInv
  <2>3. CASE WaitReturns \/ MasterRest \/ \E n \in PoolSizes : Initialize(n)
    <3>1. ~Launched'
      BY <1>1, <2>3, RestAreIdle DEF WaitReturns, Launched
    <3>2. FreshOK'
      BY <3>1 DEF FreshOK
    <3>. QED
      BY <1>1, <2>1, <2>3, <3>2, MasterKeepsRanks, RestKeepsValues DEF CallInv
  <2>4. ASSUME NEW t \in Thread, BarrierStep(t) PROVE CallInv'
    <3>1. CASE CallStep(t)
      BY <1>1, <2>1, <2>4, <3>1, CallKeepsRanks, FreshKept, CallKeepsValues DEF CallInv
    <3>2. CASE BarrierRest(t)
      <4>1. ValuesOK'
        BY <1>1, <2>1, <3>2, EnterKeepsValues, ReturnKeepsValues, JoinKeepsValues DEF BarrierRest
      <4>. QED
        BY <1>1, <2>1, <2>4, <3>2, <4>1, RestKeepsRanks, FreshKept DEF CallInv
    <3>. QED
      BY <2>4, <3>1, <3>2 DEF BarrierStep, Barrier, CallStep, BarrierRest
  <2>5. ASSUME NEW t \in Worker, Lower(t) \/ Wake(t) PROVE CallInv'
    BY <1>1, <2>1, <2>5, DriverKeepsRanks, FreshKept, DriverKeepsValues DEF CallInv
  <2>. QED
    BY <1>1, <2>2, <2>3, <2>4, <2>5, Steps, CallsStart DEF MasterRest
<1>2. ASSUME PlaceInv, CallInv, UNCHANGED vars PROVE CallInv'
  <2>1. /\ UNCHANGED <<threadCount, size, launch, claim, pc, rank, child, control, value, ran>>
        /\ RanksOK /\ ClaimOK /\ FreshOK /\ ValuesOK
    BY <1>2 DEF vars, CallInv
  <2>2. Out' = Out
    BY <2>1 DEF Out, Ready, Unmakes, launch
  <2>3. RanksOK' /\ ClaimOK'
    <3>1. \A t \in Thread : /\ Calling(t)' <=> Calling(t)
                            /\ Through(t)' <=> Through(t)
                            /\ Begun(t)' <=> Begun(t)
      BY <2>1, <2>2 DEF Calling, Through, Begun
    <3>. QED
      BY <1>2, <2>1, <3>1, RanksStay DEF launch
  <2>4. FreshOK'
    BY <2>1, FreshStays DEF launch
  <2>5. ValuesOK'
    <3>1. \A t : (Entered(t)' <=> Entered(t)) /\ (Calling(t)' <=> Calling(t))
      BY <2>1, <2>2 DEF Entered, Begun, Calling, Through
    <3>2. \A t : Absorbed(t)' <=> Absorbed(t)
      BY <2>1, <2>2 DEF Absorbed, Has, Kids, Members
    <3>3. \A e \in Int : Given(e)' <=> Given(e)
      BY <2>1, <3>1, GivenStays
    <3>. QED
      BY <2>1, <3>1, <3>2, <3>3, ValuesStay DEF launch
  <2>. QED
    BY <2>3, <2>4, <2>5 DEF CallInv
<1>. QED
  BY <1>1, <1>2

(* Each call of a launch is made by one thread, and what the calls have    *)
(* reduced is held once.                                                   *)
THEOREM CallsInPlace == Spec => [](PlaceInv /\ CallInv)
<1>. QED
  BY PlaceBegins, PlaceKept, CallBegins, CallKept, PTL DEF Spec
(* When the launch is over every call has been made, and has returned.     *)
LEMMA AllCalled ==
  ASSUME PlaceInv, CallInv, Joined(0), Launched
  PROVE  /\ \A t \in Thread : ~Calling(t)
         /\ \A t \in Members : Through(t)
         /\ \A r \in Rank : ran[r] # {} <=> r < workCount
<1>1. Typed /\ MasterOK /\ 0 \in Thread /\ threadCount \in Nat /\ workCount \in Nat
      /\ threadCount <= MaxThreads
  BY Numbers DEF PlaceInv, Typed
<1>2. /\ pc[0] = "join" /\ Out = 1..(threadCount - 1)
      /\ \A t \in Worker : IF t < threadCount THEN Done(t) ELSE pc[t] = "off"
  BY AllDone
<1>3. \A t \in Thread : ~Calling(t)
  BY <1>2 DEF Calling, Done, Worker
<1>4. Members \subseteq Thread
  BY MemberFacts
<1>5. ASSUME NEW t \in Members PROVE Through(t)
  <2>1. CASE t = 0
    BY <1>2, <2>1 DEF Through
  <2>2. CASE t # 0
    <3>1. t \in Worker /\ t \in Out /\ t < threadCount
      BY <1>1, <1>2, <1>4, <2>2 DEF Members, Worker
    <3>. QED
      BY <1>2, <3>1 DEF Done, Through
  <2>. QED
    BY <2>1, <2>2
<1>6. RanksOK /\ \A r \in Rank : r \in Nat
  BY DEF CallInv, Rank
<1>7. CASE threadCount <= 1
  <2>1. InOrder /\ rank[0] \in Int
    BY <1>1, <1>6, <1>7 DEF RanksOK, Typed, Rank
  <2>2. rank[0] < workCount /\ rank[0] + 1 >= workCount
    BY <1>2, <2>1 DEF InOrder
  <2>3. ASSUME NEW r \in Rank PROVE ran[r] # {} <=> r < workCount
    <3>1. r <= rank[0] <=> r < workCount
      BY <1>1, <1>6, <2>1, <2>2
    <3>2. ran[r] # {} <=> r <= rank[0]
      BY <2>1 DEF InOrder
    <3>. QED
      BY <3>1, <3>2
  <2>. QED
    BY <1>3, <1>5, <2>3
<1>8. CASE threadCount > 1 /\ ByRank
  <2>1. OneEach /\ workCount <= threadCount
    BY <1>1, <1>6, <1>8 DEF RanksOK, MasterOK, Launched, ByRank, Typed
  <2>2. ASSUME NEW r \in Rank, r < workCount PROVE Begun(threadCount - 1 - r)
    <3>1. threadCount - 1 - r \in Members
      BY <1>1, <1>6, <2>1, <2>2 DEF Members
    <3>. QED
      BY <1>5, <3>1 DEF Begun
  <2>. QED
    BY <1>3, <1>5, <2>1, <2>2 DEF OneEach
<1>9. CASE threadCount > 1 /\ ~ByRank
  <2>1. AsClaimed /\ claim <= 0 /\ claim \in Int
    BY <1>1, <1>4, <1>5, <1>6, <1>9, MemberFacts DEF RanksOK, Claiming, AsClaimed, Typed
  <2>. QED
    BY <1>1, <1>3, <1>5, <1>6, <2>1 DEF AsClaimed
<1>. QED
  BY <1>1, <1>7, <1>8, <1>9

(* The variables have their types.                                         *)
LEMMA TypesHold ==
  ASSUME PlaceInv, CallInv
  PROVE  TypeOK
<1>1. Typed /\ MasterOK /\ threadCount \in Nat /\ workCount \in 0..MaxWork /\ size \in 0..MaxThreads
  BY Numbers DEF PlaceInv, Typed
<1>2. claim \in (-MaxThreads)..MaxWork
  <2>1. CASE Claiming
    <3>1. -claim <= Cardinality(Throughs) /\ claim <= workCount /\ claim \in Int
      BY <1>1, <2>1 DEF CallInv, ClaimOK, Claiming, MasterOK, Launched, Typed
    <3>. QED
      BY <1>1, <3>1, ThroughsFinite
  <2>2. CASE ~Claiming
    BY <2>2 DEF CallInv, ClaimOK
  <2>. QED
    BY <2>1, <2>2
<1>3. ASSUME NEW t \in Thread PROVE IsABag(value[t])
  <2>1. CASE reduces
    <3>1. value = [u \in Thread |-> SetToBag(DOMAIN value[u])]
      BY <2>1, Reduced DEF CallInv
    <3>2. value[t] = SetToBag(DOMAIN value[t])
      BY <3>1
    <3>. QED
      BY <3>2, SetsAreBags
  <2>2. CASE ~reduces
    <3>1. value[t] = EmptyBag
      BY <2>2 DEF CallInv, ValuesOK, NoValue
    <3>. QED
      BY <3>1, NothingHeld, SetsAreBags
  <2>. QED
    BY <2>1, <2>2
<1>. QED
  BY <1>1, <1>2, <1>3 DEF TypeOK, Typed

(* When the launch is over each of its threads has made one call.          *)
LEMMA OnceOnEach ==
  ASSUME PlaceInv, CallInv
  PROVE  OnceOnEachThread
<1>. SUFFICES ASSUME LaunchIsOver, threadCount > 1, workCount = workThreads,
                     NEW t \in (threadCount - workThreads)..(threadCount - 1)
              PROVE  Cardinality({r \in Rank : t \in ran[r]}) = 1
  BY DEF OnceOnEachThread
<1>1. Typed /\ MasterOK /\ threadCount \in Nat /\ workCount \in 0..MaxWork /\ Launched
  BY Numbers DEF PlaceInv, Typed, LaunchIsOver, Launched
<1>2. workThreads \in {threadCount - 1, threadCount} /\ ByRank
  BY <1>1 DEF MasterOK, Launched, ByRank
<1>3. OneEach
  BY <1>1, <1>2 DEF CallInv, RanksOK
<1>4. t \in Members /\ t \in Int
  BY <1>1, <1>2 DEF Members
<1>5. Begun(t)
  BY <1>1, <1>4, AllCalled DEF LaunchIsOver, Begun
<1>. DEFINE q == threadCount - 1 - t
<1>6. q \in Rank /\ q < workCount /\ threadCount - 1 - q = t
  BY <1>1, <1>2, <1>4 DEF Rank
<1>7. {r \in Rank : t \in ran[r]} = {q}
  <2>1. ran[q] = {t}
    BY <1>3, <1>5, <1>6 DEF OneEach
  <2>2. ASSUME NEW r \in Rank, t \in ran[r] PROVE r = q
    <3>1. t \in {threadCount - 1 - r}
      <4>1. ran[r] = {} \/ ran[r] = {threadCount - 1 - r}
        BY <1>3 DEF OneEach
      <4>. QED
        BY <2>2, <4>1
    <3>2. r \in Int
      BY DEF Rank
    <3>. QED
      BY <1>1, <1>4, <3>1, <3>2
  <2>. QED
    BY <1>6, <2>1, <2>2
<1>. QED
  BY <1>7, FS_Singleton

(* When the launch is over all that was given is with the master.          *)
LEMMA ReducesAll ==
  ASSUME PlaceInv, CallInv
  PROVE  ReduceIsExact
<1>. SUFFICES ASSUME LaunchIsOver, reduces
              PROVE  value[0] = SetToBag(0..(workCount - 1) \cup {-t : t \in 1..(threadCount - 1)})
  BY DEF ReduceIsExact
<1>1. Typed /\ MasterOK /\ threadCount \in Nat /\ workCount \in 0..MaxWork /\ Launched /\ ValuesOK
      /\ Joined(0)
  BY Numbers DEF PlaceInv, Typed, LaunchIsOver, Launched, CallInv
<1>2. /\ \A t \in Thread : ~Calling(t)
      /\ \A t \in Members : Through(t)
      /\ \A r \in Rank : ran[r] # {} <=> r < workCount
  BY <1>1, AllCalled
<1>3. /\ Members \subseteq Thread /\ 0 \in Members /\ ~Unmakes
  BY <1>1, MemberFacts
<1>4. ASSUME NEW t \in Members, t # 0 PROVE Absorbed(t)
  <2>1. t \in 1..(threadCount - 1)
    BY <1>4 DEF Members
  <2>2. PICK p \in 0..(t - 1) : t \in Kids(p)
    BY <1>1, <1>3, <2>1, Parents
  <2>3. p \in Members
    BY <1>1, <2>1, <2>2 DEF Members
  <2>4. CASE p = 0
    <3>1. SpanBegin(size, 0) \in Int /\ SpanEnd(size, 0) \in Int /\ child[0] \in Int
      BY <1>1, <1>3, KidFacts DEF Typed
    <3>2. child[0] < t /\ pc[0] = "join"
      BY <1>1, <2>2, <2>4, <3>1 DEF Joined, Kids
    <3>. QED
      BY <2>2, <2>3, <2>4, <3>2 DEF Has, Absorbed
  <2>5. CASE p # 0
    <3>1. p \in Worker /\ p < threadCount
      BY <1>1, <1>3, <2>3, <2>5 DEF Members, Worker
    <3>2. Done(p) /\ p \in Out
      BY <1>1, <2>3, <2>5, <3>1, AllDone DEF Members
    <3>3. pc[p] # "join" /\ control[p] = 0
      BY <3>2 DEF Done
    <3>. QED
      BY <2>2, <2>3, <3>2, <3>3 DEF Has, Absorbed
  <2>. QED
    BY <2>4, <2>5
<1>5. ASSUME NEW e \in Int
      PROVE  Given(e) <=> e \in 0..(workCount - 1) \cup {-t : t \in 1..(threadCount - 1)}
  <2>1. \A t \in 1..(threadCount - 1) : Entered(t)
    BY <1>2 DEF Members, Entered, Begun
  <2>2. e \in Rank /\ ran[e] # {} <=> e \in 0..(workCount - 1)
    BY <1>1, <1>2 DEF Rank
  <2>. QED
    BY <1>2, <2>1, <2>2 DEF Given
<1>6. DOMAIN value[0] = 0..(workCount - 1) \cup {-t : t \in 1..(threadCount - 1)}
  <2>1. \A e \in DOMAIN value[0] : e \in Int /\ Given(e)
    BY <1>1, <1>3, Reduced
  <2>2. ASSUME NEW e \in Int, Given(e) PROVE e \in DOMAIN value[0]
    BY <1>1, <1>4, <2>2, Reduced
  <2>3. \A e \in 0..(workCount - 1) \cup {-t : t \in 1..(threadCount - 1)} : e \in Int
    OBVIOUS
  <2>. QED
    BY <1>5, <2>1, <2>2, <2>3
<1>7. value[0] = SetToBag(DOMAIN value[0])
  <2>1. value = [u \in Thread |-> SetToBag(DOMAIN value[u])]
    BY <1>1, Reduced
  <2>. QED
    BY <1>3, <2>1
<1>. QED
  BY <1>6, <1>7

(* A launch runs a work subprogram once on each thread, and at its end the *)
(* master holds what each call and each thread has reduced, once.          *)
THEOREM LaunchesAreExact == Spec => []LaunchIsExact
<1>1. PlaceInv /\ CallInv => LaunchIsExact
  BY TypesHold, OnceOnEach, ReducesAll DEF LaunchIsExact
<1>. QED
  BY <1>1, CallsInPlace, PTL
-----------------------------------------------------------------------------
(* TPI implements WorkPool                                                 *)

(* What WorkPool's variables stand for                                     *)
Up == threadCount > 0 /\ then # "made"
Left == {r \in 0..(workCount - 1) : ran[r] = {}}

(* WorkPool, in TPI's terms                                                *)
LEMMA AbstractIs ==
  /\ Abstract!Init <=> ~Up /\ routine = "none" /\ Left = {} /\ Running = {}
  /\ Abstract!StartOrStop <=> routine = "none" /\ Up' = ~Up /\ UNCHANGED <<routine, Left, Running>>
  /\ Abstract!Launch <=> /\ routine = "none" /\ routine' \in {"work", "block"}
                         /\ \E k \in 0..MaxWork : Left' = 0..(k - 1)
                         /\ UNCHANGED <<Up, Running>>
  /\ \A r : Abstract!Call(r) <=>
              Left' = Left \ {r} /\ Running' = Running \cup {r} /\ UNCHANGED <<Up, routine>>
  /\ \A r : Abstract!Return(r) <=> Running' = Running \ {r} /\ UNCHANGED <<Up, routine, Left>>
  /\ Abstract!End <=> /\ routine # "none" /\ Left = {} /\ Running = {}
                      /\ routine' = "none" /\ UNCHANGED <<Up, Left, Running>>
  /\ (UNCHANGED Abstract!vars) <=> UNCHANGED <<Up, routine, Left, Running>>
  /\ Abstract!Next <=> \/ Abstract!StartOrStop \/ Abstract!Launch
                       \/ (\E r \in Left : Abstract!Call(r))
                       \/ (\E r \in Running : Abstract!Return(r)) \/ Abstract!End
BY DEF Abstract!Init, Abstract!StartOrStop, Abstract!Launch, Abstract!Call, Abstract!Return,
   Abstract!End, Abstract!vars, Abstract!Next, Up, Left

(* The calls that run are those of the threads that call.                  *)
LEMMA RunningIs ==
  /\ Running = {rank[t] : t \in {u \in Thread : Calling(u)}}
  /\ Running' = {rank'[t] : t \in {u \in Thread : Calling(u)'}}
BY DEF Running, Calling

(* A step that WorkPool does not see                                       *)
LEMMA Unseen ==
  ASSUME UNCHANGED <<routine, workCount, ran, rank>>, Up' <=> Up,
         \A t \in Thread : Calling(t)' <=> Calling(t)
  PROVE  UNCHANGED Abstract!vars
<1>1. Up' = Up /\ Left' = Left
  BY DEF Up, Left
<1>2. {u \in Thread : Calling(u)'} = {u \in Thread : Calling(u)}
  OBVIOUS
<1>3. Running' = Running
  BY <1>2, RunningIs
<1>. QED
  BY <1>1, <1>3, AbstractIs

(* No thread calls: no call runs.                                          *)
LEMMA Nothing ==
  ASSUME \A t \in Thread : ~Calling(t)
  PROVE  Running = {}
<1>1. {u \in Thread : Calling(u)} = {}
  OBVIOUS
<1>. QED
  BY <1>1, RunningIs

(* No thread calls after the step: no call runs then.                      *)
LEMMA NothingNext ==
  ASSUME \A t \in Thread : ~Calling(t)'
  PROVE  Running' = {}
<1>1. {u \in Thread : Calling(u)'} = {}
  OBVIOUS
<1>. QED
  BY <1>1, RunningIs

(* TPI begins as WorkPool.                                                 *)
LEMMA AbstractBegins == Init => Abstract!Init
<1>. SUFFICES ASSUME Init PROVE Abstract!Init
  OBVIOUS
<1>1. threadCount = 0 /\ routine = "none" /\ workCount = 0 /\ \A t \in Thread : pc[t] \in {"idle", "off"}
  BY DEF Init
<1>2. ~Up /\ Left = {}
  BY <1>1 DEF Up, Left
<1>3. Running = {}
  BY <1>1, Nothing DEF Calling
<1>. QED
  BY <1>1, <1>2, <1>3, AbstractIs

(* A launch begins.                                                        *)
LEMMA StartsImplement ==
  ASSUME PlaceInv, CallInv, PlaceInv', Starts
  PROVE  Abstract!Launch \/ UNCHANGED Abstract!vars
<1>1. Typed /\ MasterOK /\ 0 \in Thread
  BY Numbers DEF PlaceInv
<1>2. PICK work \in {"none", "work", "block"}, count \in 0..MaxWork, threads \in Int, locks \in 0..1,
           reduced \in BOOLEAN, next \in {"enter", "idle"} :
        Begins(work, count, threads, locks, reduced, next)
  BY DEF Starts
<1>3. /\ pc[0] = "idle" /\ routine = "none" /\ routine' = work /\ workCount' = count
      /\ pc'[0] \in {"start", "enter", "idle"} /\ \A t \in Worker : pc'[t] = pc[t]
      /\ UNCHANGED <<threadCount, ran, rank>> /\ then' \in {"enter", "idle"}
      /\ work = "none" => count = 0
  BY <1>1, <1>2 DEF Begins, Begin, Go, Put, Typed, Worker
<1>4. Ready /\ ~Launched
  BY <1>3 DEF Ready, Launched
<1>5. ran = NotRun /\ workCount = 0 /\ then = "return"
  BY <1>1, <1>4 DEF CallInv, RanksOK, MasterOK, Ready
<1>6. Up' = Up
  BY <1>3, <1>5 DEF Up
<1>7. \A t \in Thread : ~Calling(t) /\ ~Calling(t)'
  <2>1. \A t \in Thread : ~Calling(t)
    BY <1>4, NoneCalls
  <2>. QED
    BY <1>3, <2>1 DEF Calling, Worker
<1>8. Running = {} /\ Running' = {}
  BY <1>7, Nothing, NothingNext
<1>9. Left' = 0..(count - 1)
  <2>1. \A r \in 0..(count - 1) : ran'[r] = {}
    BY <1>3, <1>5 DEF NotRun, Rank
  <2>. QED
    BY <1>3, <2>1 DEF Left
<1>10. CASE work = "none"
  <2>1. Left = {} /\ Left' = {}
    BY <1>3, <1>5, <1>9, <1>10 DEF Left
  <2>. QED
    BY <1>3, <1>6, <1>8, <1>10, <2>1, AbstractIs
<1>11. CASE work # "none"
  BY <1>3, <1>6, <1>8, <1>9, <1>11, AbstractIs
<1>. QED
  BY <1>10, <1>11

(* A thread makes a call, or returns from one.                             *)
LEMMA BarrierImplements ==
  ASSUME PlaceInv, CallInv, NEW t \in Thread, BarrierStep(t)
  PROVE  Abstract!Next \/ UNCHANGED Abstract!vars
<1>1. Typed /\ MasterOK /\ RanksOK
  BY DEF PlaceInv, CallInv
<1>2. Moves(t)
  BY BarrierMoves
<1>3. /\ UNCHANGED <<threadCount, size, launch, then, control>>
      /\ \A u \in Thread : u # t => pc'[u] = pc[u]
      /\ pc'[t] \in BarrierLabel /\ pc[t] \in BarrierLabel
  BY <1>2, MovesFrame
<1>4. Up' = Up /\ routine' = routine /\ workCount' = workCount
  BY <1>3 DEF Up, launch
<1>5. \A u \in Thread : u # t => (Calling(u)' <=> Calling(u))
  BY <1>3 DEF Calling
<1>6. CASE CallStep(t)
  <2>1. /\ pc[t] = "work" /\ pc'[t] \in {"call", "join"}
        /\ pc'[t] = "call" => /\ rank'[t] \in 0..(workCount - 1) /\ rank'[t] \in Rank
                              /\ rank' = [rank EXCEPT ![t] = rank'[t]]
                              /\ ran[rank'[t]] = {}
                              /\ ran' = [ran EXCEPT ![rank'[t]] = {t}]
        /\ pc'[t] = "join" => rank' = rank /\ ran' = ran
    BY <1>1, <1>6, NextIsNew
  <2>2. ~Calling(t) /\ (Calling(t)' <=> pc'[t] = "call")
    BY <2>1 DEF Calling
  <2>3. CASE pc'[t] = "join"
    BY <1>4, <1>5, <2>1, <2>2, <2>3, Unseen
  <2>4. CASE pc'[t] = "call"
    <3>1. PICK r \in 0..(workCount - 1) :
            r \in Rank /\ ran[r] = {} /\ r \in Left /\ rank'[t] = r
      BY <2>1, <2>4 DEF Left
    <3>2. /\ \A u \in Thread : u # t => rank'[u] = rank[u]
          /\ \A q \in Rank : ran'[q] = IF q = r THEN {t} ELSE ran[q]
      BY <1>1, <2>1, <2>4, <3>1 DEF Typed
    <3>3. Left' = Left \ {r}
      <4>1. 0..(workCount - 1) \subseteq Rank
        BY <1>1 DEF Typed, Rank
      <4>. QED
        BY <1>4, <3>1, <3>2, <4>1 DEF Left
    <3>4. Running' = Running \cup {r}
      <4>1. {u \in Thread : Calling(u)'} = {u \in Thread : Calling(u)} \cup {t}
        BY <1>5, <2>2, <2>4
      <4>2. \A u \in Thread : Calling(u) => rank'[u] = rank[u]
        BY <2>2, <3>2
      <4>3. ASSUME NEW x PROVE x \in Running' <=> x \in Running \cup {r}
        <5>1. x \in Running' <=> \E u \in Thread : Calling(u)' /\ x = rank'[u]
          BY RunningIs
        <5>2. x \in Running <=> \E u \in Thread : Calling(u) /\ x = rank[u]
          BY RunningIs
        <5>. QED
          BY <3>1, <4>1, <4>2, <5>1, <5>2
      <4>. QED
        BY <4>3
    <3>5. Abstract!Call(r)
      BY <1>4, <3>3, <3>4, AbstractIs
    <3>. QED
      BY <3>1, <3>5, AbstractIs
  <2>. QED
    BY <2>1, <2>3, <2>4
<1>7. CASE BarrierRest(t)
  <2>1. UNCHANGED <<rank, ran>>
    BY <1>7 DEF BarrierRest, Enter, LockWork, UnlockWork, Work, BlockWork, JoinChild, Returned
  <2>2. Calling(t)' => Calling(t)
    BY <1>1, <1>7 DEF BarrierRest, Enter, LockWork, UnlockWork, Work, BlockWork, JoinChild, Go, Typed,
       Again, Calling
  <2>3. CASE Calling(t)' <=> Calling(t)
    BY <1>4, <1>5, <2>1, <2>3, Unseen
  <2>4. CASE Calling(t) /\ ~Calling(t)'
    <3>. DEFINE r == rank[t]
    <3>1. \A u \in Thread : Calling(u) /\ u # t => rank[u] # r
      BY <1>1, <2>4 DEF RanksOK
    <3>2. Running' = Running \ {r} /\ r \in Running
      <4>1. \A x : x \in Running' <=> \E u \in Thread : Calling(u)' /\ x = rank[u]
        BY <2>1, RunningIs
      <4>2. \A x : x \in Running <=> \E u \in Thread : Calling(u) /\ x = rank[u]
        BY RunningIs
      <4>. HIDE DEF r
      <4>3. ASSUME NEW x PROVE x \in Running' <=> x \in Running \ {r}
        BY <1>5, <2>4, <3>1, <4>1, <4>2 DEF r
      <4>. QED
        BY <2>4, <4>2, <4>3 DEF r
    <3>3. Left' = Left
      BY <1>4, <2>1 DEF Left
    <3>. HIDE DEF r
    <3>4. Abstract!Return(r)
      BY <1>4, <3>2, <3>3, AbstractIs
    <3>. QED
      BY <3>2, <3>4, AbstractIs
  <2>. QED
    BY <2>2, <2>3, <2>4
<1>. QED
  BY <1>6, <1>7 DEF BarrierStep, Barrier, CallStep, BarrierRest

(* The master ends a launch, or the pool.                                  *)
LEMMA WaitImplements ==
  ASSUME PlaceInv, CallInv, PlaceInv', WaitReturns
  PROVE  Abstract!Next \/ UNCHANGED Abstract!vars
<1>1. Typed /\ MasterOK
  BY DEF PlaceInv
<1>2. /\ Joined(0) /\ then # "made" /\ then' = "return" /\ routine' = "none" /\ workCount' = 0
      /\ threadCount' = IF routine = "none" THEN 0 ELSE threadCount
  BY DEF WaitReturns
<1>3. Left' = {} /\ Running' = {}
  <2>1. ~Launched' /\ (PlaceInv' => (~Launched => \A t \in Thread : ~Calling(t))')
    <3>1. PlaceInv' => (~Launched => \A t \in Thread : ~Calling(t))'
      BY NoneCalls, PTL
    <3>. QED
      BY <1>2, <3>1 DEF Launched
  <2>2. \A t \in Thread : ~Calling(t)'
    BY <2>1
  <2>. QED
    BY <1>2, <2>2, NothingNext DEF Left
<1>4. CASE routine # "none"
  <2>1. Launched
    BY <1>4 DEF Launched
  <2>2. /\ \A t \in Thread : ~Calling(t)
        /\ \A r \in Rank : ran[r] # {} <=> r < workCount
    BY <1>2, <2>1, AllCalled
  <2>3. Running = {} /\ Left = {}
    <3>1. \A r \in 0..(workCount - 1) : r \in Rank /\ r < workCount
      BY <1>1 DEF Typed, Rank
    <3>. QED
      BY <2>2, <3>1, Nothing DEF Left
  <2>4. Up' = Up
    BY <1>2, <1>4 DEF Up
  <2>5. Abstract!End
    BY <1>2, <1>3, <1>4, <2>3, <2>4, AbstractIs
  <2>. QED
    BY <2>5, AbstractIs
<1>5. CASE routine = "none"
  <2>1. Running = {} /\ Left = {}
    <3>1. ~Launched /\ workCount = 0
      BY <1>1, <1>5 DEF Launched, MasterOK
    <3>2. \A t \in Thread : ~Calling(t)
      BY <3>1, NoneCalls
    <3>. QED
      BY <3>1, <3>2, Nothing DEF Left
  <2>2. ~Up'
    BY <1>2, <1>5 DEF Up
  <2>3. CASE Up
    <3>1. Up' = ~Up
      BY <2>2, <2>3 DEF Up
    <3>2. Abstract!StartOrStop
      BY <1>2, <1>3, <1>5, <2>1, <3>1, AbstractIs
    <3>. QED
      BY <3>2, AbstractIs
  <2>4. CASE ~Up
    <3>1. Up' = Up
      BY <2>2, <2>4 DEF Up
    <3>. QED
      BY <1>2, <1>3, <1>5, <2>1, <3>1, AbstractIs
  <2>. QED
    BY <2>3, <2>4
<1>. QED
  BY <1>4, <1>5

(* The pool is made, or could not be.                                      *)
LEMMA MakingImplements ==
  ASSUME PlaceInv, CallInv, PlaceInv', MasterRest \/ \E n \in PoolSizes : Initialize(n)
  PROVE  Abstract!Next \/ UNCHANGED Abstract!vars
<1>1. Typed /\ MasterOK
  BY DEF PlaceInv
<1>2. /\ ~Launched /\ ~Launched' /\ UNCHANGED <<claim, rank, ran, value, launch>> /\ ~Up
  BY RestAreIdle DEF Up
<1>3. \A t \in Thread : ~Calling(t) /\ ~Calling(t)'
  <2>1. PlaceInv' => (~Launched => \A t \in Thread : ~Calling(t))'
    BY NoneCalls, PTL
  <2>2. \A t \in Thread : ~Calling(t)'
    BY <1>2, <2>1
  <2>. QED
    BY <1>2, <2>2, NoneCalls
<1>4. Running = {} /\ Running' = {} /\ Left' = Left /\ UNCHANGED <<routine, workCount>>
  BY <1>2, <1>3, Nothing, NothingNext DEF Left, launch
<1>5. CASE ~Up'
  BY <1>2, <1>3, <1>4, <1>5, Unseen
<1>6. CASE Up'
  <2>1. Up' = ~Up
    BY <1>2, <1>6 DEF Up
  <2>2. Abstract!StartOrStop
    BY <1>2, <1>4, <2>1, AbstractIs DEF Launched
  <2>. QED
    BY <2>2, AbstractIs
<1>. QED
  BY <1>5, <1>6

(* Every step of TPI is a step of WorkPool, or is not seen by it.          *)
LEMMA StepsImplement ==
  PlaceInv /\ CallInv /\ PlaceInv' /\ [Next]_vars => [Abstract!Next]_(Abstract!vars)
<1>1. ASSUME PlaceInv, CallInv, PlaceInv', Next PROVE Abstract!Next \/ UNCHANGED Abstract!vars
  <2>1. Typed /\ MasterOK /\ 0 \in Thread
    BY <1>1, Numbers DEF PlaceInv
  <2>2. CASE Starts
    BY <1>1, <2>2, StartsImplement, AbstractIs
  <2>3. CASE Wait \/ Unblock \/ Activate
    <3>1. UNCHANGED <<threadCount, launch, then, rank, ran>>
      BY <2>3 DEF Wait, Unblock, Activate, Same
    <3>2. /\ pc[0] \in {"idle", "start"} /\ pc'[0] \in {"enter", "idle", "start"}
          /\ \A t \in Worker : pc'[t] = pc[t]
      BY <2>1, <2>3 DEF Wait, Unblock, Activate, Go, Typed, Worker, MasterOK
    <3>3. \A t \in Thread : Calling(t)' <=> Calling(t)
      BY <3>2 DEF Calling, Worker
    <3>4. Up' <=> Up
      BY <3>1 DEF Up
    <3>. QED
      BY <3>1, <3>3, <3>4, Unseen DEF launch
  <2>4. CASE WaitReturns
    BY <1>1, <2>4, WaitImplements
  <2>5. CASE MasterRest \/ \E n \in PoolSizes : Initialize(n)
    BY <1>1, <2>5, MakingImplements
  <2>6. ASSUME NEW t \in Thread, BarrierStep(t) PROVE Abstract!Next \/ UNCHANGED Abstract!vars
    BY <1>1, <2>6, BarrierImplements
  <2>7. ASSUME NEW t \in Worker, Lower(t) \/ Wake(t) PROVE UNCHANGED Abstract!vars
    <3>1. UNCHANGED <<threadCount, launch, then, rank, ran>>
      BY <2>7 DEF Lower, Wake, Idle, Same
    <3>2. /\ pc[t] \in {"join", "spin"} /\ pc'[t] \in {"off", "spin", "enter"} /\ t \in Thread
          /\ \A u \in Thread : u # t => pc'[u] = pc[u]
      BY <2>1, <2>7 DEF Lower, Wake, Go, Typed, Worker, Put, Joined
    <3>3. \A u \in Thread : Calling(u)' <=> Calling(u)
      BY <3>2 DEF Calling
    <3>4. Up' <=> Up
      BY <3>1 DEF Up
    <3>. QED
      BY <3>1, <3>3, <3>4, Unseen DEF launch
  <2>. QED
    BY <1>1, <2>2, <2>3, <2>4, <2>5, <2>6, <2>7, Steps, CallsStart DEF MasterRest
<1>2. ASSUME UNCHANGED vars PROVE UNCHANGED Abstract!vars
  BY <1>2, Unseen DEF vars, launch, Up, Calling
<1>. QED
  BY <1>1, <1>2

(* The pool makes every call of a launch once, says that a launch is over  *)
(* when all of its calls have returned, and starts and stops idle.         *)
THEOREM ImplementsWorkPool == Spec => IsWorkPool
<1>. QED
  BY AbstractBegins, StepsImplement, CallsInPlace, PTL DEF Spec, IsWorkPool, Abstract!Spec
=============================================================================
