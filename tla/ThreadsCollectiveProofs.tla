---------------------- MODULE ThreadsCollectiveProofs ----------------------
(***************************************************************************)
(* Proofs about ThreadsCollective, for every pool and all programs of      *)
(* collectives: nobody leaves a collective before everybody has entered    *)
(* it, functors run only in active threads, and the root leaves last; and  *)
(* where the programs keep a scan_large apart from earlier scans, every    *)
(* collective gives every thread the contributions it should.              *)
(***************************************************************************)
EXTENDS ThreadsCollective, ArithmeticProofs

USE MaxThreadsAssumption
USE DEF Entry, Pool
-----------------------------------------------------------------------------
(* How far a thread is: the collectives it has fanned in for, was let out  *)
(* of, and of a scan_large, was called to copy the scan in, and has.       *)
Gathering == {"wait", "work", "fan_in", "join"}
Fanned(e) == IF pc[e] \in Gathering THEN at[e] - 1 ELSE at[e]

IsGranted(e) == \/ pc[e] = "release"
                \/ pc[e] = "met" /\ state[e] # "Rendezvous"
                \/ pc[e] = "completed" /\ state[e] # "ScanCompleted"
Granted(e) == IF IsGranted(e) THEN at[e] ELSE at[e] - 1

IsCalled(e) == \/ pc[e] \in {"collect", "collected", "complete", "completed", "release"}
               \/ pc[e] = "available" /\ state[e] = "Rendezvous"
Called(e) == IF IsCalled(e) THEN at[e] ELSE at[e] - 1

CopiedTo(e) == IF pc[e] \in {"completed", "release"} THEN at[e] ELSE at[e] - 1

Fan(e) == 0..(Fans(e) - 1)
ByRoot(k) == program[k] \in {"barrier", "all_reduce"}
-----------------------------------------------------------------------------
(* The inductive invariant                                                 *)

Typed ==
  /\ size \in 1..MaxThreads /\ program \in Programs[size] /\ mi \in 0..size
  /\ state \in [Entry -> PoolState]
  /\ pc \in [Entry -> ThreadLabel]
  /\ at \in [Entry -> 1..Len(program)]
  /\ wi \in [Entry -> 0..size]

(* What the label of a thread says of its word and its collective          *)
HereAt(e) ==
  /\ pc[e] = "wait" => at[e] = 1 /\ state[e] = (IF e < mi THEN "Inactive" ELSE "Active")
  /\ e < mi => pc[e] = "wait"
  /\ pc[e] \in {"work", "fan_in", "join", "release"} => state[e] = "Active"
  /\ pc[e] = "join" => Call(e) \in {"reduce", "scan_large"} /\ wi[e] < Fans(e)
  /\ pc[e] = "met" => e # 0 /\ Call(e) \in Simple /\ state[e] \in {"Rendezvous", "Active"}
  /\ pc[e] = "release" => Call(e) \in Collective
  /\ pc[e] \in {"next_reduced", "next_scanned", "next_join", "scanned"} =>
       e # 0 /\ Call(e) = "scan_large" /\ state[e] = "ReductionAvailable"
  /\ pc[e] = "available" =>
       e # 0 /\ Call(e) = "scan_large" /\ state[e] \in {"ScanAvailable", "Rendezvous"}
  /\ pc[e] \in {"collect", "collected", "complete"} =>
       Call(e) = "scan_large" /\ state[e] = (IF e = 0 THEN "Active" ELSE "Rendezvous")
  /\ pc[e] = "collected" => wi[e] < Fans(e)
  /\ pc[e] = "completed" =>
       e # 0 /\ Call(e) = "scan_large" /\ state[e] \in {"ScanCompleted", "Active"}
  /\ pc[e] = "done" => Call(e) \in Ending /\ state[e] = "Inactive"

Here == \A e \in Pool : HereAt(e)

(* Who has fanned in has waited for its subtree, and who is about to for   *)
(* the subtrees of its first children.                                     *)
Awaited(e, i) == i < wi[e] \/ (pc[e] = "join" /\ i = wi[e])
TreeFanned ==
  \A e \in Pool : \A d \in Subtree(e, size) : Fanned(d) >= Fanned(e)
ChildrenFanned ==
  \A e \in Pool : pc[e] \in {"fan_in", "join"} => \A i \in Fan(e) :
    Awaited(e, i) => \A d \in Subtree(FanChild(e, i), size) : Fanned(d) >= at[e]

(* Who lets whom out: the root everybody, by rank, or the parents.         *)
GrantedByRoot ==
  \A k \in 1..Len(program) : ByRoot(k) =>
    \A d \in Pool \ {0} : Granted(d) >= k <=>
      \/ at[0] > k
      \/ at[0] = k /\ pc[0] = "release" /\ d > size - 1 - wi[0]
GrantedByParent ==
  \A k \in 1..Len(program) : ~ByRoot(k) =>
    \A e \in Pool : \A i \in Fan(e) : Granted(FanChild(e, i)) >= k <=>
      \/ at[e] > k
      \/ at[e] = k /\ pc[e] = "release" /\ wi[e] > i
GrantedLast == \A e \in Pool : Granted(e) <= Granted(0)

(* The way down the tree of a scan_large                                   *)
CalledByParent ==
  \A k \in 1..Len(program) : program[k] = "scan_large" =>
    \A e \in Pool : \A i \in Fan(e) : Called(FanChild(e, i)) >= k <=>
      \/ at[e] > k
      \/ at[e] = k /\ \/ pc[e] \in {"complete", "completed", "release"}
                      \/ pc[e] \in {"collect", "collected"} /\ wi[e] > i
AvailableNow ==
  \A e \in Pool : pc[e] = "collected" => state[FanChild(e, wi[e])] = "ScanAvailable"
CopiedFirst ==
  \A e \in Pool : Call(e) = "scan_large" => \A i \in Fan(e) :
    \/ pc[e] \in {"completed", "release"}
    \/ pc[e] = "complete" /\ wi[e] > i
    => CopiedTo(FanChild(e, i)) >= at[e]

Tree == TreeFanned /\ ChildrenFanned
Grants == GrantedByRoot /\ GrantedByParent /\ GrantedLast
Scans == CalledByParent /\ AvailableNow /\ CopiedFirst
Control == Typed /\ Here /\ Tree /\ Grants /\ Scans
-----------------------------------------------------------------------------
(* The fan-in tree                                                         *)

(* The entries of the pool, and what e has below it                        *)
LEMMA PoolTree ==
  ASSUME Typed
  PROVE  /\ size \in Nat \ {0} /\ 0 \in Pool /\ \A e \in Pool : e \in Entry /\ e \in Int /\ e >= 0
         /\ Subtree(0, size) = Pool
         /\ \A e \in Pool :
              /\ Fans(e) \in 0..size
              /\ e \in Subtree(e, size)
              /\ \A i \in Fan(e) :
                   /\ i \in Int /\ FanChild(e, i) \in Pool /\ e < FanChild(e, i)
                   /\ FanChild(e, i) \in Subtree(FanChild(e, i), size)
              /\ \A d \in Subtree(e, size) : d \in Pool /\
                   (d = e \/ \E i \in Fan(e) : d \in Subtree(FanChild(e, i), size))
<1>1. size \in Nat \ {0} /\ size \in 1..MaxThreads
  BY DEF Typed
<1>2. Pool = Entries(size)
  OBVIOUS
<1>3. \A e : Fans(e) = FanCount(e, size) /\ Fan(e) = 0..(FanCount(e, size) - 1)
  BY DEF Fans, Fan
<1>4. size \in Nat \ {0} /\ 0 \in Pool /\ \A e \in Pool : e \in Entry /\ e \in Int /\ e >= 0
  BY <1>1 DEF Entries
<1>. QED
  BY <1>1, <1>2, <1>3, <1>4, FanTreeFacts

(* A program is a sequence of collectives with one ending, at its end.     *)
LEMMA ProgramFacts ==
  ASSUME Typed
  PROVE  /\ Len(program) \in Nat \ {0} /\ program \in Seq(Collective \cup Ending)
         /\ \A k \in 1..Len(program) :
              /\ program[k] \in Ending <=> k = Len(program)
              /\ program[k] \in Collective <=> k < Len(program)
<1>1. /\ program \in Seq(Collective \cup Ending) /\ program # <<>>
      /\ \A k \in 1..Len(program) : program[k] \in Ending <=> k = Len(program)
  BY ProgramsAssumption DEF Typed
<1>2. Len(program) \in Nat \ {0}
  BY <1>1
<1>3. \A k \in 1..Len(program) : program[k] \in Collective \cup Ending
  BY <1>1
<1>4. Collective \cap Ending = {}
  BY DEF Collective, Ending
<1>. QED
  BY <1>1, <1>2, <1>3, <1>4

(* The parent of an entry                                                  *)
LEMMA ParentOf ==
  ASSUME Typed, NEW x \in Pool, NEW i \in Fan(x), NEW e \in Pool, NEW j \in Fan(e),
         FanChild(x, i) = FanChild(e, j)
  PROVE  x = e /\ i = j
<1>1. size \in 1..MaxThreads /\ x \in Entries(size) /\ e \in Entries(size)
  BY DEF Typed
<1>2. i \in 0..(FanCount(x, size) - 1) /\ j \in 0..(FanCount(e, size) - 1)
  BY DEF Fan, Fans
<1>. QED
  BY <1>1, <1>2, FanHasOneParent

(* What is below a child is below its parent.                              *)
LEMMA SubtreeOfChild ==
  ASSUME Typed, NEW e \in Pool, NEW i \in Fan(e), NEW d \in Subtree(FanChild(e, i), size)
  PROVE  d \in Subtree(e, size)
<1>1. size \in 1..MaxThreads /\ e \in Entries(size) /\ i \in 0..(FanCount(e, size) - 1)
  BY DEF Typed, Fan, Fans
<1>. QED
  BY <1>1, FanInIsATree DEF IsFanTree, SubtreesNest

(* One thread                                                              *)
LEMMA ThreadTypes ==
  ASSUME Typed, NEW e \in Pool
  PROVE  /\ at[e] \in 1..Len(program) /\ wi[e] \in Nat /\ wi[e] <= size
         /\ state[e] \in PoolState /\ pc[e] \in ThreadLabel /\ at[e] \in Nat
         /\ at[e] >= 1
BY PoolTree, ProgramFacts DEF Typed

-----------------------------------------------------------------------------
(* Types                                                                   *)

(* Types to begin with                                                     *)
LEMMA TypedInit == Init => Typed
<1>1. SUFFICES ASSUME Init PROVE Typed
  OBVIOUS
<1>2. size \in 1..MaxThreads /\ program \in Programs[size]
  BY <1>1 DEF Init
<1>3. program \in Seq(Collective \cup Ending) /\ program # <<>>
  BY <1>2, ProgramsAssumption
<1>4. 1 \in 1..Len(program)
  BY <1>3
<1>5. "Inactive" \in PoolState /\ "wait" \in ThreadLabel
  BY DEF PoolState, ThreadLabel
<1>. QED
  BY <1>1, <1>2, <1>4, <1>5 DEF Init, Typed

(* The labels and states by name, for the provers                          *)
LEMMA Labels ==
  /\ {"wait", "work", "fan_in", "join", "met", "release", "next_reduced", "next_scanned",
      "next_join", "scanned", "available", "collect", "collected", "complete", "completed",
      "done"} \subseteq ThreadLabel
  /\ {"Inactive", "Active", "Rendezvous", "ScanCompleted", "ScanAvailable",
      "ReductionAvailable"} \subseteq PoolState
BY DEF ThreadLabel, PoolState

(* No step of a thread leaves the types.                                   *)
LEMMA TypedThread ==
  ASSUME Typed, Here, NEW e \in Pool, Thread(e)
  PROVE  Typed'
<1>1. /\ e \in Entry /\ Fans(e) \in 0..size /\ size \in Nat /\ wi[e] \in 0..size
      /\ at[e] \in 1..Len(program) /\ Len(program) \in Nat
  BY PoolTree, ThreadTypes, ProgramFacts DEF Typed
<1>2. /\ Fans(e) <= size /\ 0 \in 0..size
      /\ wi[e] < Fans(e) => wi[e] + 1 \in 0..size
      /\ wi[e] < size => wi[e] + 1 \in 0..size
  BY <1>1
<1>. USE Labels, <1>1, <1>2
<1>3. ASSUME FanInStep(e) PROVE Typed'
  <2>1. CASE Arrive(e)
    BY <2>1 DEF Typed, Arrive, Go, Loop, launch
  <2>2. CASE FanIn(e)
    BY <2>2 DEF Typed, FanIn, Go, Loop, launch
  <2>3. CASE Join(e)
    <3>1. wi[e] < Fans(e)
      BY <2>3 DEF Join, Go, Here, HereAt
    <3>. QED
      BY <2>3, <3>1 DEF Typed, Join, Go, Loop, launch
  <2>4. CASE Deactivate(e)
    BY <2>4 DEF Typed, Deactivate, Go, Set, launch
  <2>. QED
    BY <1>3, <2>1, <2>2, <2>3, <2>4 DEF FanInStep
<1>4. ASSUME MeetStep(e) PROVE Typed'
  <2>1. CASE Meet(e)
    BY <2>1 DEF Typed, Meet, Go, Set, launch
  <2>2. CASE e = 0 /\ RootComputes
    BY <2>2 DEF Typed, RootComputes, Go, Loop, launch
  <2>3. CASE Resume(e)
    BY <2>3 DEF Typed, Resume, Go, Loop, launch
  <2>4. CASE Release(e)
    <3>1. Releases(e) \in {0, size, Fans(e)}
      BY DEF Releases
    <3>2. wi[e] + 1 \in 0..size
      BY <2>4, <3>1 DEF Release
    <3>. QED
      BY <2>4, <3>2 DEF Typed, Release, Set, Loop, launch
  <2>5. CASE Return(e)
    <3>1. at[e] + 1 \in 1..Len(program)
      BY <2>5, ProgramFacts DEF Return, Go, Here, HereAt, Call
    <3>. QED
      BY <2>5, <3>1 DEF Typed, Return, Go, launch
  <2>. QED
    BY <1>4, <2>1, <2>2, <2>3, <2>4, <2>5 DEF MeetStep
<1>5. ASSUME ScanStep(e) PROVE Typed'
  <2>1. CASE Reduced(e)
    <3>1. CASE e = 0
      BY <2>1, <3>1 DEF Typed, Reduced, Go, Loop, launch
    <3>2. CASE e # 0
      BY <2>1, <3>2 DEF Typed, Reduced, Go, Set, launch
    <3>. QED
      BY <3>1, <3>2
  <2>2. CASE NextReduced(e) \/ NextScanned(e) \/ JoinNext(e)
    BY <2>2 DEF Typed, NextReduced, NextScanned, JoinNext, Go, launch
  <2>3. CASE ScanAvailable(e)
    BY <2>3 DEF Typed, ScanAvailable, Go, Set, launch
  <2>4. CASE ScanResume(e) \/ CopyScan(e)
    <3>1. CASE ScanResume(e)
      BY <3>1 DEF Typed, ScanResume, Go, Loop, launch
    <3>2. CASE CopyScan(e)
      BY <3>2 DEF Typed, CopyScan, Go, Loop, launch
    <3>. QED
      BY <2>4, <3>1, <3>2
  <2>5. CASE Collect(e)
    BY <2>5 DEF Typed, Collect, Go, launch
  <2>6. CASE Collected(e)
    <3>1. wi[e] < Fans(e)
      BY <2>6 DEF Collected, Go, Here, HereAt
    <3>. QED
      BY <2>6, <3>1 DEF Typed, Collected, Go, Set, Loop, launch
  <2>7. CASE Complete(e)
    BY <2>7 DEF Typed, Complete, Loop, launch
  <2>8. CASE Completed(e)
    BY <2>8 DEF Typed, Completed, Go, Set, Loop, launch
  <2>. QED
    BY <1>5, <2>1, <2>2, <2>3, <2>4, <2>5, <2>6, <2>7, <2>8 DEF ScanStep
<1>6. CASE Begin(e)
  BY <1>6 DEF Typed, Begin, Go, launch
<1>. QED
  BY <1>3, <1>4, <1>5, <1>6 DEF Thread

(* Nor does any other step.                                                *)
LEMMA TypedNext == ASSUME Typed, Here, [Next]_vars PROVE Typed'
<1>1. CASE Activate
  <2>1. mi - 1 \in 0..size
    BY <1>1 DEF Activate, Typed
  <2>. QED
    BY <1>1, <2>1, Labels DEF Activate, ActivatedByRank, Set, Typed
<1>2. CASE UNCHANGED vars
  BY <1>2 DEF vars, Typed
<1>. QED
  BY <1>1, <1>2, TypedThread DEF Next
-----------------------------------------------------------------------------
(* How far the threads are from each other                                 *)

(* A thread is in one collective, and has or has not got so far in it.     *)
LEMMA Bounds ==
  ASSUME Typed, NEW e \in Pool
  PROVE  /\ Fanned(e) \in {at[e] - 1, at[e]} /\ Granted(e) \in {at[e] - 1, at[e]}
         /\ Called(e) \in {at[e] - 1, at[e]} /\ CopiedTo(e) \in {at[e] - 1, at[e]}
         /\ Fanned(e) \in Nat /\ Granted(e) \in Nat /\ Called(e) \in Nat /\ CopiedTo(e) \in Nat
         /\ Granted(e) <= Fanned(e) /\ Called(e) <= Fanned(e)
         /\ IsGranted(e) <=> Granted(e) = at[e]
         /\ pc[e] \in Gathering <=> Fanned(e) # at[e]
BY ThreadTypes DEF Fanned, Granted, Called, CopiedTo, IsGranted, IsCalled, Gathering

(* Nobody is let out of a collective the root has not fanned in for, nor   *)
(* has the root before everybody has.                                      *)
LEMMA Behind ==
  ASSUME Typed, TreeFanned, GrantedLast, NEW e \in Pool
  PROVE  Granted(e) <= Fanned(0) /\ Fanned(0) <= Fanned(e) /\ Granted(e) <= Granted(0)
<1>1. 0 \in Pool /\ Subtree(0, size) = Pool
  BY PoolTree
<1>2. Fanned(0) <= Fanned(e)
  BY <1>1, Bounds DEF TreeFanned
<1>3. Granted(e) <= Granted(0)
  BY DEF GrantedLast
<1>4. Granted(0) <= Fanned(0)
  BY <1>1, Bounds
<1>. QED
  BY <1>1, <1>2, <1>3, <1>4, Bounds

(* A child has been let out of what its parent is out of.                  *)
LEMMA ChildOut ==
  ASSUME Typed, Grants, NEW e \in Pool, NEW i \in Fan(e)
  PROVE  Granted(FanChild(e, i)) >= at[e] - 1
<1>. DEFINE c == FanChild(e, i)
            k == at[e] - 1
<1>1. c \in Pool /\ e < c /\ e \in Int /\ e >= 0 /\ c \in Int /\ 0 \in Pool /\ size \in Nat
  BY PoolTree
<1>2. at[e] \in Nat /\ at[e] <= Len(program) /\ Len(program) \in Nat /\ at[c] \in Nat
      /\ at[c] >= 1 /\ at[e] >= 1 /\ at[0] \in Nat /\ wi[0] \in Nat
  BY <1>1, ThreadTypes, ProgramFacts
<1>3. Granted(c) \in Nat /\ Granted(c) >= at[c] - 1 /\ Granted(e) \in Nat /\ Granted(e) >= k
  <2>1. \A d \in Pool : Granted(d) \in Nat /\ (Granted(d) = at[d] - 1 \/ Granted(d) = at[d])
    BY Bounds
  <2>. HIDE DEF c
  <2>2. c \in Pool /\ e \in Pool
    BY <1>1
  <2>3. Granted(c) \in Nat /\ (Granted(c) = at[c] - 1 \/ Granted(c) = at[c])
    BY <2>1, <2>2
  <2>4. Granted(e) \in Nat /\ (Granted(e) = at[e] - 1 \/ Granted(e) = at[e])
    BY <2>1, <2>2
  <2>. QED
    BY <1>2, <2>3, <2>4
<1>. HIDE DEF c
<1>4. CASE k = 0
  BY <1>3, <1>4 DEF c
<1>5. CASE k > 0
  <2>1. k \in 1..Len(program) /\ at[e] > k
    BY <1>2, <1>5
  <2>2. CASE ~ByRoot(k)
    BY <2>1, <2>2 DEF Grants, GrantedByParent, c
  <2>3. CASE ByRoot(k)
    <3>1. CASE e = 0
      BY <1>1, <2>1, <2>3, <3>1 DEF Grants, GrantedByRoot, c
    <3>2. CASE e # 0
      <4>1. \/ at[0] > k
            \/ at[0] = k /\ pc[0] = "release" /\ e > size - 1 - wi[0]
        BY <1>1, <1>3, <2>1, <2>3, <3>2 DEF Grants, GrantedByRoot
      <4>2. e > size - 1 - wi[0] => c > size - 1 - wi[0]
        BY <1>1, <1>2
      <4>3. Granted(c) >= k
        BY <1>1, <2>1, <2>3, <4>1, <4>2 DEF Grants, GrantedByRoot
      <4>. QED
        BY <4>3 DEF c
    <3>. QED
      BY <3>1, <3>2
  <2>. QED
    BY <2>2, <2>3
<1>. QED
  BY <1>2, <1>4, <1>5

(* A child that has not been let out of the collective its parent has      *)
(* fanned in for is in that collective, and has fanned in for it too.      *)
LEMMA ChildIn ==
  ASSUME Typed, Tree, NEW e \in Pool, pc[e] \notin Gathering, NEW d \in Pool,
         d \in Subtree(e, size), Granted(d) < at[e]
  PROVE  at[d] = at[e] /\ pc[d] \notin Gathering /\ ~IsGranted(d)
<1>2. Fanned(e) = at[e] /\ Fanned(d) >= Fanned(e)
  BY Bounds DEF Tree, TreeFanned
<1>3. /\ Fanned(d) \in Nat /\ Granted(d) \in Nat
      /\ Granted(d) \in {at[d] - 1, at[d]} /\ Fanned(d) \in {at[d] - 1, at[d]}
      /\ IsGranted(d) <=> Granted(d) = at[d]
      /\ pc[d] \in Gathering <=> Fanned(d) # at[d]
  BY Bounds
<1>4. at[d] \in Nat /\ at[e] \in Nat
  BY ThreadTypes
<1>. QED
  BY <1>2, <1>3, <1>4

(* What the labels allow a thread that is not let out                      *)
LEMMA NotOut ==
  ASSUME Typed, Here, NEW d \in Pool, pc[d] \notin Gathering, ~IsGranted(d), d # 0
  PROVE  /\ Call(d) \in Simple => pc[d] = "met" /\ state[d] = "Rendezvous"
         /\ CopiedTo(d) >= at[d] => pc[d] = "completed" /\ state[d] = "ScanCompleted"
         /\ Call(d) = "scan_large" => pc[d] \notin {"met", "done"}
<1>1. pc[d] \in ThreadLabel /\ state[d] \in PoolState /\ at[d] \in Nat
  BY ThreadTypes
<1>2. HereAt(d)
  BY DEF Here
<1>3. Simple \cap Ending = {} /\ "scan_large" \notin Simple /\ "scan_large" \notin Ending
  BY DEF Simple, Ending
<1>. QED
  BY <1>1, <1>2, <1>3 DEF HereAt, IsGranted, Gathering, CopiedTo, ThreadLabel
-----------------------------------------------------------------------------
(* Whose word a step sets                                                  *)

(* start activates a thread that waits for it.                             *)
LEMMA ActivateTarget ==
  ASSUME Typed, Here, Activate
  PROVE  /\ ActivatedByRank \in Pool /\ pc[ActivatedByRank] = "wait"
         /\ state[ActivatedByRank] = "Inactive" /\ ActivatedByRank = mi - 1
<1>1. mi - 1 \in Pool /\ mi - 1 < mi
  BY PoolTree DEF Typed, Activate, Entries
<1>. QED
  BY <1>1 DEF Here, HereAt, ActivatedByRank

(* A release is for a thread that waits for it, or for the root itself.    *)
LEMMA ReleaseTarget ==
  ASSUME Control, NEW e \in Pool, Release(e)
  PROVE  LET d == ReleasesByRank(e, wi[e])
         IN  /\ d \in Pool /\ at[d] = at[e]
             /\ RootReleasesAll(e) => e = 0 /\ d = size - 1 - wi[0]
             /\ ~RootReleasesAll(e) => wi[e] \in Fan(e) /\ d = FanChild(e, wi[e]) /\ e < d
             /\ \/ d = 0 /\ e = 0 /\ RootReleasesAll(e)
                \/ /\ d # 0 /\ ~IsGranted(d)
                   /\ \/ pc[d] = "met" /\ state[d] = "Rendezvous"
                      \/ pc[d] = "completed" /\ state[d] = "ScanCompleted"
<1>. DEFINE d == ReleasesByRank(e, wi[e])
<1>1. Typed /\ Here /\ Tree /\ Grants /\ Scans
  BY DEF Control
<1>2. /\ e \in Int /\ e >= 0 /\ wi[e] \in Nat /\ at[e] \in Nat /\ size \in Nat \ {0} /\ 0 \in Pool
      /\ Fans(e) \in Nat /\ at[e] \in 1..Len(program)
  BY <1>1, PoolTree, ThreadTypes, ProgramFacts
<1>3. pc[e] = "release" /\ wi[e] < Releases(e) /\ Call(e) \in Collective
  BY <1>1 DEF Release, Here, HereAt
<1>4. Fanned(e) = at[e] /\ Granted(e) = at[e] /\ pc[e] \notin Gathering
  BY <1>3 DEF Fanned, Granted, IsGranted, Gathering
<1>5. CASE RootReleasesAll(e)
  <2>1. e = 0 /\ wi[e] < size /\ ByRoot(at[e])
    BY <1>2, <1>3, <1>5 DEF Releases, RootReleasesAll, ByRoot, Call
  <2>2. d = size - 1 - wi[0] /\ d \in Pool
    BY <1>2, <1>5, <2>1 DEF ReleasesByRank, Entries
  <2>3. CASE d = 0
    BY <1>5, <2>1, <2>2, <2>3
  <2>4. CASE d # 0
    <3>0. Subtree(0, size) = Pool
      BY <1>1, PoolTree
    <3>1. ~(Granted(d) >= at[0])
      BY <1>1, <1>2, <2>1, <2>2, <2>4 DEF Grants, GrantedByRoot
    <3>2. at[d] = at[e] /\ pc[d] \notin Gathering /\ ~IsGranted(d)
      <4>1. Granted(d) \in Nat
        BY <1>1, <2>2, Bounds
      <4>2. Granted(d) < at[e]
        BY <1>2, <2>1, <3>1, <4>1
      <4>3. d \in Subtree(e, size)
        BY <2>1, <2>2, <3>0
      <4>. QED
        BY <1>1, <1>4, <2>2, <4>2, <4>3, ChildIn
    <3>3. Call(d) \in Simple
      BY <1>5, <3>2 DEF RootReleasesAll, Call, Simple
    <3>. QED
      BY <1>1, <1>5, <2>1, <2>2, <2>4, <3>2, <3>3, NotOut
  <2>. QED
    BY <2>3, <2>4
<1>6. CASE ~RootReleasesAll(e)
  <2>1. wi[e] < Fans(e) /\ ~ByRoot(at[e]) /\ wi[e] \in Fan(e)
    BY <1>2, <1>3, <1>6 DEF Releases, RootReleasesAll, ByRoot, Call, Fan
  <2>2. d = FanChild(e, wi[e]) /\ d \in Pool /\ e < d /\ d \in Int /\ d \in Subtree(e, size)
    <3>1. d = FanChild(e, wi[e])
      BY <1>6 DEF ReleasesByRank
    <3>2. d \in Pool /\ e < d /\ d \in Subtree(d, size) /\ d \in Int
      BY <1>1, <2>1, <3>1, PoolTree
    <3>3. d \in Subtree(e, size)
      BY <1>1, <2>1, <3>1, <3>2, SubtreeOfChild
    <3>. QED
      BY <3>1, <3>2, <3>3
  <2>3. ~(Granted(d) >= at[e])
    BY <1>1, <1>2, <2>1, <2>2 DEF Grants, GrantedByParent
  <2>4. at[d] = at[e] /\ pc[d] \notin Gathering /\ ~IsGranted(d)
    <3>0. Granted(d) \in Nat
      BY <1>1, <2>2, Bounds
    <3>1. Granted(d) < at[e]
      BY <1>2, <2>3, <3>0
    <3>. HIDE DEF d
    <3>. QED
      BY <1>1, <1>4, <2>2, <3>1, ChildIn
  <2>5. Call(d) = Call(e) /\ d # 0
    BY <1>2, <2>2, <2>4 DEF Call
  <2>6. Call(e) \in Simple \/ Call(e) = "scan_large"
    BY <1>3 DEF Collective, Simple
  <2>7. ASSUME Call(e) = "scan_large" PROVE CopiedTo(d) >= at[e]
    BY <1>1, <1>3, <2>1, <2>2, <2>7 DEF Scans, CopiedFirst
  <2>. QED
    BY <1>1, <1>6, <2>1, <2>2, <2>4, <2>5, <2>6, <2>7, NotOut
<1>. QED
  BY <1>5, <1>6

(* A parent calls on a child that waits for it.                            *)
LEMMA CollectedTarget ==
  ASSUME Control, NEW e \in Pool, Collected(e)
  PROVE  /\ wi[e] \in Fan(e) /\ Child(e) = FanChild(e, wi[e]) /\ e < Child(e)
         /\ Child(e) \in Pool /\ Child(e) # 0 /\ at[Child(e)] = at[e]
         /\ pc[Child(e)] = "available" /\ state[Child(e)] = "ScanAvailable"
<1>1. Typed /\ Here /\ Tree /\ Grants /\ Scans
  BY DEF Control
<1>2. pc[e] = "collected" /\ wi[e] < Fans(e) /\ Call(e) = "scan_large"
  BY <1>1 DEF Collected, Go, Here, HereAt
<1>3. wi[e] \in Fan(e) /\ Child(e) = FanChild(e, wi[e])
  BY <1>1, <1>2, ThreadTypes, PoolTree DEF Fan, Child
<1>4. /\ e < Child(e) /\ Child(e) \in Pool /\ Child(e) # 0 /\ Child(e) \in Subtree(e, size)
  BY <1>1, <1>3, PoolTree, SubtreeOfChild
<1>5. state[Child(e)] = "ScanAvailable"
  BY <1>1, <1>2, <1>3 DEF Scans, AvailableNow
<1>6. pc[Child(e)] = "available"
  BY <1>1, <1>4, <1>5, ThreadTypes DEF Here, HereAt, ThreadLabel
<1>7. ~(Granted(Child(e)) >= at[e])
  <2>1. at[e] \in 1..Len(program) /\ ~ByRoot(at[e])
    BY <1>1, <1>2, ThreadTypes DEF ByRoot, Call
  <2>. QED
    BY <1>1, <1>2, <1>3, <2>1, ThreadTypes DEF Grants, GrantedByParent
<1>8. at[Child(e)] = at[e]
  <2>1. Granted(Child(e)) \in Nat /\ at[e] \in Nat
    BY <1>1, <1>4, Bounds, ThreadTypes
  <2>2. Granted(Child(e)) < at[e]
    BY <1>7, <2>1
  <2>3. pc[e] \notin Gathering
    BY <1>2 DEF Gathering
  <2>. QED
    BY <1>1, <1>4, <2>2, <2>3, ChildIn
<1>. QED
  BY <1>3, <1>4, <1>5, <1>6, <1>8
-----------------------------------------------------------------------------
(* What a step changes                                                     *)

Same(d) == pc'[d] = pc[d] /\ at'[d] = at[d] /\ wi'[d] = wi[d] /\ state'[d] = state[d]
Frame == size' = size /\ program' = program /\ mi' = mi

Sets(e) == Release(e) \/ Collected(e)

(* But for these two, a step changes nothing of another thread.            *)
LEMMA Others ==
  ASSUME Typed, NEW e \in Pool, Thread(e), ~Sets(e)
  PROVE  Frame /\ \A d \in Pool : d # e => Same(d)
<1>1. Frame
  BY DEF Thread, Begin, FanInStep, Arrive, FanIn, Join, Deactivate, MeetStep, Meet,
         RootComputes, Resume, Release, Return, ScanStep, Reduced, NextReduced, NextScanned,
         JoinNext, ScanAvailable, ScanResume, Collect, Collected, CopyScan, Complete,
         Completed, launch, Frame
<1>2. ASSUME NEW d \in Pool, d # e PROVE Same(d)
  <2>1. d \in Entry /\ e \in Entry
    BY PoolTree
  <2>2. CASE Begin(e) \/ FanInStep(e)
    BY <1>2, <2>1, <2>2 DEF Begin, FanInStep, Arrive, FanIn, Join, Deactivate, Go, Set, Loop,
                            Same, Typed, launch
  <2>3. CASE Meet(e) \/ Resume(e) \/ Return(e)
    BY <1>2, <2>1, <2>3 DEF Meet, Resume, Return, Go, Set, Loop, Same, Typed, launch
  <2>6. CASE e = 0 /\ RootComputes
    <3>1. /\ pc' = [pc EXCEPT ![0] = "release"] /\ wi' = [wi EXCEPT ![0] = 0]
          /\ state' = state /\ at' = at
      BY <2>6 DEF RootComputes, Go, Loop
    <3>. QED
      BY <1>2, <2>1, <2>6, <3>1 DEF Same, Typed
  <2>4. CASE Reduced(e) \/ NextReduced(e) \/ NextScanned(e) \/ JoinNext(e) \/ ScanAvailable(e)
    BY <1>2, <2>1, <2>4 DEF Reduced, NextReduced, NextScanned, JoinNext, ScanAvailable, Go,
                            Set, Loop, Same, Typed, launch
  <2>5. CASE ScanResume(e) \/ Collect(e) \/ CopyScan(e) \/ Complete(e) \/ Completed(e)
    BY <1>2, <2>1, <2>5 DEF ScanResume, Collect, CopyScan, Complete, Completed, Go, Set, Loop,
                            Same, Typed, launch
  <2>. QED
    BY <2>2, <2>3, <2>4, <2>5, <2>6 DEF Thread, MeetStep, ScanStep, Sets
<1>. QED
  BY <1>1, <1>2

(* What start changes                                                      *)
LEMMA ActivateChanges ==
  ASSUME Typed, Here, Activate
  PROVE  /\ size' = size /\ program' = program /\ mi' = mi - 1
         /\ mi - 1 \in Pool /\ state'[mi - 1] = "Active"
         /\ pc' = pc /\ at' = at /\ wi' = wi
         /\ \A d \in Pool : d # mi - 1 => Same(d)
BY ActivateTarget, PoolTree DEF Activate, ActivatedByRank, Set, Same, Typed

(* What a release changes: one word                                        *)
LEMMA ReleaseChanges ==
  ASSUME Control, NEW e \in Pool, Release(e)
  PROVE  /\ Frame /\ pc' = pc /\ at' = at
         /\ wi'[e] = wi[e] + 1 /\ \A d \in Pool : d # e => wi'[d] = wi[d]
         /\ state'[ReleasesByRank(e, wi[e])] = "Active"
         /\ \A d \in Pool : d # ReleasesByRank(e, wi[e]) => state'[d] = state[d]
BY ReleaseTarget, PoolTree DEF Control, Typed, Release, Set, Loop, Frame, launch

(* What calling on a child changes: its word                               *)
LEMMA CollectedChanges ==
  ASSUME Control, NEW e \in Pool, Collected(e)
  PROVE  /\ Frame /\ at' = at
         /\ pc[e] = "collected" /\ pc'[e] = "collect" /\ wi'[e] = wi[e] + 1
         /\ \A d \in Pool : d # e => pc'[d] = pc[d] /\ wi'[d] = wi[d]
         /\ state'[Child(e)] = "Rendezvous"
         /\ \A d \in Pool : d # Child(e) => state'[d] = state[d]
BY CollectedTarget, PoolTree DEF Control, Typed, Collected, Go, Set, Loop, Frame, launch
-----------------------------------------------------------------------------
(* The labels                                                              *)

(* The clauses of a thread that does not move                              *)
LEMMA HereKept ==
  ASSUME NEW d \in Pool, Frame, Same(d), HereAt(d)
  PROVE  HereAt(d)'
BY DEF Frame, Same, HereAt, Fans, Call

(* The labels to begin with                                                *)
LEMMA HereInit == Init => Here
<1>1. SUFFICES ASSUME Init, NEW e \in Pool PROVE HereAt(e)
  BY DEF Here
<1>2. e \in Entry /\ e < mi
  BY <1>1, TypedInit, PoolTree DEF Init, Entries
<1>. QED
  BY <1>1, <1>2 DEF Init, HereAt

(* The labels after start has activated one thread                         *)
LEMMA HereActivate == ASSUME Typed, Here, Activate PROVE Here'
<1>1. ASSUME NEW d \in Pool, d = mi - 1 PROVE HereAt(d)'
  <2>1. pc[d] = "wait" /\ at[d] = 1 /\ d < mi
    BY <1>1, ActivateTarget DEF Here, HereAt, Typed
  <2>2. mi \in Int /\ mi' = mi - 1
    BY ActivateChanges DEF Typed
  <2>. QED
    BY <1>1, <2>1, <2>2, ActivateChanges DEF HereAt
<1>2. ASSUME NEW d \in Pool, d # mi - 1 PROVE HereAt(d)'
  <2>1. HereAt(d)
    BY DEF Here
  <2>2. d < mi <=> d < mi - 1
    BY <1>2, PoolTree DEF Typed
  <2>. QED
    BY <1>2, <2>1, <2>2, ActivateChanges DEF HereAt, Same, Fans, Call
<1>3. Pool' = Pool
  BY ActivateChanges DEF Entries
<1>. QED
  BY <1>1, <1>2, <1>3 DEF Here

(* The label a thread comes to by itself                                   *)
LEMMA HereSelf ==
  ASSUME Control, NEW e \in Pool, Thread(e), ~Sets(e)
  PROVE  HereAt(e)'
<1>1. HereAt(e) /\ e \in Entry /\ e \in Int /\ Typed
  BY PoolTree DEF Control, Here
<1>2. Frame
  BY <1>1, Others
<1>3. wi[e] \in Nat /\ Fans(e) \in Nat /\ at[e] \in Nat /\ (0 < Fans(e) => 0 \in Fan(e)) /\ mi \in Int
  BY <1>1, ThreadTypes, PoolTree DEF Fan, Typed
<1>4. Simple \cap Ending = {} /\ Simple \subseteq Collective /\ "scan_large" \in Collective
  BY DEF Simple, Ending, Collective
<1>. USE <1>1, <1>2, <1>3, <1>4
<1>5. CASE Begin(e)
  BY <1>5 DEF Begin, HereAt, Go, Typed, Frame, Fans, Call, PoolState
<1>6. CASE Arrive(e)
  BY <1>6 DEF Arrive, HereAt, Go, Loop, Typed, Frame, Fans, Call
<1>7. CASE FanIn(e)
  BY <1>7 DEF FanIn, HereAt, Go, Loop, Typed, Frame, Fans, Call
<1>8. CASE Join(e)
  BY <1>8 DEF Join, HereAt, Go, Loop, Typed, Frame, Fans, Call
<1>9. CASE Deactivate(e)
  BY <1>9 DEF Deactivate, FannedIn, HereAt, Go, Set, Typed, Frame, Fans, Call
<1>10. CASE Meet(e)
  BY <1>10 DEF Meet, FannedIn, HereAt, Go, Set, Typed, Frame, Fans, Call
<1>11. CASE e = 0 /\ RootComputes
  BY <1>11 DEF RootComputes, FannedIn, HereAt, Go, Loop, Typed, Frame, Fans, Call
<1>12. CASE Resume(e)
  <2>1. Call(e) \in Collective /\ state[e] = "Active"
    BY <1>12 DEF Resume, Go, HereAt
  <2>. QED
    BY <1>12, <2>1 DEF Resume, HereAt, Go, Loop, Typed, Frame, Fans, Call
<1>13. CASE Return(e)
  BY <1>13 DEF Return, HereAt, Go, Typed, Frame, Fans, Call
<1>14. CASE Reduced(e)
  <2>1. state[e] = "Active" /\ pc[e] = "fan_in" /\ Call(e) = "scan_large" /\ ~(e < mi)
    BY <1>14 DEF Reduced, FannedIn, HereAt
  <2>2. CASE e = 0
    BY <1>14, <2>1, <2>2 DEF Reduced, HereAt, Go, Loop, Typed, Frame, Fans, Call
  <2>3. CASE e # 0
    <3>1. pc'[e] \in {"next_reduced", "scanned"} /\ state'[e] = "ReductionAvailable"
      BY <1>14, <2>3 DEF Reduced, Go, Set, Typed
    <3>2. at' = at
      BY <1>14 DEF Reduced
    <3>. QED
      BY <2>1, <2>3, <3>1, <3>2 DEF HereAt, Frame, Fans, Call
  <2>. QED
    BY <2>2, <2>3
<1>15. CASE NextReduced(e) \/ NextScanned(e) \/ JoinNext(e)
  BY <1>15 DEF NextReduced, NextScanned, JoinNext, HereAt, Go, Typed, Frame, Fans, Call
<1>16. CASE ScanAvailable(e)
  BY <1>16 DEF ScanAvailable, HereAt, Go, Set, Typed, Frame, Fans, Call
<1>17. CASE ScanResume(e)
  BY <1>17 DEF ScanResume, HereAt, Go, Loop, Typed, Frame, Fans, Call
<1>18. CASE Collect(e)
  BY <1>18 DEF Collect, HereAt, Go, Typed, Frame, Fans, Call
<1>19. CASE CopyScan(e)
  BY <1>19 DEF CopyScan, HereAt, Go, Loop, Typed, Frame, Fans, Call
<1>20. CASE Complete(e)
  BY <1>20 DEF Complete, HereAt, Loop, Typed, Frame, Fans, Call
<1>21. CASE Completed(e)
  <2>1. Call(e) = "scan_large" /\ pc[e] = "complete" /\ ~(e < mi)
    BY <1>21 DEF Completed, Go, HereAt
  <2>2. CASE e = 0
    BY <1>21, <2>1, <2>2 DEF Completed, HereAt, Go, Loop, Typed, Frame, Fans, Call
  <2>3. CASE e # 0
    BY <1>21, <2>1, <2>3 DEF Completed, HereAt, Go, Set, Loop, Typed, Frame, Fans, Call
  <2>. QED
    BY <2>2, <2>3
<1>. QED
  BY <1>5, <1>6, <1>7, <1>8, <1>9, <1>10, <1>11, <1>12, <1>13, <1>14, <1>15, <1>16, <1>17,
     <1>18, <1>19, <1>20, <1>21 DEF Thread, FanInStep, MeetStep, ScanStep, Sets

(* The labels of every thread after a step of one                          *)
LEMMA HereThread ==
  ASSUME Control, NEW e \in Pool, Thread(e)
  PROVE  Here'
<1>1. Typed /\ Here
  BY DEF Control
<1>2. CASE ~Sets(e)
  <2>1. Pool' = Pool
    BY <1>1, <1>2, Others DEF Entries, Frame
  <2>. QED
    BY <1>1, <1>2, <2>1, Others, HereSelf, HereKept DEF Here
<1>3. CASE Release(e)
  <2>. DEFINE t == ReleasesByRank(e, wi[e])
  <2>1. t \in Pool /\ Frame /\ pc' = pc /\ at' = at
    BY <1>3, ReleaseTarget, ReleaseChanges
  <2>2. ASSUME NEW d \in Pool PROVE HereAt(d)'
    <3>1. HereAt(d)
      BY <1>1 DEF Here
    <3>2. CASE d = t
      <4>1. state'[d] = "Active"
        BY <1>3, <3>2, ReleaseChanges
      <4>2. \/ d = 0 /\ e = 0
            \/ pc[d] \in {"met", "completed"}
        BY <1>3, <3>2, ReleaseTarget
      <4>3. pc[e] = "release"
        BY <1>3 DEF Release
      <4>. HIDE DEF t
      <4>. QED
        BY <2>1, <3>1, <4>1, <4>2, <4>3 DEF HereAt, Frame, Fans, Call
    <3>3. CASE d # t
      <4>1. state'[d] = state[d]
        BY <1>3, <3>3, ReleaseChanges
      <4>2. pc[d] \in {"join", "collected"} => wi'[d] = wi[d]
        BY <1>3, ReleaseChanges DEF Release
      <4>. HIDE DEF t
      <4>. QED
        BY <2>1, <3>1, <4>1, <4>2 DEF HereAt, Frame, Fans, Call
    <3>. QED
      BY <3>2, <3>3
  <2>3. Pool' = Pool
    BY <2>1 DEF Frame, Entries
  <2>. QED
    BY <2>2, <2>3 DEF Here
<1>4. CASE Collected(e)
  <2>1. Child(e) \in Pool /\ e \in Int /\ e < Child(e) /\ Frame /\ at' = at
    BY <1>1, <1>4, CollectedTarget, CollectedChanges, PoolTree
  <2>2. ASSUME NEW d \in Pool PROVE HereAt(d)'
    <3>1. HereAt(d) /\ HereAt(e)
      BY <1>1 DEF Here
    <3>2. CASE d = Child(e)
      <4>1. state'[d] = "Rendezvous" /\ pc'[d] = "available" /\ pc[d] = "available"
        BY <1>4, <2>1, <3>2, CollectedTarget, CollectedChanges
      <4>. QED
        BY <2>1, <3>1, <4>1 DEF HereAt, Frame, Call
    <3>3. CASE d = e
      <4>1. state'[d] = state[d] /\ pc'[d] = "collect" /\ pc[d] = "collected"
        BY <1>4, <2>1, <3>3, CollectedChanges
      <4>. QED
        BY <2>1, <3>1, <4>1 DEF HereAt, Frame, Call
    <3>4. CASE d # Child(e) /\ d # e
      BY <1>4, <2>1, <3>1, <3>4, CollectedChanges, HereKept DEF Same
    <3>. QED
      BY <3>2, <3>3, <3>4
  <2>3. Pool' = Pool
    BY <2>1 DEF Frame, Entries
  <2>. QED
    BY <2>2, <2>3 DEF Here
<1>. QED
  BY <1>2, <1>3, <1>4 DEF Sets
-----------------------------------------------------------------------------
(* Control initially                                                       *)

(* The invariant to begin with                                             *)
LEMMA ControlInit == Init => Control
<1>1. SUFFICES ASSUME Init PROVE Control
  OBVIOUS
<1>2. Typed /\ Here
  BY <1>1, TypedInit, HereInit
<1>3. \A e \in Pool : pc[e] = "wait" /\ at[e] = 1 /\ FanChild(e, 0) = FanChild(e, 0)
  BY <1>1, <1>2, PoolTree DEF Init
<1>4. \A e \in Pool : Fanned(e) = 0 /\ Granted(e) = 0 /\ Called(e) = 0 /\ CopiedTo(e) = 0
  BY <1>3 DEF Fanned, Gathering, Granted, IsGranted, Called, IsCalled, CopiedTo
<1>5. Len(program) \in Nat /\ 0 \in Pool
  BY <1>2, ProgramFacts, PoolTree
<1>6. \A e \in Pool : \A i \in Fan(e) : FanChild(e, i) \in Pool
  BY <1>2, PoolTree
<1>7. Tree
  <2>1. \A e \in Pool : \A d \in Subtree(e, size) : d \in Pool
    BY <1>2, PoolTree
  <2>. QED
    BY <1>3, <1>4, <2>1 DEF Tree, TreeFanned, ChildrenFanned
<1>8. Grants
  BY <1>3, <1>4, <1>5, <1>6 DEF Grants, GrantedByRoot, GrantedByParent, GrantedLast
<1>9. Scans
  BY <1>3, <1>4, <1>5, <1>6 DEF Scans, CalledByParent, AvailableNow, CopiedFirst
<1>. QED
  BY <1>2, <1>7, <1>8, <1>9 DEF Control
-----------------------------------------------------------------------------
(* The fan-in                                                              *)

FansIn(e) == Deactivate(e) \/ Meet(e) \/ (e = 0 /\ RootComputes) \/ Reduced(e)

(* Only its own label and round say how far a thread has fanned in.        *)
LEMMA FannedSame ==
  ASSUME NEW d \in Pool, pc'[d] = pc[d], at'[d] = at[d]
  PROVE  Fanned(d)' = Fanned(d)
BY DEF Fanned

(* Nobody fans in for another,                                             *)
LEMMA FannedOthers ==
  ASSUME Control, NEW e \in Pool, Thread(e), NEW d \in Pool, d # e
  PROVE  Fanned(d)' = Fanned(d)
<1>1. Typed
  BY DEF Control
<1>2. pc'[d] = pc[d] /\ at'[d] = at[d]
  BY <1>1, Others, ReleaseChanges, CollectedChanges DEF Sets, Same
<1>. QED
  BY <1>2, FannedSame

(* and a thread does in four of its steps.                                 *)
LEMMA FannedSelf ==
  ASSUME Control, NEW e \in Pool, Thread(e)
  PROVE  /\ FansIn(e) => Fanned(e)' = at[e] /\ Fanned(e) = at[e] - 1
         /\ ~FansIn(e) => Fanned(e)' = Fanned(e)
<1>1. Typed /\ Here /\ e \in Entry /\ at[e] \in Nat /\ HereAt(e)
  BY PoolTree, ThreadTypes DEF Control, Here
<1>. USE <1>1 DEF Typed
<1>2. CASE FansIn(e)
  <2>1. pc[e] = "fan_in" /\ at' = at
    BY <1>2 DEF FansIn, Deactivate, Meet, RootComputes, Reduced, FannedIn, Go
  <2>2. pc'[e] \notin Gathering
    BY <1>2 DEF FansIn, Deactivate, Meet, RootComputes, Reduced, Go, Gathering
  <2>3. ~FansIn(e) => FALSE
    BY <1>2
  <2>. QED
    BY <2>1, <2>2, <2>3 DEF Fanned, Gathering
<1>3. CASE Return(e)
  <2>1. pc[e] = "release" /\ pc'[e] = "work" /\ at'[e] = at[e] + 1
    BY <1>3 DEF Return, Go
  <2>2. ~FansIn(e)
    BY <2>1 DEF FansIn, Deactivate, Meet, RootComputes, Reduced, FannedIn, Go
  <2>. QED
    BY <2>1, <2>2 DEF Fanned, Gathering
<1>4. CASE Release(e) \/ Collected(e)
  <2>1. ~FansIn(e)
    BY <1>4 DEF FansIn, Deactivate, Meet, RootComputes, Reduced, FannedIn, Go, Release, Collected
  <2>. QED
    BY <1>4, <2>1, ReleaseChanges, CollectedChanges DEF Fanned, Gathering
<1>5. CASE ~FansIn(e) /\ ~Return(e) /\ ~Sets(e)
  <2>1. at' = at
    BY <1>5 DEF Thread, Begin, FanInStep, Arrive, FanIn, Join, MeetStep, Resume, ScanStep,
       NextReduced, NextScanned, JoinNext, ScanAvailable, ScanResume, Collect, CopyScan,
       Complete, Completed, Sets, FansIn
  <2>2. pc'[e] \in Gathering <=> pc[e] \in Gathering
    BY <1>5 DEF Thread, Begin, FanInStep, Arrive, FanIn, Join, MeetStep, Resume, ScanStep,
       NextReduced, NextScanned, JoinNext, ScanAvailable, ScanResume, Collect, CopyScan,
       Complete, Completed, Sets, FansIn, Go, Gathering
  <2>. QED
    BY <1>5, <2>1, <2>2 DEF Fanned
<1>. QED
  BY <1>2, <1>3, <1>4, <1>5 DEF Sets

(* A child that a fan-in no longer finds Active has fanned in itself.      *)
LEMMA ArrivedIsFanned ==
  ASSUME Control, NEW e \in Pool, pc[e] = "fan_in", NEW i \in Fan(e), Arrived(FanChild(e, i))
  PROVE  Fanned(FanChild(e, i)) >= at[e]
<1>. DEFINE c == FanChild(e, i)
<1>1. Typed /\ Here /\ Tree /\ Grants
  BY DEF Control
<1>2. c \in Pool /\ e < c /\ c \in Int /\ e \in Int /\ mi \in Int
  BY <1>1, PoolTree DEF Typed
<1>3. HereAt(c) /\ HereAt(e) /\ state[c] # "Active" /\ pc[c] \in ThreadLabel
  BY <1>1, <1>2, ThreadTypes DEF Here, Arrived
<1>4. Granted(c) >= at[e] - 1
  BY <1>1, ChildOut
<1>5. Granted(c) <= Fanned(e) /\ Fanned(e) = at[e] - 1
  <2>1. Granted(c) <= Fanned(0) /\ Fanned(0) <= Fanned(e)
    BY <1>1, <1>2, Behind DEF Tree, Grants
  <2>2. Fanned(0) \in Nat /\ Fanned(e) \in Nat /\ Granted(c) \in Nat
    BY <1>1, <1>2, Bounds, PoolTree
  <2>. QED
    BY <2>1, <2>2 DEF Fanned, Gathering
<1>6. Granted(c) \in Nat /\ Fanned(c) \in Nat /\ Granted(c) <= Fanned(c) /\ at[e] \in Nat /\ at[c] \in Nat
      /\ (IsGranted(c) <=> Granted(c) = at[c]) /\ (pc[c] \in Gathering <=> Fanned(c) # at[c])
      /\ Fanned(c) \in {at[c] - 1, at[c]}
  BY <1>1, <1>2, Bounds, ThreadTypes
<1>. HIDE DEF c
<1>7. SUFFICES ASSUME Fanned(c) < at[e] PROVE FALSE
  BY <1>6 DEF c
<1>8. Fanned(c) = Granted(c)
  BY <1>4, <1>5, <1>6, <1>7
<1>9. CASE pc[c] \in Gathering
  BY <1>2, <1>3, <1>9 DEF HereAt, Gathering
<1>10. CASE pc[c] \notin Gathering
  <2>1. IsGranted(c)
    BY <1>6, <1>8, <1>10
  <2>. QED
    BY <1>3, <2>1 DEF HereAt, IsGranted
<1>. QED
  BY <1>9, <1>10

(* Who fans in has waited for its subtree.                                 *)
LEMMA TreeThread ==
  ASSUME Control, NEW e \in Pool, Thread(e)
  PROVE  Tree'
<1>1. Typed /\ Here /\ Tree /\ Frame
  BY Others, ReleaseChanges, CollectedChanges DEF Control, Sets
<1>2. Pool' = Pool /\ (\A x : Subtree(x, size)' = Subtree(x, size)) /\ \A x : Fan(x)' = Fan(x)
  BY <1>1 DEF Frame, Entries, Subtree, Fan, Fans
<1>3. \A d \in Pool : Fanned(d)' \in Nat /\ Fanned(d) \in Nat /\ Fanned(d)' >= Fanned(d)
  <2>1. \A d \in Pool : Fanned(d) \in Nat /\ at[d] \in Nat
    BY <1>1, Bounds, ThreadTypes
  <2>. QED
    BY <2>1, FannedOthers, FannedSelf
<1>4. TreeFanned'
  <2>1. SUFFICES ASSUME NEW x \in Pool, NEW d \in Subtree(x, size) PROVE Fanned(d)' >= Fanned(x)'
    BY <1>2 DEF TreeFanned
  <2>2. d \in Pool /\ Fanned(d) >= Fanned(x)
    BY <1>1, PoolTree DEF Tree, TreeFanned
  <2>3. CASE Fanned(x)' = Fanned(x)
    BY <1>3, <2>2, <2>3
  <2>4. CASE x = e /\ FansIn(e)
    <3>1. Fanned(e)' = at[e] /\ at[e] \in Nat
      BY <2>4, FannedSelf, <1>1, ThreadTypes
    <3>2. pc[e] = "fan_in" /\ wi[e] >= Fans(e)
      BY <2>4 DEF FansIn, Deactivate, Meet, RootComputes, Reduced, FannedIn
    <3>3. CASE d = e
      BY <2>4, <3>1, <3>3
    <3>4. CASE d # e
      <4>1. PICK i \in Fan(e) : d \in Subtree(FanChild(e, i), size)
        BY <1>1, <2>4, <3>4, PoolTree
      <4>2. Awaited(e, i)
        BY <1>1, <3>2, ThreadTypes, PoolTree DEF Awaited, Fan
      <4>3. Fanned(d) >= at[e]
        BY <1>1, <3>2, <4>1, <4>2 DEF Tree, ChildrenFanned
      <4>. QED
        BY <1>3, <2>2, <2>4, <3>1, <4>3
    <3>. QED
      BY <3>3, <3>4
  <2>. QED
    BY <2>3, <2>4, FannedOthers, FannedSelf
<1>5. ChildrenFanned'
  <2>1. SUFFICES ASSUME NEW x \in Pool, pc'[x] \in {"fan_in", "join"}, NEW i \in Fan(x),
                        Awaited(x, i)', NEW d \in Subtree(FanChild(x, i), size)
                 PROVE  Fanned(d)' >= at'[x]
    BY <1>2 DEF ChildrenFanned
  <2>2. d \in Pool
    BY <1>1, PoolTree
  <2>3. CASE pc'[x] = pc[x] /\ at'[x] = at[x] /\ wi'[x] = wi[x]
    <3>1. Awaited(x, i) /\ pc[x] \in {"fan_in", "join"}
      BY <2>1, <2>3 DEF Awaited
    <3>2. Fanned(d) >= at[x]
      BY <1>1, <3>1 DEF Tree, ChildrenFanned
    <3>. QED
      BY <1>1, <1>3, <2>2, <2>3, <3>2, ThreadTypes
  <2>4. CASE x # e
    BY <1>1, <2>1, <2>3, <2>4, Others, ReleaseChanges, CollectedChanges DEF Sets, Same
  <2>5. CASE x = e
    <3>1. wi[e] \in Nat /\ at[e] \in Nat /\ i \in Nat /\ e \in Entry /\ Fans(e) \in Nat
      BY <1>1, <2>5, ThreadTypes, PoolTree DEF Fan
    <3>2. CASE Arrive(e)
      <4>1. wi'[e] = 0 /\ pc'[e] = "fan_in"
        BY <1>1, <3>1, <3>2 DEF Arrive, Go, Loop, Typed
      <4>. QED
        BY <2>1, <2>5, <3>1, <4>1 DEF Awaited
    <3>3. CASE FanIn(e) \/ Join(e)
      <4>1. pc[e] \in {"fan_in", "join"} /\ at'[e] = at[e]
        BY <3>3 DEF FanIn, Join, Go
      <4>2. Awaited(e, i) \/ (pc[e] = "fan_in" /\ i = wi[e] /\ Arrived(Child(e)))
        <5>1. \/ FanIn(e) /\ pc'[e] = "join" /\ wi'[e] = wi[e]
              \/ FanIn(e) /\ pc'[e] = "fan_in" /\ wi'[e] = wi[e] + 1
              \/ pc[e] = "join" /\ pc'[e] = "fan_in" /\ wi'[e] = wi[e] + 1
          BY <1>1, <3>1, <3>3 DEF FanIn, Join, Go, Loop, Typed
        <5>2. i < wi'[e] \/ (pc'[e] = "join" /\ i = wi'[e])
          BY <2>1, <2>5 DEF Awaited
        <5>3. FanIn(e) => pc[e] = "fan_in" /\ Arrived(Child(e))
          BY DEF FanIn
        <5>. QED
          BY <3>1, <5>1, <5>2, <5>3 DEF Awaited
      <4>3. Fanned(d) >= at[e]
        <5>1. CASE Awaited(e, i)
          BY <1>1, <2>5, <4>1, <5>1 DEF Tree, ChildrenFanned
        <5>2. CASE pc[e] = "fan_in" /\ i = wi[e] /\ Arrived(Child(e))
          <6>1. Fanned(FanChild(e, i)) >= at[e] /\ FanChild(e, i) \in Pool
            BY <1>1, <2>5, <5>2, ArrivedIsFanned, PoolTree DEF Child
          <6>2. Fanned(d) >= Fanned(FanChild(e, i))
            BY <1>1, <2>5, <6>1 DEF Tree, TreeFanned
          <6>3. Fanned(FanChild(e, i)) \in Nat /\ Fanned(d) \in Nat
            BY <1>3, <2>2, <6>1
          <6>. QED
            BY <3>1, <6>1, <6>2, <6>3
        <5>. QED
          BY <4>2, <5>1, <5>2
      <4>. QED
        BY <1>3, <2>2, <2>5, <3>1, <4>1, <4>3
    <3>4. CASE ~Arrive(e) /\ ~FanIn(e) /\ ~Join(e)
      <4>1. pc'[e] \notin {"fan_in", "join"}
        BY <1>1, <3>1, <3>4 DEF Thread, Begin, FanInStep, Deactivate, MeetStep, Meet,
           RootComputes, Resume, Release, Return, ScanStep, Reduced, NextReduced, NextScanned,
           JoinNext, ScanAvailable, ScanResume, Collect, Collected, CopyScan, Complete,
           Completed, Go, Typed
      <4>. QED
        BY <2>1, <2>5, <4>1
    <3>. QED
      BY <3>2, <3>3, <3>4
  <2>. QED
    BY <2>4, <2>5
<1>. QED
  BY <1>4, <1>5 DEF Tree
-----------------------------------------------------------------------------
(* Who is let out                                                          *)

(* The root lets itself out, and a release the entry it sets; else nobody. *)
RootOpens(e) == e = 0 /\ (RootComputes \/ Completed(e))

(* Nobody lets another out but by a release,                               *)
LEMMA GrantedOthers ==
  ASSUME Control, NEW e \in Pool, Thread(e), NEW d \in Pool,
         d # e, ~(Release(e) /\ d = ReleasesByRank(e, wi[e]))
  PROVE  Granted(d)' = Granted(d)
<1>1. Typed
  BY DEF Control
<1>2. CASE Collected(e) /\ d = Child(e)
  <2>1. pc'[d] = "available" /\ pc[d] = "available" /\ at' = at
    BY <1>2, CollectedTarget, CollectedChanges
  <2>. QED
    BY <2>1 DEF Granted, IsGranted
<1>3. CASE ~(Collected(e) /\ d = Child(e))
  <2>1. pc'[d] = pc[d] /\ at'[d] = at[d] /\ state'[d] = state[d]
    BY <1>1, <1>3, Others, ReleaseChanges, CollectedChanges DEF Sets, Same
  <2>. QED
    BY <2>1 DEF Granted, IsGranted
<1>. QED
  BY <1>2, <1>3

(* which lets out one that was not,                                        *)
LEMMA GrantedTarget ==
  ASSUME Control, NEW e \in Pool, Release(e), NEW d, d = ReleasesByRank(e, wi[e])
  PROVE  /\ d \in Pool /\ Granted(d)' = at[e] /\ Granted(e) = at[e]
         /\ (d # 0 => Granted(d) = at[e] - 1) /\ at[d] = at[e]
<1>1. /\ d \in Pool /\ at[d] = at[e] /\ pc' = pc /\ at' = at /\ state'[d] = "Active"
      /\ pc[e] = "release"
      /\ \/ d = 0 /\ e = 0
         \/ d # 0 /\ ~IsGranted(d) /\ pc[d] \in {"met", "completed"}
  BY ReleaseTarget, ReleaseChanges DEF Release
<1>2. Granted(d)' = at[d] /\ Granted(e) = at[e]
  BY <1>1 DEF Granted, IsGranted
<1>3. d # 0 => Granted(d) = at[d] - 1
  BY <1>1 DEF Granted
<1>. QED
  BY <1>1, <1>2, <1>3

(* and nobody but the root lets itself out.                                *)
LEMMA GrantedSelf ==
  ASSUME Control, NEW e \in Pool, Thread(e)
  PROVE  /\ RootOpens(e) => /\ Granted(e)' = at[e] /\ Granted(e) = at[e] - 1 /\ at' = at
                            /\ pc[e] # "release" /\ pc'[e] = "release" /\ wi'[e] = 0
         /\ ~RootOpens(e) => Granted(e)' = Granted(e)
<1>1. Typed /\ Here /\ e \in Entry /\ at[e] \in Nat /\ HereAt(e) /\ e \in Int
  BY PoolTree, ThreadTypes DEF Control, Here
<1>. USE <1>1 DEF Typed
<1>2. CASE RootOpens(e)
  <2>1. /\ at' = at /\ pc[e] \in {"fan_in", "complete"} /\ pc'[e] = "release" /\ wi'[e] = 0
    BY <1>2 DEF RootOpens, RootComputes, Completed, FannedIn, Go, Loop
  <2>. QED
    BY <1>2, <2>1 DEF Granted, IsGranted
<1>3. CASE Return(e)
  <2>1. pc[e] = "release" /\ pc'[e] = "work" /\ at'[e] = at[e] + 1
    BY <1>3 DEF Return, Go
  <2>2. ~RootOpens(e)
    BY <2>1 DEF RootOpens, RootComputes, Completed, FannedIn, Go
  <2>. QED
    BY <2>1, <2>2 DEF Granted, IsGranted
<1>4. CASE Release(e)
  <2>1. pc[e] = "release" /\ pc' = pc /\ at' = at
    BY <1>4, ReleaseChanges DEF Release
  <2>2. ~RootOpens(e)
    BY <2>1 DEF RootOpens, RootComputes, Completed, FannedIn, Go
  <2>. QED
    BY <2>1, <2>2 DEF Granted, IsGranted
<1>5. CASE Collected(e)
  <2>1. pc[e] = "collected" /\ pc'[e] = "collect" /\ at' = at
    BY <1>5, CollectedChanges
  <2>2. ~RootOpens(e)
    BY <2>1 DEF RootOpens, RootComputes, Completed, FannedIn, Go
  <2>. QED
    BY <2>1, <2>2 DEF Granted, IsGranted
<1>6. CASE Resume(e)
  <2>1. /\ pc'[e] = "release" /\ at' = at
        /\ \/ pc[e] = "met" /\ state[e] # "Rendezvous"
           \/ pc[e] = "completed" /\ state[e] # "ScanCompleted"
    BY <1>6 DEF Resume, Go
  <2>2. ~RootOpens(e)
    BY <2>1 DEF RootOpens, RootComputes, Completed, FannedIn, Go
  <2>. QED
    BY <2>1, <2>2 DEF Granted, IsGranted
<1>7. CASE Meet(e) \/ (Completed(e) /\ e # 0)
  <2>1. /\ pc[e] \in {"fan_in", "complete"} /\ at' = at
        /\ \/ pc'[e] = "met" /\ state'[e] = "Rendezvous"
           \/ pc'[e] = "completed" /\ state'[e] = "ScanCompleted"
    BY <1>7 DEF Meet, Completed, FannedIn, Go, Set
  <2>2. ~RootOpens(e)
    BY <1>7, <2>1 DEF RootOpens, RootComputes, Completed, FannedIn, Go, Meet
  <2>. QED
    BY <2>1, <2>2 DEF Granted, IsGranted
<1>8. CASE ~RootOpens(e) /\ ~Return(e) /\ ~Sets(e) /\ ~Resume(e) /\ ~Meet(e) /\ ~Completed(e)
  <2>1. at' = at /\ pc[e] \notin {"met", "completed", "release"}
        /\ pc'[e] \notin {"met", "completed", "release"}
    BY <1>8 DEF Thread, Begin, FanInStep, Arrive, FanIn, Join, Deactivate, MeetStep, ScanStep,
       Reduced, NextReduced, NextScanned, JoinNext, ScanAvailable, ScanResume, Collect,
       CopyScan, Complete, FannedIn, Go, Sets, RootOpens
  <2>. QED
    BY <1>8, <2>1 DEF Granted, IsGranted
<1>. QED
  BY <1>2, <1>3, <1>4, <1>5, <1>6, <1>7, <1>8 DEF Sets, RootOpens

(* What is granted only grows.                                             *)
LEMMA GrantedGrows ==
  ASSUME Control, NEW e \in Pool, Thread(e), NEW d \in Pool
  PROVE  Granted(d) \in Nat /\ Granted(d)' \in Nat /\ Granted(d)' >= Granted(d)
<1>1. Typed
  BY DEF Control
<1>2. Granted(d) \in Nat /\ at[e] \in Nat /\ at[d] \in Nat /\ Granted(d) <= at[d]
  BY <1>1, Bounds, ThreadTypes
<1>3. CASE d = e
  BY <1>2, <1>3, GrantedSelf
<1>4. CASE d # e /\ Release(e) /\ d = ReleasesByRank(e, wi[e])
  <2>1. Granted(d)' = at[e] /\ at[d] = at[e]
    BY <1>4, GrantedTarget
  <2>. QED
    BY <1>2, <2>1
<1>5. CASE d # e /\ ~(Release(e) /\ d = ReleasesByRank(e, wi[e]))
  BY <1>2, <1>5, GrantedOthers
<1>. QED
  BY <1>3, <1>4, <1>5

(* The step of a thread past its last release                              *)
LEMMA ReturnChanges ==
  ASSUME Control, NEW e \in Pool, Return(e)
  PROVE  /\ pc[e] = "release" /\ pc'[e] = "work" /\ at'[e] = at[e] + 1
         /\ wi[e] >= Releases(e) /\ wi'[e] = wi[e]
BY PoolTree DEF Control, Typed, Return, Go

(* The other steps keep the round of a thread, and no release begins       *)
(* before its first turn.                                                  *)
LEMMA RoundStep ==
  ASSUME Control, NEW e \in Pool, Thread(e), ~Return(e)
  PROVE  /\ at'[e] = at[e]
         /\ pc[e] = "release" => Release(e) /\ pc'[e] = "release" /\ wi'[e] = wi[e] + 1
         /\ pc[e] # "release" /\ pc'[e] = "release" => wi'[e] = 0
         /\ Release(e) => pc[e] = "release"
<1>1. Typed /\ e \in Entry
  BY PoolTree DEF Control
<1>2. CASE Release(e)
  BY <1>2, ReleaseChanges DEF Release
<1>3. CASE ~Release(e)
  <2>1. at' = at
    BY <1>3 DEF Thread, Begin, FanInStep, Arrive, FanIn, Join, Deactivate, MeetStep, Meet,
       RootComputes, Resume, ScanStep, Reduced, NextReduced, NextScanned, JoinNext,
       ScanAvailable, ScanResume, Collect, Collected, CopyScan, Complete, Completed
  <2>2. pc[e] # "release"
    BY <1>3 DEF Thread, Begin, FanInStep, Arrive, FanIn, Join, Deactivate, MeetStep, Meet,
       RootComputes, Resume, ScanStep, Reduced, NextReduced, NextScanned, JoinNext,
       ScanAvailable, ScanResume, Collect, Collected, CopyScan, Complete, Completed, Go,
       FannedIn
  <2>3. pc'[e] = "release" => wi'[e] = 0
    BY <1>1, <1>3, <2>2 DEF Thread, Begin, FanInStep, Arrive, FanIn, Join, Deactivate,
       MeetStep, Meet, RootComputes, Resume, ScanStep, Reduced, NextReduced, NextScanned,
       JoinNext, ScanAvailable, ScanResume, Collect, Collected, CopyScan, Complete, Completed,
       Go, Loop, Typed
  <2>. QED
    BY <1>3, <2>1, <2>2, <2>3
<1>. QED
  BY <1>2, <1>3

(* The root lets out by rank.                                              *)
LEMMA RootGrantsThread ==
  ASSUME Control, NEW e \in Pool, Thread(e)
  PROVE  GrantedByRoot'
<1>1. Typed /\ Grants /\ Frame /\ Here
  BY Others, ReleaseChanges, CollectedChanges DEF Control, Sets
<1>2. SUFFICES ASSUME NEW k \in 1..Len(program), ByRoot(k), NEW d \in Pool, d # 0
               PROVE  Granted(d)' >= k <=>
                        \/ at'[0] > k
                        \/ at'[0] = k /\ pc'[0] = "release" /\ d > size - 1 - wi'[0]
  BY <1>1 DEF Frame, Entries, GrantedByRoot, ByRoot
<1>3. /\ k \in Int /\ d \in Int /\ d > 0 /\ size \in Int /\ 0 \in Pool /\ at[0] \in Nat /\ wi[0] \in Nat
      /\ Granted(d) \in Nat /\ Granted(d)' \in Nat /\ at[e] \in Nat /\ d < size
  <2>1. size \in Nat /\ 0 \in Pool /\ Len(program) \in Nat
    BY <1>1, PoolTree, ProgramFacts
  <2>2. d \in Int /\ d > 0 /\ d < size /\ k \in Int
    BY <1>2, <2>1 DEF Entries
  <2>3. Granted(d) \in Nat /\ Granted(d)' \in Nat
    BY GrantedGrows
  <2>4. at[0] \in Nat /\ wi[0] \in Nat /\ at[e] \in Nat
    BY <1>1, <2>1, ThreadTypes
  <2>. QED
    BY <2>1, <2>2, <2>3, <2>4
<1>4. Granted(d) >= k <=> \/ at[0] > k
                          \/ at[0] = k /\ pc[0] = "release" /\ d > size - 1 - wi[0]
  BY <1>1, <1>2 DEF Grants, GrantedByRoot
<1>5. CASE Release(e)
  <2>. DEFINE t == ReleasesByRank(e, wi[e])
  <2>1. /\ RootReleasesAll(e) => e = 0 /\ t = size - 1 - wi[0]
        /\ d = t => Granted(d)' = at[e] /\ Granted(d) = at[e] - 1
        /\ d # t => Granted(d)' = Granted(d)
    <3>1. RootReleasesAll(e) => e = 0 /\ t = size - 1 - wi[0]
      BY <1>5, ReleaseTarget
    <3>2. d = t => Granted(d)' = at[e] /\ Granted(d) = at[e] - 1
      BY <1>2, <1>5, GrantedTarget
    <3>3. ASSUME d # t PROVE Granted(d)' = Granted(d)
      <4>1. ~RootOpens(e)
        BY <1>5 DEF RootOpens, RootComputes, Completed, FannedIn, Go, Release
      <4>. QED
        BY <1>5, <3>3, <4>1, GrantedOthers, GrantedSelf
    <3>. QED
      BY <3>1, <3>2, <3>3
  <2>2. /\ pc[e] = "release" /\ pc' = pc /\ at' = at /\ wi'[e] = wi[e] + 1
        /\ e # 0 => wi'[0] = wi[0]
    BY <1>3, <1>5, ReleaseChanges DEF Release
  <2>. HIDE DEF t
  <2>3. CASE RootReleasesAll(e)
    <3>1. d > size - 1 - (wi[0] + 1) <=> d > size - 1 - wi[0] \/ d = size - 1 - wi[0]
      <4>1. d \in Int /\ size \in Int /\ wi[0] \in Int
        BY <1>3
      <4>. QED
        BY <4>1
    <3>. QED
      BY <1>3, <1>4, <2>1, <2>2, <2>3, <3>1
  <2>4. CASE ~RootReleasesAll(e)
    <3>1. at[e] # k
      BY <1>2, <2>4 DEF ByRoot, RootReleasesAll, Call
    <3>2. Granted(d)' >= k <=> Granted(d) >= k
      BY <1>3, <2>1, <3>1
    <3>. QED
      BY <1>4, <2>2, <3>1, <3>2
  <2>. QED
    BY <2>3, <2>4
<1>6. CASE ~Release(e)
  <2>1. Granted(d)' = Granted(d)
    <3>1. CASE d = e
      BY <1>2, <3>1, GrantedSelf DEF RootOpens
    <3>. QED
      BY <1>6, <3>1, GrantedOthers
  <2>2. CASE e # 0
    <3>1. at'[0] = at[0] /\ pc'[0] = pc[0] /\ (pc[0] = "release" => wi'[0] = wi[0])
      BY <1>1, <1>3, <1>6, <2>2, Others, CollectedChanges DEF Sets, Same
    <3>. QED
      BY <1>4, <2>1, <3>1
  <2>3. CASE e = 0 /\ Return(e)
    <3>1. pc[0] = "release" /\ pc'[0] = "work" /\ at'[0] = at[0] + 1 /\ wi[0] >= Releases(0)
      BY <2>3, ReturnChanges
    <3>2. at[0] = k => d > size - 1 - wi[0]
      <4>1. at[0] = k => Releases(0) = size
        BY <1>2 DEF ByRoot, Releases, RootReleasesAll, Call
      <4>. QED
        BY <1>3, <3>1, <4>1
    <3>. QED
      BY <1>3, <1>4, <2>1, <3>1, <3>2
  <2>4. CASE e = 0 /\ ~Return(e)
    <3>1. /\ at'[0] = at[0] /\ pc[0] # "release"
          /\ pc'[0] = "release" => wi'[0] = 0
      BY <1>6, <2>4, RoundStep
    <3>. QED
      BY <1>3, <1>4, <2>1, <3>1
  <2>. QED
    BY <2>2, <2>3, <2>4
<1>. QED
  BY <1>5, <1>6

(* The parents let out their children in turn.                             *)
LEMMA ParentGrantsThread ==
  ASSUME Control, NEW e \in Pool, Thread(e)
  PROVE  GrantedByParent'
<1>1. Typed /\ Grants /\ Frame /\ Here
  BY Others, ReleaseChanges, CollectedChanges DEF Control, Sets
<1>2. SUFFICES ASSUME NEW k \in 1..Len(program), ~ByRoot(k), NEW x \in Pool, NEW i \in Fan(x)
               PROVE  Granted(FanChild(x, i))' >= k <=>
                        \/ at'[x] > k
                        \/ at'[x] = k /\ pc'[x] = "release" /\ wi'[x] > i
  BY <1>1 DEF Frame, Entries, GrantedByParent, ByRoot, Fan, Fans
<1>. DEFINE d == FanChild(x, i)
<1>3. /\ d \in Pool /\ d \in Int /\ x < d /\ x \in Int /\ d # 0 /\ i \in Nat /\ i < Fans(x)
      /\ k \in Int /\ at[x] \in Nat /\ wi[x] \in Nat /\ at[e] \in Nat /\ Fans(x) \in Nat
  BY <1>1, PoolTree, ThreadTypes, ProgramFacts DEF Fan
<1>4. Granted(d) \in Nat /\ Granted(d)' \in Nat
  BY <1>3, GrantedGrows
<1>5. Granted(d) >= k <=> \/ at[x] > k
                          \/ at[x] = k /\ pc[x] = "release" /\ wi[x] > i
  BY <1>1, <1>2 DEF Grants, GrantedByParent
<1>6. CASE Release(e)
  <2>. DEFINE t == ReleasesByRank(e, wi[e])
  <2>1. d = t => Granted(d)' = at[e] /\ Granted(d) = at[e] - 1
    BY <1>3, <1>6, GrantedTarget
  <2>2. ASSUME d # t PROVE Granted(d)' = Granted(d)
    <3>1. ~RootOpens(e)
      BY <1>6 DEF RootOpens, RootComputes, Completed, FannedIn, Go, Release
    <3>. QED
      BY <1>3, <1>6, <2>2, <3>1, GrantedOthers, GrantedSelf
  <2>3. /\ pc[e] = "release" /\ pc' = pc /\ at' = at /\ wi'[e] = wi[e] + 1
        /\ e # x => wi'[x] = wi[x]
    BY <1>3, <1>6, ReleaseChanges DEF Release
  <2>4. at[e] = k => ~RootReleasesAll(e)
    BY <1>2 DEF ByRoot, RootReleasesAll, Call
  <2>5. ~RootReleasesAll(e) => wi[e] \in Fan(e) /\ t = FanChild(e, wi[e])
    BY <1>6, ReleaseTarget
  <2>6. at[e] = k /\ d = t => x = e /\ i = wi[e]
    BY <1>1, <2>4, <2>5, ParentOf
  <2>7. at[e] = k /\ x = e /\ i = wi[e] => d = t
    BY <2>4, <2>5
  <2>8. CASE at[e] = k
    <3>1. CASE d = t
      BY <1>3, <1>4, <2>1, <2>3, <2>6, <2>8, <3>1
    <3>2. CASE d # t
      <4>1. Granted(d)' = Granted(d)
        BY <2>2, <3>2
      <4>2. x = e => (wi[e] > i <=> wi[e] + 1 > i)
        BY <1>3, <2>7, <2>8, <3>2
      <4>. QED
        BY <1>5, <2>3, <4>1, <4>2
    <3>. QED
      BY <3>1, <3>2
  <2>9. CASE at[e] # k
    <3>1. Granted(d)' >= k <=> Granted(d) >= k
      BY <1>3, <1>4, <2>1, <2>2, <2>9
    <3>. QED
      BY <1>5, <2>3, <2>9, <3>1
  <2>. QED
    BY <2>8, <2>9
<1>7. CASE ~Release(e)
  <2>1. Granted(d)' = Granted(d)
    <3>1. CASE d = e
      BY <1>3, <3>1, GrantedSelf DEF RootOpens
    <3>. QED
      BY <1>3, <1>7, <3>1, GrantedOthers
  <2>2. CASE e # x
    <3>1. at'[x] = at[x] /\ pc'[x] = pc[x] /\ wi'[x] = wi[x]
      BY <1>1, <1>7, <2>2, Others, CollectedChanges DEF Sets, Same
    <3>. QED
      BY <1>5, <2>1, <3>1
  <2>3. CASE e = x /\ Return(e)
    <3>1. pc[x] = "release" /\ pc'[x] = "work" /\ at'[x] = at[x] + 1 /\ wi[x] >= Releases(x)
      BY <2>3, ReturnChanges
    <3>2. at[x] = k => wi[x] > i
      <4>1. at[x] = k => Releases(x) = Fans(x)
        BY <1>2 DEF ByRoot, Releases, RootReleasesAll, Call
      <4>. QED
        BY <1>3, <3>1, <4>1
    <3>. QED
      BY <1>3, <1>5, <2>1, <3>1, <3>2
  <2>4. CASE e = x /\ ~Return(e)
    <3>1. /\ at'[x] = at[x] /\ pc[x] # "release"
          /\ pc'[x] = "release" => wi'[x] = 0
      BY <1>7, <2>4, RoundStep
    <3>. QED
      BY <1>3, <1>5, <2>1, <3>1
  <2>. QED
    BY <2>2, <2>3, <2>4
<1>. QED
  BY <1>6, <1>7

(* Nobody is let out before the root.                                      *)
LEMMA LastGrantsThread ==
  ASSUME Control, NEW e \in Pool, Thread(e)
  PROVE  GrantedLast'
<1>1. Typed /\ Grants /\ Frame /\ 0 \in Pool
  BY Others, ReleaseChanges, CollectedChanges, PoolTree DEF Control, Sets
<1>2. SUFFICES ASSUME NEW d \in Pool PROVE Granted(d)' <= Granted(0)'
  BY <1>1 DEF Frame, Entries, GrantedLast
<1>3. /\ Granted(d) <= Granted(0) /\ Granted(e) <= Granted(0) /\ Granted(0)' >= Granted(0)
      /\ Granted(0) \in Nat /\ Granted(0)' \in Nat /\ Granted(d) \in Nat /\ Granted(e) \in Nat
  <2>1. Granted(d) <= Granted(0) /\ Granted(e) <= Granted(0)
    BY <1>1 DEF Grants, GrantedLast
  <2>. QED
    BY <1>1, <2>1, GrantedGrows
<1>4. CASE Release(e) /\ d = ReleasesByRank(e, wi[e])
  <2>1. Granted(d)' = Granted(e)
    BY <1>4, GrantedTarget
  <2>. QED
    BY <1>3, <2>1
<1>5. CASE ~(Release(e) /\ d = ReleasesByRank(e, wi[e]))
  <2>1. CASE d # 0
    <3>1. Granted(d)' = Granted(d)
      <4>1. CASE d = e
        BY <2>1, <4>1, GrantedSelf DEF RootOpens
      <4>. QED
        BY <1>5, <4>1, GrantedOthers
    <3>. QED
      BY <1>3, <3>1
  <2>2. CASE d = 0
    BY <1>3, <2>2
  <2>. QED
    BY <2>1, <2>2
<1>. QED
  BY <1>4, <1>5
-----------------------------------------------------------------------------
(* The way down a scan                                                     *)

(* Only its parent calls a thread to copy the scan in.                     *)
LEMMA CalledSame ==
  ASSUME Control, NEW e \in Pool, Thread(e), NEW d \in Pool, d # 0,
         NEW k \in 1..Len(program), program[k] = "scan_large",
         ~(Collected(e) /\ d = Child(e))
  PROVE  Called(d)' >= k <=> Called(d) >= k
<1>1. Typed /\ Here /\ d \in Entry /\ at[d] \in Nat /\ k \in Nat /\ HereAt(d)
  BY PoolTree, ThreadTypes, ProgramFacts DEF Control, Here
<1>2. CASE d # e
  <2>1. CASE Release(e) /\ d = ReleasesByRank(e, wi[e])
    <3>1. /\ pc'[d] = pc[d] /\ at'[d] = at[d] /\ pc[d] \in {"met", "completed"}
      BY <1>1, <2>1, <1>2, ReleaseTarget, ReleaseChanges
    <3>. QED
      BY <3>1 DEF Called, IsCalled
  <2>2. CASE ~(Release(e) /\ d = ReleasesByRank(e, wi[e]))
    <3>1. pc'[d] = pc[d] /\ at'[d] = at[d] /\ state'[d] = state[d]
      BY <1>1, <1>2, <2>2, Others, ReleaseChanges, CollectedChanges DEF Sets, Same
    <3>. QED
      BY <3>1 DEF Called, IsCalled
  <2>. QED
    BY <2>1, <2>2
<1>3. CASE d = e
  <2>. USE <1>1, <1>3 DEF Typed
  <2>1. CASE Return(e)
    <3>1. pc[d] = "release" /\ pc'[d] = "work" /\ at'[d] = at[d] + 1
      BY <2>1, ReturnChanges
    <3>. QED
      BY <3>1 DEF Called, IsCalled
  <2>2. CASE Resume(e)
    <3>1. at'[d] = at[d] /\ pc'[d] = "release" /\ pc[d] \in {"met", "completed"}
      BY <2>2 DEF Resume, Go
    <3>2. CASE pc[d] = "completed"
      BY <3>1, <3>2 DEF Called, IsCalled
    <3>3. CASE pc[d] = "met"
      <4>1. at[d] # k
        BY <3>3 DEF HereAt, Call, Simple
      <4>. QED
        BY <3>1, <3>3, <4>1 DEF Called, IsCalled
    <3>. QED
      BY <3>1, <3>2, <3>3
  <2>3. CASE Sets(e)
    <3>1. /\ at'[d] = at[d]
          /\ \/ pc[d] = "release" /\ pc'[d] = "release"
             \/ pc[d] = "collected" /\ pc'[d] = "collect"
      BY <2>3, ReleaseChanges, CollectedChanges DEF Sets, Release
    <3>. QED
      BY <3>1 DEF Called, IsCalled
  <2>4. CASE ScanResume(e) \/ Collect(e) \/ CopyScan(e) \/ Complete(e) \/ Completed(e)
    <3>1. /\ at'[d] = at[d]
          /\ pc'[d] \in {"collect", "collected", "complete", "completed", "release"}
          /\ pc[d] \in {"collect", "collected", "complete", "available"}
          /\ pc[d] = "available" => state[d] = "Rendezvous"
      BY <2>4 DEF ScanResume, Collect, CopyScan, Complete, Completed, Go, HereAt
    <3>. QED
      BY <3>1 DEF Called, IsCalled
  <2>5. CASE ScanAvailable(e)
    <3>1. at'[d] = at[d] /\ pc'[d] = "available" /\ state'[d] = "ScanAvailable" /\ pc[d] = "scanned"
      BY <2>5 DEF ScanAvailable, Go, Set
    <3>. QED
      BY <3>1 DEF Called, IsCalled
  <2>6. CASE \/ Begin(e) \/ FanInStep(e) \/ Meet(e) \/ Reduced(e) \/ NextReduced(e)
             \/ NextScanned(e) \/ JoinNext(e)
    <3>1. /\ at'[d] = at[d]
          /\ pc[d] \notin {"collect", "collected", "complete", "completed", "release", "available"}
          /\ pc'[d] \notin {"collect", "collected", "complete", "completed", "release", "available"}
      BY <2>6 DEF Begin, FanInStep, Arrive, FanIn, Join, Deactivate, Meet, Reduced,
         NextReduced, NextScanned, JoinNext, FannedIn, Go
    <3>. QED
      BY <3>1 DEF Called, IsCalled
  <2>. QED
    BY <2>1, <2>2, <2>3, <2>4, <2>5, <2>6 DEF Thread, MeetStep, ScanStep, Sets
<1>. QED
  BY <1>2, <1>3

(* A call is for one that was not called.                                  *)
LEMMA CalledTarget ==
  ASSUME Control, NEW e \in Pool, Collected(e), NEW d, d = Child(e)
  PROVE  Called(d)' = at[e] /\ Called(d) = at[e] - 1
<1>1. /\ d \in Pool /\ at[d] = at[e] /\ pc[d] = "available" /\ state[d] = "ScanAvailable"
      /\ at' = at /\ state'[d] = "Rendezvous" /\ pc'[d] = "available"
  BY CollectedTarget, CollectedChanges
<1>. QED
  BY <1>1 DEF Called, IsCalled

(* Where a thread is on the way down of the scan of its round              *)
Down(e, i) == \/ pc[e] \in {"complete", "completed", "release"}
              \/ pc[e] \in {"collect", "collected"} /\ wi[e] > i

(* A parent gets on with its children by calling on them, one by one.      *)
LEMMA DownStep ==
  ASSUME Control, NEW e \in Pool, Thread(e), ~Return(e), Call(e) = "scan_large", NEW i \in Fan(e)
  PROVE  /\ ~(Collected(e) /\ i = wi[e]) => (Down(e, i)' <=> Down(e, i))
         /\ Collected(e) /\ i = wi[e] => Down(e, i)'
<1>1. /\ Typed /\ Here /\ e \in Entry /\ wi[e] \in Nat /\ HereAt(e) /\ i \in Nat /\ i < Fans(e)
      /\ Fans(e) \in Nat
  BY PoolTree, ThreadTypes DEF Control, Here, Fan
<1>. USE <1>1 DEF Typed
<1>2. CASE Collected(e)
  <2>1. pc[e] = "collected" /\ pc'[e] = "collect" /\ wi'[e] = wi[e] + 1
    BY <1>2, CollectedChanges
  <2>. QED
    BY <1>2, <2>1 DEF Down
<1>3. CASE Release(e)
  BY <1>3, ReleaseChanges DEF Release, Down, Collected, Go
<1>4. CASE Resume(e)
  <2>1. pc[e] = "completed" /\ pc'[e] = "release"
    BY <1>4 DEF Resume, Go, HereAt, Simple
  <2>. QED
    BY <2>1 DEF Down, Collected, Go
<1>5. CASE ScanResume(e) \/ Reduced(e)
  <2>1. /\ pc[e] \in {"available", "fan_in"}
        /\ pc'[e] \in {"collect", "next_reduced", "scanned"} /\ (pc'[e] = "collect" => wi'[e] = 0)
    BY <1>5 DEF ScanResume, Reduced, FannedIn, Go, Loop
  <2>. QED
    BY <2>1 DEF Down, Collected, Go
<1>6. CASE Collect(e)
  <2>1. pc[e] = "collect" /\ pc'[e] = "collected" /\ wi' = wi
    BY <1>6 DEF Collect, Go
  <2>. QED
    BY <2>1 DEF Down, Collected, Go
<1>7. CASE CopyScan(e)
  <2>1. pc[e] = "collect" /\ pc'[e] = "complete" /\ wi[e] >= Fans(e)
    BY <1>7 DEF CopyScan, Go
  <2>. QED
    BY <2>1 DEF Down, Collected, Go
<1>8. CASE Complete(e) \/ Completed(e)
  <2>1. pc[e] = "complete" /\ pc'[e] \in {"complete", "completed", "release"}
    BY <1>8 DEF Complete, Completed, Go
  <2>. QED
    BY <2>1 DEF Down, Collected, Go
<1>9. CASE \/ Begin(e) \/ FanInStep(e) \/ NextReduced(e) \/ NextScanned(e) \/ JoinNext(e)
           \/ ScanAvailable(e)
  <2>1. /\ pc[e] \notin {"collect", "collected", "complete", "completed", "release"}
        /\ pc'[e] \notin {"collect", "collected", "complete", "completed", "release"}
    BY <1>9 DEF Begin, FanInStep, Arrive, FanIn, Join, Deactivate, NextReduced, NextScanned,
       JoinNext, ScanAvailable, FannedIn, Go
  <2>. QED
    BY <2>1 DEF Down, Collected, Go
<1>10. ~Meet(e) /\ ~(e = 0 /\ RootComputes)
  BY DEF Meet, RootComputes, Simple
<1>. QED
  BY <1>2, <1>3, <1>4, <1>5, <1>6, <1>7, <1>8, <1>9, <1>10 DEF Thread, MeetStep, ScanStep

(* The parents call on their children in turn.                             *)
LEMMA CalledThread ==
  ASSUME Control, NEW e \in Pool, Thread(e)
  PROVE  CalledByParent'
<1>1. Typed /\ Scans /\ Frame /\ Here
  BY Others, ReleaseChanges, CollectedChanges DEF Control, Sets
<1>2. SUFFICES ASSUME NEW k \in 1..Len(program), program[k] = "scan_large",
                      NEW x \in Pool, NEW i \in Fan(x)
               PROVE  Called(FanChild(x, i))' >= k <=>
                        (at'[x] > k \/ (at'[x] = k /\ Down(x, i)'))
  BY <1>1 DEF Frame, Entries, CalledByParent, Fan, Fans, Down
<1>. DEFINE d == FanChild(x, i)
<1>3. /\ d \in Pool /\ d # 0 /\ i \in Nat /\ k \in Int /\ at[x] \in Nat /\ at[e] \in Nat
  BY <1>1, PoolTree, ThreadTypes, ProgramFacts DEF Fan
<1>4. Called(d) >= k <=> (at[x] > k \/ (at[x] = k /\ Down(x, i)))
  BY <1>1, <1>2 DEF Scans, CalledByParent, Down
<1>5. CASE Collected(e)
  <2>1. /\ wi[e] \in Fan(e) /\ Child(e) = FanChild(e, wi[e]) /\ at' = at /\ Call(e) = "scan_large"
        /\ Called(Child(e)) = at[e] - 1
    BY <1>1, <1>5, CollectedTarget, CollectedChanges, CalledTarget DEF Here, HereAt
  <2>2. d = Child(e) => x = e /\ i = wi[e] /\ Called(d)' = at[e]
    <3>2. d = Child(e) => x = e /\ i = wi[e]
      BY <1>1, <2>1, ParentOf
    <3>3. d = Child(e) => Called(d)' = at[e]
      BY <1>5, CalledTarget
    <3>. QED
      BY <3>2, <3>3
  <2>3. CASE d = Child(e)
    <3>1. x = e /\ i = wi[e] /\ Called(d)' = at[e] /\ Called(d) = at[e] - 1
      BY <2>1, <2>2, <2>3
    <3>2. Down(x, i)'
      BY <1>5, <2>1, <3>1, DownStep DEF Return, Go, Collected
    <3>. QED
      BY <1>3, <2>1, <3>1, <3>2
  <2>4. CASE d # Child(e)
    <3>1. Called(d)' >= k <=> Called(d) >= k
      BY <1>2, <1>3, <2>4, CalledSame
    <3>2. Down(x, i)' <=> Down(x, i)
      <4>1. CASE x = e
        BY <1>5, <2>1, <2>4, <4>1, DownStep DEF Return, Go, Collected
      <4>2. CASE x # e
        BY <1>5, <4>2, CollectedChanges DEF Down
      <4>. QED
        BY <4>1, <4>2
    <3>. QED
      BY <1>4, <2>1, <3>1, <3>2
  <2>. QED
    BY <2>3, <2>4
<1>6. CASE ~Collected(e)
  <2>1. Called(d)' >= k <=> Called(d) >= k
    BY <1>2, <1>3, <1>6, CalledSame
  <2>2. CASE x # e
    <3>1. at'[x] = at[x] /\ pc'[x] = pc[x] /\ wi'[x] = wi[x]
      BY <1>1, <1>6, <2>2, Others, ReleaseChanges DEF Sets, Same
    <3>. QED
      BY <1>4, <2>1, <3>1 DEF Down
  <2>3. CASE x = e /\ Return(e)
    <3>1. pc[x] = "release" /\ pc'[x] = "work" /\ at'[x] = at[x] + 1
      BY <2>3, ReturnChanges
    <3>2. Down(x, i) /\ ~Down(x, i)'
      BY <3>1 DEF Down
    <3>. QED
      BY <1>3, <1>4, <2>1, <3>1, <3>2
  <2>4. CASE x = e /\ ~Return(e)
    <3>1. at'[x] = at[x]
      BY <2>4, RoundStep
    <3>2. at[x] = k => (Down(x, i)' <=> Down(x, i))
      BY <1>2, <1>6, <2>4, DownStep DEF Call
    <3>. QED
      BY <1>4, <2>1, <3>1, <3>2
  <2>. QED
    BY <2>2, <2>3, <2>4
<1>. QED
  BY <1>5, <1>6

(* A child of a thread that collects or completes a scan is in the scan.   *)
LEMMA ChildInScan ==
  ASSUME Control, NEW e \in Pool, pc[e] \in {"collect", "collected", "complete"}, NEW i \in Fan(e)
  PROVE  LET c == FanChild(e, i)
         IN  /\ c \in Pool /\ c # 0 /\ at[c] = at[e] /\ Call(c) = "scan_large"
             /\ pc[c] \notin Gathering /\ ~IsGranted(c) /\ pc[c] \notin {"met", "done"}
             /\ IsCalled(c) <=> Down(e, i)
<1>. DEFINE c == FanChild(e, i)
<1>1. Typed /\ Here /\ Tree /\ Grants /\ Scans
  BY DEF Control
<1>2. /\ c \in Pool /\ c # 0 /\ c \in Subtree(e, size) /\ Call(e) = "scan_large"
      /\ at[e] \in 1..Len(program) /\ at[e] \in Nat /\ pc[e] \notin Gathering
  <2>1. c \in Pool /\ e < c /\ e \in Int /\ e >= 0 /\ c \in Subtree(e, size)
    BY <1>1, PoolTree, SubtreeOfChild
  <2>. QED
    BY <1>1, <2>1, ThreadTypes DEF Here, HereAt, Gathering
<1>3. ~(Granted(c) >= at[e])
  BY <1>1, <1>2 DEF Grants, GrantedByParent, ByRoot, Call
<1>4. Granted(c) \in Nat /\ Called(c) \in Nat /\ (IsCalled(c) <=> Called(c) = at[c])
      /\ Called(c) <= at[c]
  BY <1>1, <1>2, Bounds, ThreadTypes DEF Called
<1>5. Called(c) >= at[e] <=> Down(e, i)
  BY <1>1, <1>2 DEF Scans, CalledByParent, Down, Call
<1>6. Granted(c) < at[e]
  BY <1>2, <1>3, <1>4
<1>. HIDE DEF c
<1>7. at[c] = at[e] /\ pc[c] \notin Gathering /\ ~IsGranted(c)
  BY <1>1, <1>2, <1>6, ChildIn
<1>8. Call(c) = "scan_large"
  BY <1>2, <1>7 DEF Call
<1>9. pc[c] \notin {"met", "done"}
  BY <1>1, <1>2, <1>7, <1>8, NotOut
<1>10. IsCalled(c) <=> Down(e, i)
  BY <1>2, <1>4, <1>5, <1>7
<1>. QED
  BY <1>2, <1>7, <1>8, <1>9, <1>10 DEF c

(* Who is about to be called waits for it.                                 *)
LEMMA AvailableThread ==
  ASSUME Control, NEW e \in Pool, Thread(e)
  PROVE  AvailableNow'
<1>1. Typed /\ Scans /\ Frame /\ Here
  BY Others, ReleaseChanges, CollectedChanges DEF Control, Sets
<1>2. SUFFICES ASSUME NEW x \in Pool, pc'[x] = "collected"
               PROVE  state'[FanChild(x, wi'[x])] = "ScanAvailable"
  BY <1>1 DEF Frame, Entries, AvailableNow
<1>3. CASE x = e
  <2>1. Collect(e)
    BY <1>1, <1>2, <1>3, PoolTree DEF Thread, Begin, FanInStep, Arrive, FanIn, Join, Deactivate,
       MeetStep, Meet, RootComputes, Resume, Release, Return, ScanStep, Reduced, NextReduced,
       NextScanned, JoinNext, ScanAvailable, ScanResume, Collect, Collected, CopyScan,
       Complete, Completed, FannedIn, Go, Typed
  <2>2. /\ pc[e] = "collect" /\ wi' = wi /\ state' = state /\ wi[e] < Fans(e)
        /\ state[Child(e)] # "ReductionAvailable"
    BY <2>1 DEF Collect, Go
  <2>3. wi[e] \in Fan(e) /\ Child(e) = FanChild(e, wi[e]) /\ wi[e] \in Nat
    BY <1>1, <2>2, ThreadTypes, PoolTree DEF Fan, Child
  <2>4. ~Down(e, wi[e])
    BY <2>2, <2>3 DEF Down
  <2>. DEFINE c == Child(e)
  <2>5. /\ c \in Pool /\ c # 0 /\ Call(c) = "scan_large" /\ pc[c] \notin Gathering
        /\ ~IsCalled(c) /\ pc[c] \notin {"met", "done"}
    BY <2>2, <2>3, <2>4, ChildInScan
  <2>6. HereAt(c) /\ pc[c] \in ThreadLabel
    BY <1>1, <2>5, ThreadTypes DEF Here
  <2>7. state[c] = "ScanAvailable"
    BY <2>2, <2>5, <2>6 DEF HereAt, IsCalled, ThreadLabel, Gathering
  <2>. QED
    BY <1>3, <2>2, <2>3, <2>7
<1>4. CASE x # e
  <2>1. pc[x] = "collected" /\ wi'[x] = wi[x]
    BY <1>1, <1>2, <1>4, Others, ReleaseChanges, CollectedChanges DEF Sets, Same
  <2>. DEFINE c == FanChild(x, wi[x])
  <2>2. wi[x] \in Fan(x) /\ state[c] = "ScanAvailable" /\ c \in Pool
    <3>1. wi[x] < Fans(x) /\ wi[x] \in Nat /\ Fans(x) \in Nat
      BY <1>1, <2>1, ThreadTypes, PoolTree DEF Here, HereAt
    <3>. QED
      BY <1>1, <2>1, <3>1, PoolTree DEF Fan, Scans, AvailableNow
  <2>3. pc[c] = "available" /\ c \in Entry
    BY <1>1, <2>2, ThreadTypes, PoolTree DEF Here, HereAt, ThreadLabel
  <2>4. c # e
    <3>1. ASSUME c = e PROVE FALSE
      BY <2>2, <2>3, <3>1, <1>1 DEF Thread, Begin, FanInStep, Arrive, FanIn, Join, Deactivate,
         MeetStep, Meet, RootComputes, Resume, Release, Return, ScanStep, Reduced, NextReduced,
         NextScanned, JoinNext, ScanAvailable, ScanResume, Collect, Collected, CopyScan,
         Complete, Completed, FannedIn, Go
    <3>. QED
      BY <3>1
  <2>5. ~(Release(e) /\ c = ReleasesByRank(e, wi[e]))
    <3>1. ASSUME Release(e), c = ReleasesByRank(e, wi[e]) PROVE FALSE
      BY <2>3, <2>4, <3>1, ReleaseTarget
    <3>. QED
      BY <3>1
  <2>6. ~(Collected(e) /\ c = Child(e))
    <3>1. ASSUME Collected(e), c = Child(e) PROVE FALSE
      <4>1. wi[e] \in Fan(e) /\ Child(e) = FanChild(e, wi[e])
        BY <3>1, CollectedTarget
      <4>3. x = e
        BY <1>1, <2>2, <3>1, <4>1, ParentOf
      <4>. QED
        BY <1>4, <4>3
    <3>. QED
      BY <3>1
  <2>7. state'[c] = state[c]
    BY <1>1, <2>2, <2>4, <2>5, <2>6, Others, ReleaseChanges, CollectedChanges DEF Sets, Same
  <2>. QED
    BY <2>1, <2>2, <2>7
<1>. QED
  BY <1>3, <1>4

(* No copy is undone.                                                      *)
LEMMA CopiedGrows ==
  ASSUME Control, NEW e \in Pool, Thread(e), NEW d \in Pool
  PROVE  CopiedTo(d) \in Nat /\ CopiedTo(d)' \in Nat /\ CopiedTo(d)' >= CopiedTo(d)
<1>1. Typed /\ at[d] \in Nat /\ at[d] >= 1
  BY ThreadTypes DEF Control
<1>2. CASE d # e
  <2>1. pc'[d] = pc[d] /\ at'[d] = at[d]
    BY <1>1, <1>2, Others, ReleaseChanges, CollectedChanges DEF Sets, Same
  <2>. QED
    BY <1>1, <2>1 DEF CopiedTo
<1>3. CASE d = e /\ Return(e)
  BY <1>1, <1>3, ReturnChanges DEF CopiedTo
<1>4. CASE d = e /\ ~Return(e)
  <2>1. at'[d] = at[d] /\ (pc[d] = "release" => pc'[d] = "release")
    BY <1>4, RoundStep
  <2>2. pc[d] = "completed" => pc'[d] \in {"completed", "release"}
    BY <1>1, <1>4, PoolTree DEF Typed, Thread, Begin, FanInStep, Arrive, FanIn, Join, Deactivate,
       MeetStep, Meet, RootComputes, Resume, Release, Return, ScanStep, Reduced, NextReduced,
       NextScanned, JoinNext, ScanAvailable, ScanResume, Collect, Collected, CopyScan,
       Complete, Completed, FannedIn, Go
  <2>. QED
    BY <1>1, <2>1, <2>2 DEF CopiedTo
<1>. QED
  BY <1>2, <1>3, <1>4

(* Who completes a scan has seen its children copy it.                     *)
LEMMA CopiedThread ==
  ASSUME Control, NEW e \in Pool, Thread(e)
  PROVE  CopiedFirst'
<1>1. Typed /\ Scans /\ Frame /\ Here
  BY Others, ReleaseChanges, CollectedChanges DEF Control, Sets
<1>. DEFINE Before(x, i) == pc[x] \in {"completed", "release"} \/ (pc[x] = "complete" /\ wi[x] > i)
<1>2. SUFFICES ASSUME NEW x \in Pool, program[at'[x]] = "scan_large", NEW i \in Fan(x), Before(x, i)'
               PROVE  CopiedTo(FanChild(x, i))' >= at'[x]
  BY <1>1 DEF Frame, Entries, CopiedFirst, Fan, Fans, Call
<1>. DEFINE c == FanChild(x, i)
<1>3. /\ c \in Pool /\ i \in Nat /\ at[x] \in Nat /\ wi[x] \in Nat /\ x \in Entry /\ Fans(x) \in Nat
      /\ i < Fans(x)
  BY <1>1, PoolTree, ThreadTypes DEF Fan
<1>4. CopiedTo(c) \in Nat /\ CopiedTo(c)' \in Nat /\ CopiedTo(c)' >= CopiedTo(c)
  BY <1>3, CopiedGrows
<1>5. ASSUME at'[x] = at[x], Before(x, i) PROVE CopiedTo(c)' >= at'[x]
  <2>1. CopiedTo(c) >= at[x]
    BY <1>1, <1>2, <1>5 DEF Scans, CopiedFirst, Call
  <2>. QED
    BY <1>3, <1>4, <1>5, <2>1
<1>6. CASE x # e
  BY <1>1, <1>2, <1>5, <1>6, Others, ReleaseChanges, CollectedChanges DEF Sets, Same
<1>7. CASE x = e /\ Return(e)
  BY <1>2, <1>7, ReturnChanges
<1>8. CASE x = e /\ ~Return(e)
  <2>1. at'[x] = at[x] /\ Call(x) = "scan_large" /\ HereAt(x)
    BY <1>1, <1>2, <1>8, RoundStep DEF Call, Here
  <2>2. SUFFICES ASSUME ~Before(x, i) PROVE CopiedTo(c)' >= at'[x]
    BY <1>5, <2>1
  <2>3. CASE Complete(e) /\ i = wi[e] /\ Copied(Child(e))
    <3>1. pc[e] = "complete" /\ Child(e) = c
      BY <1>8, <2>3 DEF Complete, Child
    <3>2. /\ at[c] = at[e] /\ pc[c] \notin Gathering /\ ~IsGranted(c)
          /\ pc[c] \notin {"met", "done"} /\ c # 0
          /\ IsCalled(c) <=> Down(e, i)
      BY <1>8, <3>1, ChildInScan
    <3>3. Down(e, i) /\ state[c] # "Rendezvous" /\ HereAt(c)
      BY <1>1, <1>3, <2>3, <3>1 DEF Down, Copied, Here
    <3>4. pc[c] = "completed"
      BY <3>2, <3>3 DEF IsCalled, IsGranted, HereAt
    <3>. QED
      BY <1>3, <1>4, <1>8, <2>1, <3>2, <3>4 DEF CopiedTo
  <2>4. CASE ~(Complete(e) /\ i = wi[e] /\ Copied(Child(e)))
    <3>1. ~Before(x, i)'
      <4>1. CASE Complete(e)
        BY <1>1, <1>3, <1>8, <2>2, <2>4, <4>1 DEF Complete, Loop, Typed
      <4>2. CASE CopyScan(e)
        <5>1. pc'[x] = "complete" /\ wi'[x] = 0
          BY <1>1, <1>3, <1>8, <4>2 DEF CopyScan, Go, Loop, Typed
        <5>. QED
          BY <1>3, <5>1
      <4>3. CASE Completed(e) \/ Resume(e) \/ Release(e)
        <5>1. pc[x] \in {"completed", "release", "met"} \/ (pc[x] = "complete" /\ wi[x] >= Fans(x))
          BY <1>8, <4>3 DEF Completed, Resume, Release, Go
        <5>. QED
          BY <1>3, <2>1, <2>2, <5>1 DEF HereAt, Simple
      <4>4. CASE ~Complete(e) /\ ~CopyScan(e) /\ ~Completed(e) /\ ~Resume(e) /\ ~Release(e)
        <5>1. ~(e = 0 /\ RootComputes)
          BY <1>8, <2>1 DEF RootComputes, Simple
        <5>2. pc'[x] \notin {"complete", "completed", "release"}
          BY <1>1, <1>3, <1>8, <4>4, <5>1 DEF Thread, Begin, FanInStep, Arrive, FanIn, Join,
             Deactivate, MeetStep, Meet, ScanStep, Reduced, NextReduced, NextScanned,
             JoinNext, ScanAvailable, ScanResume, Collect, Collected, FannedIn, Go, Typed
        <5>. QED
          BY <5>2
      <4>. QED
        BY <4>1, <4>2, <4>3, <4>4
    <3>. QED
      BY <1>2, <3>1
  <2>. QED
    BY <2>3, <2>4
<1>. QED
  BY <1>6, <1>7, <1>8
-----------------------------------------------------------------------------
(* Control is an invariant                                                 *)

(* start keeps the invariant,                                              *)
LEMMA ControlActivate == ASSUME Control, Activate PROVE Control'
<1>1. Typed /\ Here /\ Tree /\ Grants /\ Scans
  BY DEF Control
<1>2. Typed' /\ Here'
  BY <1>1, TypedNext, HereActivate DEF Next
<1>3. /\ size' = size /\ program' = program /\ pc' = pc /\ at' = at /\ wi' = wi
      /\ pc[mi - 1] = "wait" /\ \A d \in Pool : d # mi - 1 => state'[d] = state[d]
  BY <1>1, ActivateChanges, ActivateTarget DEF Same
<1>4. /\ Pool' = Pool /\ (\A x : Subtree(x, size)' = Subtree(x, size)) /\ \A x : Fan(x)' = Fan(x)
  BY <1>3 DEF Entries, Subtree, Fan, Fans
<1>5. \A d \in Pool : /\ Fanned(d)' = Fanned(d) /\ Granted(d)' = Granted(d)
                      /\ Called(d)' = Called(d) /\ CopiedTo(d)' = CopiedTo(d)
  BY <1>3 DEF Fanned, Granted, IsGranted, Called, IsCalled, CopiedTo
<1>6. 0 \in Pool /\ \A x \in Pool : \A i \in Fan(x) : FanChild(x, i) \in Pool
                      /\ \A d \in Subtree(FanChild(x, i), size) : d \in Pool
  BY <1>1, PoolTree
<1>7. \A x \in Pool : \A d \in Subtree(x, size) : d \in Pool
  BY <1>1, PoolTree
<1>8. Tree'
  BY <1>1, <1>3, <1>4, <1>5, <1>6, <1>7 DEF Tree, TreeFanned, ChildrenFanned, Awaited
<1>9. Grants'
  BY <1>1, <1>3, <1>4, <1>5, <1>6 DEF Grants, GrantedByRoot, GrantedByParent, GrantedLast, ByRoot
<1>10. CalledByParent' /\ CopiedFirst'
  BY <1>1, <1>3, <1>4, <1>5, <1>6 DEF Scans, CalledByParent, CopiedFirst, Call
<1>11. AvailableNow'
  <2>1. SUFFICES ASSUME NEW x \in Pool, pc[x] = "collected"
                 PROVE  state'[FanChild(x, wi[x])] = "ScanAvailable"
    BY <1>3, <1>4 DEF AvailableNow
  <2>2. wi[x] < Fans(x) /\ wi[x] \in Nat /\ Fans(x) \in Nat
    BY <1>1, <2>1, ThreadTypes, PoolTree DEF Here, HereAt
  <2>3. FanChild(x, wi[x]) \in Pool /\ state[FanChild(x, wi[x])] = "ScanAvailable"
    BY <1>1, <2>1, <2>2, <1>6 DEF Fan, Scans, AvailableNow
  <2>4. pc[FanChild(x, wi[x])] # "wait"
    BY <1>1, <2>3 DEF Here, HereAt
  <2>. QED
    BY <1>3, <2>3, <2>4
<1>. QED
  BY <1>2, <1>8, <1>9, <1>10, <1>11 DEF Control, Scans

(* as does no step at all,                                                 *)
LEMMA ControlStutter == ASSUME Control, UNCHANGED vars PROVE Control'
<1>1. /\ size' = size /\ program' = program /\ mi' = mi /\ state' = state /\ pc' = pc
      /\ at' = at /\ wi' = wi
  BY DEF vars
<1>2. /\ \A d : /\ Fanned(d)' = Fanned(d) /\ Granted(d)' = Granted(d)
                /\ Called(d)' = Called(d) /\ CopiedTo(d)' = CopiedTo(d)
      /\ Pool' = Pool /\ (\A x : Subtree(x, size)' = Subtree(x, size)) /\ \A x : Fan(x)' = Fan(x)
  BY <1>1 DEF Fanned, Granted, IsGranted, Called, IsCalled, CopiedTo, Entries, Subtree, Fan, Fans
<1>3. Typed' /\ Here'
  BY <1>1, <1>2 DEF Control, Typed, Here, HereAt, Call, Fans
<1>4. Tree' /\ Grants'
  BY <1>1, <1>2 DEF Control, Tree, TreeFanned, ChildrenFanned, Awaited, Grants, GrantedByRoot,
     GrantedByParent, GrantedLast, ByRoot
<1>5. Scans'
  BY <1>1, <1>2 DEF Control, Scans, CalledByParent, AvailableNow, CopiedFirst, Call
<1>. QED
  BY <1>3, <1>4, <1>5 DEF Control

(* and hence every step.                                                   *)
LEMMA ControlNext == Control /\ [Next]_vars => Control'
<1>1. SUFFICES ASSUME Control, [Next]_vars PROVE Control'
  OBVIOUS
<1>2. ASSUME NEW e \in Pool, Thread(e) PROVE Control'
  <2>1. Typed'
    BY <1>1, <1>2, TypedThread DEF Control
  <2>. QED
    BY <1>1, <1>2, <2>1, HereThread, TreeThread, RootGrantsThread, ParentGrantsThread,
       LastGrantsThread, CalledThread, AvailableThread, CopiedThread DEF Control, Grants, Scans
<1>. QED
  BY <1>1, <1>2, ControlActivate, ControlStutter DEF Next

(* Where the threads are in the collectives of a launch, however they      *)
(* interleave: the inductive invariant.                                    *)
THEOREM CollectivesAreInStep == Spec => []Control
BY ControlInit, ControlNext, PTL DEF Spec

(* Functors run only in Active threads, and the root leaves a launch after *)
(* everybody else.                                                         *)
THEOREM LaunchesAreWhole == Spec => []LaunchIsWhole
<1>1. Control => LaunchIsWhole
  <2>1. SUFFICES ASSUME Control PROVE WorksActive /\ RootIsLast
    BY DEF LaunchIsWhole
  <2>2. Typed /\ Here /\ Tree
    BY <2>1 DEF Control
  <2>3. WorksActive
    BY <2>2 DEF WorksActive, Here, HereAt
  <2>4. ASSUME pc[0] = "done", NEW e \in Pool PROVE pc[e] = "done" /\ state[e] = "Inactive"
    <3>1. 0 \in Pool /\ Subtree(0, size) = Pool
      BY <2>2, PoolTree
    <3>2. Fanned(0) = at[0] /\ Fanned(e) >= Fanned(0)
      BY <2>2, <2>4, <3>1 DEF Fanned, Gathering, Tree, TreeFanned
    <3>3. at[0] = Len(program) /\ at[0] \in Nat
      BY <2>2, <2>4, <3>1, ThreadTypes, ProgramFacts DEF Here, HereAt, Call
    <3>4. at[e] \in 1..Len(program) /\ at[e] \in Nat /\ Fanned(e) \in {at[e] - 1, at[e]}
          /\ (pc[e] \in Gathering <=> Fanned(e) # at[e])
      BY <2>2, Bounds, ThreadTypes
    <3>5. at[e] = Len(program) /\ pc[e] \notin Gathering
      BY <3>2, <3>3, <3>4
    <3>6. Call(e) \in Ending
      BY <2>2, <3>4, <3>5, ProgramFacts DEF Call
    <3>7. HereAt(e) /\ pc[e] \in ThreadLabel /\ Call(e) \notin Collective
      BY <2>2, <3>4, <3>6, ThreadTypes DEF Here, Collective, Ending
    <3>8. Simple \subseteq Collective /\ "scan_large" \in Collective
      BY DEF Simple, Collective
    <3>. QED
      BY <3>5, <3>7, <3>8 DEF HereAt, ThreadLabel, Gathering
  <2>. QED
    BY <2>3, <2>4 DEF RootIsLast
<1>. QED
  BY <1>1, CollectivesAreInStep, PTL
-----------------------------------------------------------------------------
(* The rendezvous                                                          *)

ArrivedAt(e) == IF pc[e] \in {"wait", "work"} THEN at[e] - 1 ELSE at[e]

(* Rendezvous, in the terms of this module                                 *)
LEMMA MeetingsIs ==
  /\ Meetings!Init <=> /\ [e \in Pool |-> ArrivedAt(e)] = [m \in Pool |-> 0]
                       /\ [e \in Pool |-> at[e] - 1] = [m \in Pool |-> 0]
  /\ \A m \in Pool : Meetings!Arrive(m) <=>
       /\ [e \in Pool |-> ArrivedAt(e)][m] = [e \in Pool |-> at[e] - 1][m]
       /\ [e \in Pool |-> ArrivedAt(e)]' =
            [[e \in Pool |-> ArrivedAt(e)] EXCEPT ![m] = @ + 1]
       /\ Pool' = Pool /\ [e \in Pool |-> at[e] - 1]' = [e \in Pool |-> at[e] - 1]
  /\ \A m \in Pool : Meetings!Leave(m) <=>
       /\ [e \in Pool |-> at[e] - 1][m] < [e \in Pool |-> ArrivedAt(e)][m]
       /\ \A k \in Pool : [e \in Pool |-> ArrivedAt(e)][k] >= [e \in Pool |-> ArrivedAt(e)][m]
       /\ [e \in Pool |-> at[e] - 1]' = [[e \in Pool |-> at[e] - 1] EXCEPT ![m] = @ + 1]
       /\ Pool' = Pool /\ [e \in Pool |-> ArrivedAt(e)]' = [e \in Pool |-> ArrivedAt(e)]
  /\ Meetings!vars = <<Pool, [e \in Pool |-> ArrivedAt(e)], [e \in Pool |-> at[e] - 1]>>
BY DEF Meetings!Init, Meetings!Arrive, Meetings!Leave, Meetings!vars, ArrivedAt

(* A step that moves nobody but e, and e as it says                        *)
LEMMA ArrivedOthers ==
  ASSUME Control, NEW e \in Pool, Thread(e), NEW d \in Pool, d # e
  PROVE  ArrivedAt(d)' = ArrivedAt(d) /\ at'[d] = at[d]
<1>1. pc'[d] = pc[d] /\ at'[d] = at[d]
  BY Others, ReleaseChanges, CollectedChanges DEF Sets, Same, Control
<1>. QED
  BY <1>1 DEF ArrivedAt

(* A step of a thread is one of the rendezvous or none.                    *)
LEMMA MeetingsStep ==
  ASSUME Control, NEW e \in Pool, Thread(e)
  PROVE  Meetings!Next \/ UNCHANGED Meetings!vars
<1>1. Typed /\ Here /\ Frame /\ Tree /\ Grants
  BY Others, ReleaseChanges, CollectedChanges DEF Control, Sets
<1>2. Pool' = Pool /\ at[e] \in Nat /\ e \in Entry
  BY <1>1, ThreadTypes, PoolTree DEF Frame, Entries
<1>3. CASE Arrive(e)
  <2>1. pc[e] = "work" /\ pc'[e] = "fan_in" /\ at' = at
    BY <1>1, <1>2, <1>3 DEF Arrive, Go, Typed
  <2>2. ArrivedAt(e)' = ArrivedAt(e) + 1 /\ ArrivedAt(e) = at[e] - 1
    BY <1>2, <2>1 DEF ArrivedAt
  <2>3. [x \in Pool |-> ArrivedAt(x)]' = [[x \in Pool |-> ArrivedAt(x)] EXCEPT ![e] = @ + 1]
    BY <1>2, <2>2, ArrivedOthers
  <2>4. [x \in Pool |-> at[x] - 1]' = [x \in Pool |-> at[x] - 1]
    BY <1>2, <2>1
  <2>5. Meetings!Arrive(e)
    BY <1>2, <2>2, <2>3, <2>4, MeetingsIs
  <2>. QED
    BY <2>5 DEF Meetings!Next
<1>4. CASE Return(e)
  <2>1. pc[e] = "release" /\ pc'[e] = "work" /\ at'[e] = at[e] + 1
    BY <1>4, ReturnChanges
  <2>2. ArrivedAt(e)' = at[e] /\ ArrivedAt(e) = at[e]
    BY <1>2, <2>1 DEF ArrivedAt
  <2>3. [x \in Pool |-> ArrivedAt(x)]' = [x \in Pool |-> ArrivedAt(x)]
    BY <1>2, <2>2, ArrivedOthers
  <2>4. [x \in Pool |-> at[x] - 1]' = [[x \in Pool |-> at[x] - 1] EXCEPT ![e] = @ + 1]
    <3>1. at'[e] - 1 = (at[e] - 1) + 1
      BY <1>2, <2>1
    <3>2. \A x \in Pool : x # e => at'[x] - 1 = at[x] - 1
      BY ArrivedOthers
    <3>. QED
      BY <1>2, <3>1, <3>2
  <2>5. ASSUME NEW k \in Pool PROVE ArrivedAt(k) >= at[e]
    <3>1. Granted(e) = at[e]
      BY <2>1 DEF Granted, IsGranted
    <3>2. Granted(e) <= Fanned(0) /\ Fanned(0) <= Fanned(k)
      BY <1>1, Behind DEF Tree, Grants
    <3>3. Fanned(k) <= ArrivedAt(k) /\ ArrivedAt(k) \in Int /\ Fanned(k) \in Nat
      BY <1>1, ThreadTypes DEF Fanned, ArrivedAt, Gathering
    <3>4. Fanned(0) \in Nat
      BY <1>1, Bounds, PoolTree
    <3>. QED
      BY <1>2, <3>1, <3>2, <3>3, <3>4
  <2>6. Meetings!Leave(e)
    BY <1>2, <2>2, <2>3, <2>4, <2>5, MeetingsIs
  <2>. QED
    BY <2>6 DEF Meetings!Next
<1>5. CASE ~Arrive(e) /\ ~Return(e)
  <2>1. at'[e] = at[e]
    BY <1>5, RoundStep
  <2>2. pc[e] \in {"wait", "work"} <=> pc'[e] \in {"wait", "work"}
    BY <1>1, <1>2, <1>5 DEF Thread, Begin, FanInStep, FanIn, Join, Deactivate,
       MeetStep, Meet, RootComputes, Resume, Release, ScanStep, Reduced, NextReduced,
       NextScanned, JoinNext, ScanAvailable, ScanResume, Collect, Collected, CopyScan,
       Complete, Completed, FannedIn, Go, Typed
  <2>3. ArrivedAt(e)' = ArrivedAt(e)
    BY <2>1, <2>2 DEF ArrivedAt
  <2>4. [x \in Pool |-> ArrivedAt(x)]' = [x \in Pool |-> ArrivedAt(x)]
    BY <1>2, <2>3, ArrivedOthers
  <2>5. [x \in Pool |-> at[x] - 1]' = [x \in Pool |-> at[x] - 1]
    BY <1>2, <2>1, ArrivedOthers
  <2>. QED
    BY <1>2, <2>4, <2>5 DEF Meetings!vars, ArrivedAt
<1>. QED
  BY <1>3, <1>4, <1>5

(* Nobody leaves a collective before everybody has entered it: the pool    *)
(* implements Rendezvous, collective after collective.                     *)
THEOREM CollectivesMeet == Spec => IsRendezvous
<1>1. Init => Meetings!Init
  <2>1. SUFFICES ASSUME Init PROVE Meetings!Init
    OBVIOUS
  <2>2. \A e \in Pool : ArrivedAt(e) = 0 /\ at[e] - 1 = 0
    BY <2>1, TypedInit, PoolTree DEF Init, ArrivedAt
  <2>. QED
    BY <2>2, MeetingsIs
<1>2. Control /\ [Next]_vars => [Meetings!Next]_(Meetings!vars)
  <2>1. SUFFICES ASSUME Control, [Next]_vars PROVE Meetings!Next \/ UNCHANGED Meetings!vars
    OBVIOUS
  <2>2. CASE Activate \/ UNCHANGED vars
    <3>1. size' = size /\ pc' = pc /\ at' = at
      BY <2>2 DEF Activate, vars
    <3>2. Pool' = Pool /\ \A e : ArrivedAt(e)' = ArrivedAt(e)
      BY <3>1 DEF Entries, ArrivedAt
    <3>3. /\ [e \in Pool |-> ArrivedAt(e)]' = [e \in Pool |-> ArrivedAt(e)]
          /\ [e \in Pool |-> at[e] - 1]' = [e \in Pool |-> at[e] - 1]
      BY <3>1, <3>2
    <3>. QED
      BY <3>2, <3>3 DEF Meetings!vars, ArrivedAt
  <2>. QED
    BY <2>1, <2>2, MeetingsStep DEF Next
<1>. QED
  BY <1>1, <1>2, CollectivesAreInStep, PTL DEF Spec, IsRendezvous, Meetings!Spec
-----------------------------------------------------------------------------
(* Bags of contributions                                                   *)

(* Contributions are bags,                                                 *)
LEMMA ContributionsAreBags ==
  ASSUME NEW S, NEW k
  PROVE  IsABag(Contributions(S, k))
BY BagsOfSets DEF Contributions

(* the empty one of nobody,                                                *)
LEMMA NoContributions == ASSUME NEW k PROVE Contributions({}, k) = EmptyBag
BY DEF Contributions, EmptyBag, SetToBag

(* and one of one thread.                                                  *)
LEMMA OneContribution ==
  ASSUME NEW e, NEW k PROVE Contribution(e, k) = Contributions({e}, k)
<1>1. {<<k, x>> : x \in {e}} = {<<k, e>>}
  OBVIOUS
<1>. QED
  BY <1>1 DEF Contribution, Contributions

(* What several have contributed joined with what others have              *)
LEMMA ContributionsJoin ==
  ASSUME NEW S, NEW T, NEW k, S \cap T = {}
  PROVE  Contributions(S, k) (+) Contributions(T, k) = Contributions(S \cup T, k)
<1>. DEFINE A == {<<k, e>> : e \in S}
            B == {<<k, e>> : e \in T}
<1>1. A \cap B = {}
  OBVIOUS
<1>2. {<<k, e>> : e \in S \cup T} = A \cup B
  OBVIOUS
<1>. HIDE DEF A, B
<1>3. SetToBag(A) (+) SetToBag(B) = SetToBag(A \cup B)
  BY <1>1, SetsJoin
<1>. QED
  BY <1>2, <1>3 DEF Contributions, A, B
-----------------------------------------------------------------------------
(* The joins of the root and of the scan                                   *)

(* Sum is a row of joins,                                                  *)
LEMMA SumJoins ==
  Sum = [e \in Nat |-> IF e = 0 THEN value[0] ELSE Sum[e - 1] (+) value[e]]
<1>1. PICK a : a = value[0]
  OBVIOUS
<1>2. PICK b : b = value
  OBVIOUS
<1>3. PICK f : JoinsUp(f, a, b)
  BY JoinsExist
<1>4. f = [e \in Nat |-> IF e = 0 THEN value[0] ELSE f[e - 1] (+) value[e]]
  BY <1>1, <1>2, <1>3 DEF JoinsUp
<1>. QED
  BY <1>4, Zenon DEF Sum

(* and so is Exclusive.                                                    *)
LEMMA ExclusiveJoins ==
  Exclusive = [r \in Nat |-> IF r = 0 THEN EmptyBag ELSE Exclusive[r - 1] (+) value[size - r]]
<1>1. PICK a : a = EmptyBag
  OBVIOUS
<1>2. PICK b : b = [r \in Nat |-> value[size - r]]
  OBVIOUS
<1>3. PICK f : JoinsUp(f, a, b)
  BY JoinsExist
<1>4. \A r \in Nat : b[r] = value[size - r]
  BY <1>2
<1>5. f = [r \in Nat |-> IF r = 0 THEN EmptyBag ELSE f[r - 1] (+) value[size - r]]
  BY <1>1, <1>3, <1>4 DEF JoinsUp
<1>. QED
  BY <1>5, Zenon DEF Exclusive

(* The root's sum of one contribution each                                 *)
LEMMA SumIs ==
  ASSUME NEW n \in Nat, NEW k, \A e \in 0..n : value[e] = Contribution(e, k)
  PROVE  Sum[n] = Contributions(0..n, k)
<1>. DEFINE Bad == {m \in Nat : m <= n /\ Sum[m] # Contributions(0..m, k)}
<1>1. SUFFICES ASSUME Bad # {} PROVE FALSE
  OBVIOUS
<1>2. PICK m \in Bad : \A j \in Bad : m <= j
  <2>1. Bad \in SUBSET Nat
    OBVIOUS
  <2>. HIDE DEF Bad
  <2>. QED
    BY <1>1, <2>1, LeastNumber
<1>3. m \in Nat /\ m <= n /\ Sum[m] # Contributions(0..m, k) /\ m \in 0..n
  OBVIOUS
<1>4. CASE m = 0
  <2>1. Sum[m] = value[0] /\ value[0] = Contribution(0, k)
    BY <1>3, <1>4, SumJoins
  <2>2. 0..m = {0}
    BY <1>4
  <2>. QED
    BY <1>3, <2>1, <2>2, OneContribution
<1>5. CASE m # 0
  <2>1. m - 1 \in Nat /\ m - 1 <= n /\ m - 1 \notin Bad
    BY <1>2, <1>3, <1>5
  <2>2. Sum[m - 1] = Contributions(0..(m - 1), k)
    BY <2>1
  <2>3. Sum[m] = Sum[m - 1] (+) value[m]
    BY <1>3, <1>5, SumJoins
  <2>4. value[m] = Contributions({m}, k)
    BY <1>3, OneContribution
  <2>5. 0..(m - 1) \cap {m} = {} /\ 0..(m - 1) \cup {m} = 0..m
    BY <1>3, <1>5
  <2>6. Contributions(0..(m - 1), k) (+) Contributions({m}, k) = Contributions(0..m, k)
    BY <2>5, ContributionsJoin
  <2>. QED
    BY <1>3, <2>2, <2>3, <2>4, <2>6
<1>. QED
  BY <1>4, <1>5

(* The exclusive scan by rank: of the ranks below, the entries above       *)
LEMMA ExclusiveIs ==
  ASSUME size \in Nat, NEW n \in Nat, n <= size, NEW k,
         \A e \in 0..(size - 1) : value[e] = Contribution(e, k)
  PROVE  Exclusive[n] = Contributions((size - n)..(size - 1), k)
<1>. DEFINE Bad == {m \in Nat : m <= n /\ Exclusive[m] # Contributions((size - m)..(size - 1), k)}
<1>1. SUFFICES ASSUME Bad # {} PROVE FALSE
  OBVIOUS
<1>2. PICK m \in Bad : \A j \in Bad : m <= j
  <2>1. Bad \in SUBSET Nat
    OBVIOUS
  <2>. HIDE DEF Bad
  <2>. QED
    BY <1>1, <2>1, LeastNumber
<1>3. m \in Nat /\ m <= n /\ Exclusive[m] # Contributions((size - m)..(size - 1), k)
  OBVIOUS
<1>4. CASE m = 0
  <2>1. Exclusive[m] = EmptyBag
    BY <1>3, <1>4, ExclusiveJoins
  <2>2. (size - m)..(size - 1) = {}
    BY <1>4
  <2>. QED
    BY <1>3, <2>1, <2>2, NoContributions
<1>5. CASE m # 0
  <2>1. m - 1 \in Nat /\ m - 1 <= n /\ m - 1 \notin Bad
    BY <1>2, <1>3, <1>5
  <2>2. Exclusive[m - 1] = Contributions((size - (m - 1))..(size - 1), k)
    BY <2>1
  <2>3. Exclusive[m] = Exclusive[m - 1] (+) value[size - m]
    BY <1>3, <1>5, ExclusiveJoins
  <2>4. value[size - m] = Contributions({size - m}, k)
    <3>1. size - m \in 0..(size - 1)
      BY <1>3, <1>5
    <3>. QED
      BY <3>1, OneContribution
  <2>5. /\ (size - (m - 1))..(size - 1) \cap {size - m} = {}
        /\ (size - (m - 1))..(size - 1) \cup {size - m} = (size - m)..(size - 1)
    BY <1>3, <1>5
  <2>6. Contributions((size - (m - 1))..(size - 1), k) (+) Contributions({size - m}, k)
          = Contributions((size - m)..(size - 1), k)
    BY <2>5, ContributionsJoin
  <2>. QED
    BY <1>3, <2>2, <2>3, <2>4, <2>6
<1>. QED
  BY <1>4, <1>5
-----------------------------------------------------------------------------
(* The values                                                              *)

(* A scan_large waits for threads that are not its parent or children, and *)
(* takes a word that is not Active for that of this scan: the words of an  *)
(* earlier one must be gone.                                               *)
ScansSeparated ==
  \A n \in 1..MaxThreads : \A p \in Programs[n] : \A k \in 2..Len(p) :
    p[k] = "scan_large" => p[k - 1] \in {"barrier", "all_reduce"}

Scanned == {"available", "collect", "collected", "complete", "completed", "release"}
ScannedTo(e) == IF pc[e] \in Scanned THEN at[e] ELSE at[e] - 1

After(e) == {d \in Pool : d > e}
From(e) == {d \in Pool : d >= e}

(* What the k-th collective returns to e                                   *)
Result(e, k) == IF program[k] = "all_reduce" THEN Pool ELSE After(e)

(* Whose contributions e has joined                                        *)
Joined(e) == {e} \cup {d \in Pool : \E i \in Fan(e) : i < wi[e] /\ d \in Subtree(FanChild(e, i), size)}

Summed == {"all_reduce", "scan_small"}
Reducing == {"reduce", "scan_large"}
FannedThere == {"next_reduced", "next_scanned", "next_join", "scanned", "available", "collect",
                "collected", "done"}

Holds(e, S, k) == value[e] = Contributions(S, k)

(* Whose contributions the value of a thread is the join of                *)
ValueAt(e) ==
  /\ Call(e) \in Summed /\ pc[e] \notin {"wait", "work"} =>
       Holds(e, IF Granted(0) >= at[e] THEN Result(e, at[e]) ELSE {e}, at[e])
  /\ Call(e) \in Reducing /\ pc[e] \in {"fan_in", "join"} => Holds(e, Joined(e), at[e])
  /\ Call(e) \in Reducing /\ pc[e] \in FannedThere => Holds(e, Subtree(e, size), at[e])
  /\ Call(e) = "scan_large" /\ pc[e] \in {"complete", "completed", "release"} =>
       Holds(e, After(e), at[e])
  /\ pc[e] = "work" /\ at[e] > 1 /\ program[at[e] - 1] # "barrier" =>
       Holds(e, Result(e, at[e] - 1), at[e] - 1)

ScannedAt(e) ==
  Call(e) = "scan_large" =>
    /\ pc[e] \in {"next_reduced", "next_scanned", "next_join"} =>
         scanned[e] = Contributions(Subtree(e, size), at[e])
    /\ pc[e] = "scanned" \/ pc[e] \in Scanned => scanned[e] = Contributions(From(e), at[e])

ValuesOK == \A e \in Pool : ValueAt(e) /\ ScannedAt(e)
BagsOK ==
  /\ DOMAIN value = Entry /\ DOMAIN scanned = Entry
  /\ \A e \in Entry : IsABag(value[e]) /\ IsABag(scanned[e])

(* Who has copied a scan is the last of its subtree to.                    *)
CopiedTree ==
  \A k \in 1..Len(program) : program[k] = "scan_large" =>
    \A e \in Pool : CopiedTo(e) >= k => \A d \in Subtree(e, size) : CopiedTo(d) >= k

(* Nobody is ahead of the thread past its subtree.                         *)
NextAt(e) ==
  /\ pc[e] \in {"next_reduced", "next_scanned", "next_join"} => HasNext(e)
  /\ Call(e) = "scan_large" /\ HasNext(e) =>
       /\ pc[e] \in {"next_scanned", "next_join"} => Fanned(SubtreeEnd(e)) >= at[e]
       /\ pc[e] \in {"next_join", "scanned"} \cup Scanned => ScannedTo(SubtreeEnd(e)) >= at[e]
NextOK == \A e \in Pool : NextAt(e)

Values == ValuesOK /\ BagsOK /\ CopiedTree /\ NextOK
-----------------------------------------------------------------------------
(* Subtrees as intervals                                                   *)

(* A subtree ends where the thread after it begins.                        *)
LEMMA Intervals ==
  ASSUME Typed, NEW e \in Pool
  PROVE  /\ SubtreeEnd(e) \in Int /\ e < SubtreeEnd(e)
         /\ Subtree(e, size) = {d \in Pool : e <= d /\ d < SubtreeEnd(e)}
         /\ HasNext(e) => SubtreeEnd(e) \in Pool
         /\ ~HasNext(e) => Subtree(e, size) = From(e)
         /\ HasNext(e) => /\ Subtree(e, size) \cap From(SubtreeEnd(e)) = {}
                          /\ Subtree(e, size) \cup From(SubtreeEnd(e)) = From(e)
         /\ Fans(e) = 0 => SubtreeEnd(e) = e + 1
         /\ Fans(e) > 0 => FanChild(e, 0) = e + 1
<1>1. e \in Int /\ e >= 0 /\ size \in Nat /\ Fans(e) \in Nat /\ e \in Subtree(e, size)
      /\ \A d \in Pool : d \in Int /\ 0 <= d /\ d < size
  BY PoolTree DEF Entries
<1>2. Power[Fans(e)] \in Int
  BY <1>1, PowerAbove
<1>3. SubtreeEnd(e) \in Int
  BY <1>1, <1>2 DEF SubtreeEnd
<1>4. Subtree(e, size) = {d \in Pool : e <= d /\ d < SubtreeEnd(e)}
  BY DEF Subtree, SubtreeEnd, Fans
<1>5. e < SubtreeEnd(e)
  BY <1>1, <1>4
<1>6. HasNext(e) => SubtreeEnd(e) \in Pool
  BY <1>1, <1>3, <1>5 DEF HasNext, Entries
<1>7. ~HasNext(e) => Subtree(e, size) = From(e)
  <2>1. ASSUME ~HasNext(e), NEW d \in Pool PROVE d < SubtreeEnd(e)
    BY <1>1, <1>3, <2>1 DEF HasNext
  <2>. QED
    BY <1>1, <1>4, <2>1 DEF From
<1>8. /\ Subtree(e, size) \cap From(SubtreeEnd(e)) = {}
      /\ Subtree(e, size) \cup From(SubtreeEnd(e)) = From(e)
  <2>1. \A d \in Pool : /\ ~(d < SubtreeEnd(e) /\ d >= SubtreeEnd(e))
                        /\ e <= d <=> d >= e
                        /\ d >= SubtreeEnd(e) => d >= e
                        /\ ~(d >= SubtreeEnd(e)) => d < SubtreeEnd(e)
    BY <1>1, <1>3, <1>5
  <2>2. From(SubtreeEnd(e)) = {d \in Pool : d >= SubtreeEnd(e)} /\ From(e) = {d \in Pool : d >= e}
    BY DEF From
  <2>3. Subtree(e, size) \cap From(SubtreeEnd(e)) = {}
    BY <1>4, <2>1, <2>2, Zenon
  <2>4. Subtree(e, size) \cup From(SubtreeEnd(e)) = From(e)
    BY <1>4, <2>1, <2>2, Zenon
  <2>. QED
    BY <2>3, <2>4
<1>9. Fans(e) = 0 => SubtreeEnd(e) = e + 1
  BY <1>1, PowerDoubles DEF SubtreeEnd
<1>10. FanChild(e, 0) = e + 1
  BY <1>1, PowerDoubles DEF FanChild
<1>. QED
  BY <1>3, <1>4, <1>5, <1>6, <1>7, <1>8, <1>9, <1>10

(* The subtree of the root is the pool: it has nobody to wait for.         *)
LEMMA RootHasNoNext == ASSUME Typed PROVE ~HasNext(0)
<1>1. 0 \in Pool /\ Subtree(0, size) = Pool
  BY PoolTree
<1>2. SUFFICES ASSUME HasNext(0) PROVE FALSE
  OBVIOUS
<1>3. SubtreeEnd(0) \in Pool /\ SubtreeEnd(0) \in Int
  BY <1>1, <1>2, Intervals
<1>4. SubtreeEnd(0) < SubtreeEnd(0)
  BY <1>1, <1>3, Intervals
<1>. QED
  BY <1>3, <1>4

(* What e has joined                                                       *)
LEMMA JoinedFacts ==
  ASSUME Typed, NEW e \in Pool
  PROVE  /\ wi[e] = 0 => Joined(e) = {e}
         /\ wi[e] >= Fans(e) => Joined(e) = Subtree(e, size)
         /\ wi[e] < Fans(e) => Joined(e) \cap Subtree(Child(e), size) = {}
<1>1. wi[e] \in Nat /\ Fans(e) \in Nat /\ size \in 1..MaxThreads
      /\ \A i \in Fan(e) : i \in Int /\ i >= 0 /\ i < Fans(e)
  BY ThreadTypes, PoolTree DEF Fan, Typed
<1>2. wi[e] = 0 => Joined(e) = {e}
  BY <1>1 DEF Joined
<1>3. ASSUME wi[e] >= Fans(e) PROVE Joined(e) = Subtree(e, size)
  <2>1. \A i \in Fan(e) : i < wi[e]
    BY <1>1, <1>3
  <2>2. \A d : d \in Subtree(e, size) <=>
          d \in Pool /\ (d = e \/ \E i \in Fan(e) : d \in Subtree(FanChild(e, i), size))
    BY PoolTree, SubtreeOfChild
  <2>. QED
    BY <2>1, <2>2 DEF Joined
<1>4. ASSUME wi[e] < Fans(e) PROVE Joined(e) \cap Subtree(Child(e), size) = {}
  <2>1. wi[e] \in Fan(e) /\ Child(e) = FanChild(e, wi[e])
    BY <1>1, <1>4 DEF Fan, Child
  <2>2. e \notin Subtree(Child(e), size)
    <3>1. Child(e) \in Pool /\ e < Child(e) /\ e \in Int
      BY <2>1, PoolTree
    <3>2. \A d \in Subtree(Child(e), size) : Child(e) <= d
      BY DEF Subtree
    <3>3. Child(e) \in Int
      BY <3>1, PoolTree
    <3>4. e \in Subtree(Child(e), size) => FALSE
      BY <3>1, <3>2, <3>3
    <3>. QED
      BY <3>4
  <2>3. ASSUME NEW i \in Fan(e), i < wi[e]
        PROVE  Subtree(FanChild(e, i), size) \cap Subtree(Child(e), size) = {}
    <3>1. /\ e \in Entries(size) /\ i \in 0..(FanCount(e, size) - 1)
          /\ wi[e] \in 0..(FanCount(e, size) - 1) /\ i # wi[e]
      BY <1>1, <2>1, <2>3 DEF Fan, Fans
    <3>. QED
      BY <1>1, <2>1, <3>1, FanTreeFacts
  <2>. QED
    BY <2>2, <2>3 DEF Joined
<1>. QED
  BY <1>2, <1>3, <1>4

(* What e has joined after one more child                                  *)
LEMMA JoinedNext ==
  ASSUME Typed, NEW e \in Pool, wi[e] < Fans(e), Frame, wi'[e] = wi[e] + 1
  PROVE  Joined(e)' = Joined(e) \cup Subtree(Child(e), size)
<1>1. wi[e] \in Nat /\ Fans(e) \in Nat /\ \A i \in Fan(e) : i \in Int /\ i >= 0
  BY ThreadTypes, PoolTree DEF Fan
<1>2. wi[e] \in Fan(e) /\ Child(e) = FanChild(e, wi[e])
  BY <1>1 DEF Fan, Child
<1>3. Pool' = Pool /\ Fan(e)' = Fan(e) /\ \A x : Subtree(x, size)' = Subtree(x, size)
  BY DEF Frame, Entries, Fan, Fans, Subtree
<1>4. \A d \in Subtree(Child(e), size) : d \in Pool
  BY <1>2, PoolTree
<1>5. \A i \in Fan(e) : i < wi[e] + 1 <=> i < wi[e] \/ i = wi[e]
  BY <1>1
<1>6. Joined(e)' = {e} \cup {d \in Pool : \E i \in Fan(e) :
                               i < wi[e] + 1 /\ d \in Subtree(FanChild(e, i), size)}
  BY <1>3 DEF Joined, Frame
<1>. QED
  BY <1>2, <1>4, <1>5, <1>6 DEF Joined
-----------------------------------------------------------------------------
(* Where the threads of a scan_large are                                   *)

(* Nobody is let out of a scan that somebody has not copied.               *)
LEMMA ScanOpen ==
  ASSUME Control, CopiedTree, NEW e \in Pool, Call(e) = "scan_large",
         pc[e] \notin {"completed", "release"}, NEW d \in Pool
  PROVE  Granted(d) < at[e]
<1>1. Typed /\ Here /\ Grants
  BY DEF Control
<1>2. /\ 0 \in Pool /\ e \in Subtree(0, size) /\ at[e] \in 1..Len(program) /\ at[e] \in Nat
      /\ at[0] \in Nat /\ pc[0] \in ThreadLabel
  BY <1>1, PoolTree, ThreadTypes
<1>3. Granted(d) \in Nat /\ Granted(0) \in Nat /\ CopiedTo(0) \in Nat /\ Granted(d) <= Granted(0)
  BY <1>1, <1>2, Bounds DEF Grants, GrantedLast
<1>4. CopiedTo(0) >= Granted(0)
  BY <1>1, <1>2 DEF CopiedTo, Granted, IsGranted, Here, HereAt
<1>5. CopiedTo(0) >= at[e] => CopiedTo(e) >= at[e]
  BY <1>2 DEF CopiedTree, Call
<1>6. CopiedTo(e) = at[e] - 1
  BY DEF CopiedTo
<1>. QED
  BY <1>2, <1>3, <1>4, <1>5, <1>6

(* A later thread in that scan: it is in it, if it got as far as that.     *)
LEMMA InScan ==
  ASSUME Control, CopiedTree, NEW e \in Pool, Call(e) = "scan_large",
         pc[e] \notin {"completed", "release"}, NEW n \in Pool
  PROVE  /\ Fanned(n) >= at[e] => at[n] = at[e] /\ pc[n] \notin Gathering /\ ~IsGranted(n)
         /\ ScannedTo(n) >= at[e] => at[n] = at[e] /\ pc[n] \in Scanned
<1>1. Granted(n) < at[e] /\ Typed
  BY ScanOpen DEF Control
<1>2. /\ Granted(n) \in Nat /\ Granted(n) \in {at[n] - 1, at[n]} /\ Fanned(n) \in {at[n] - 1, at[n]}
      /\ IsGranted(n) <=> Granted(n) = at[n]
      /\ pc[n] \in Gathering <=> Fanned(n) # at[n]
  BY <1>1, Bounds
<1>3. at[n] \in Nat /\ at[e] \in Nat
  BY <1>1, ThreadTypes
<1>. QED
  BY <1>1, <1>2, <1>3 DEF ScannedTo

(* The thread past a subtree that its first thread finds no longer Active. *)
LEMMA NextReducedIsFanned ==
  ASSUME ScansSeparated, Control, CopiedTree, NEW e \in Pool, pc[e] = "next_reduced", HasNext(e),
         state[SubtreeEnd(e)] # "Active"
  PROVE  Fanned(SubtreeEnd(e)) >= at[e]
<1>. DEFINE n == SubtreeEnd(e)
            k == at[e] - 1
<1>1. Typed /\ Here /\ Grants
  BY DEF Control
<1>2. n \in Pool /\ e < n /\ n \in Int /\ e \in Int /\ 0 \in Pool /\ e >= 0
  BY <1>1, Intervals, PoolTree
<1>. HIDE DEF n
<1>3. HereAt(n) /\ HereAt(e) /\ Call(e) = "scan_large" /\ e # 0 /\ state[n] # "Active"
  BY <1>1, <1>2 DEF Here, HereAt, n
<1>4. Granted(n) < at[e]
  BY <1>2, <1>3, ScanOpen
<1>5. /\ Granted(n) \in Nat /\ Fanned(n) \in Nat /\ Granted(n) <= Fanned(n)
      /\ (IsGranted(n) <=> Granted(n) = at[n]) /\ (pc[n] \in Gathering <=> Fanned(n) # at[n])
      /\ Fanned(n) \in {at[n] - 1, at[n]} /\ Granted(n) \in {at[n] - 1, at[n]}
      /\ Granted(e) \in {k, at[e]}
  BY <1>1, <1>2, Bounds
<1>6. /\ at[e] \in 1..Len(program) /\ at[e] \in Nat /\ at[n] \in Nat /\ pc[n] \in ThreadLabel
      /\ wi[0] \in Nat /\ at[0] \in Nat /\ Len(program) \in Nat /\ size \in Nat
      /\ mi \in Int
  <2>1. size \in Nat /\ wi[0] \in Nat /\ at[0] \in Nat /\ Len(program) \in Nat
    BY <1>1, <1>2, ThreadTypes, ProgramFacts, PoolTree
  <2>2. mi \in Int
    BY <1>1, <2>1 DEF Typed
  <2>3. at[e] \in 1..Len(program) /\ at[e] \in Nat /\ at[n] \in Nat /\ pc[n] \in ThreadLabel
    BY <1>1, <1>2, ThreadTypes
  <2>. QED
    BY <2>1, <2>2, <2>3
<1>7. Granted(n) >= k
  <2>1. CASE at[e] = 1
    BY <1>5, <1>6, <2>1
  <2>2. CASE at[e] > 1
    <3>1. k \in 1..Len(program) /\ at[e] \in 2..Len(program)
      BY <1>6, <2>2
    <3>2. ByRoot(k)
      BY <1>1, <1>3, <3>1 DEF ScansSeparated, Typed, Call, ByRoot
    <3>3. \/ at[0] > k
          \/ at[0] = k /\ pc[0] = "release" /\ e > size - 1 - wi[0]
      <4>1. Granted(e) >= k
        BY <1>5, <1>6
      <4>. QED
        BY <1>1, <1>2, <1>3, <3>1, <3>2, <4>1 DEF Grants, GrantedByRoot
    <3>4. e > size - 1 - wi[0] => n > size - 1 - wi[0]
      BY <1>2, <1>6
    <3>5. n \in Pool \ {0}
      BY <1>2
    <3>. QED
      BY <1>1, <3>1, <3>2, <3>3, <3>4, <3>5 DEF Grants, GrantedByRoot
  <2>. QED
    BY <1>6, <2>1, <2>2
<1>8. SUFFICES ASSUME Fanned(n) < at[e] PROVE FALSE
  BY <1>5, <1>6 DEF n
<1>9. Fanned(n) = Granted(n)
  BY <1>4, <1>5, <1>6, <1>7, <1>8
<1>10. CASE pc[n] \in Gathering
  BY <1>2, <1>3, <1>6, <1>10 DEF HereAt, Gathering
<1>11. CASE pc[n] \notin Gathering
  <2>1. IsGranted(n)
    BY <1>5, <1>9, <1>11
  <2>. QED
    BY <1>3, <2>1 DEF HereAt, IsGranted
<1>. QED
  BY <1>10, <1>11

(* and whose word is no longer that of its reduction                       *)
LEMMA NextScannedIsScanned ==
  ASSUME Control, Values, NEW e \in Pool, pc[e] = "next_scanned", HasNext(e), NextIsScanned(e)
  PROVE  ScannedTo(SubtreeEnd(e)) >= at[e]
<1>. DEFINE n == SubtreeEnd(e)
<1>1. Typed /\ Here /\ CopiedTree
  BY DEF Control, Values
<1>2. n \in Pool /\ e < n /\ e \in Int /\ n # 0 /\ Call(e) = "scan_large" /\ Fanned(n) >= at[e]
  <2>1. n \in Pool /\ e < n /\ e \in Int /\ e >= 0 /\ n \in Int
    BY <1>1, Intervals, PoolTree
  <2>2. Call(e) = "scan_large"
    BY <1>1 DEF Here, HereAt
  <2>. QED
    BY <2>1, <2>2 DEF Values, NextOK, NextAt
<1>3. state[n] # "ReductionAvailable"
  BY DEF NextIsScanned
<1>. HIDE DEF n
<1>4. at[n] = at[e] /\ pc[n] \notin Gathering /\ ~IsGranted(n) /\ at[n] \in Nat
      /\ pc[n] \in ThreadLabel /\ HereAt(n)
  BY <1>1, <1>2, InScan, ThreadTypes DEF Here
<1>5. pc[n] \notin {"met", "done"}
  BY <1>1, <1>2, <1>4, NotOut DEF Call
<1>6. pc[n] \in Scanned
  BY <1>3, <1>4, <1>5 DEF HereAt, Gathering, ThreadLabel, Scanned
<1>. QED
  BY <1>4, <1>6 DEF ScannedTo, n

(* What JoinNext and CopyScan read                                         *)
LEMMA ScannedThere ==
  ASSUME Control, Values, NEW e \in Pool, Call(e) = "scan_large",
         pc[e] \notin {"completed", "release"}, NEW n \in Pool, ScannedTo(n) >= at[e]
  PROVE  scanned[n] = Contributions(From(n), at[e])
<1>1. at[n] = at[e] /\ pc[n] \in Scanned
  BY InScan DEF Values
<1>2. ScannedAt(n) /\ Call(n) = "scan_large"
  BY <1>1 DEF Values, ValuesOK, Call
<1>. QED
  BY <1>1, <1>2 DEF ScannedAt

(* What Join reads                                                         *)
LEMMA JoinReads ==
  ASSUME Control, Values, NEW e \in Pool, pc[e] = "join"
  PROVE  /\ Call(e) \in Reducing /\ wi[e] < Fans(e) /\ Child(e) \in Pool
         /\ value[Child(e)] = Contributions(Subtree(Child(e), size), at[e])
<1>. DEFINE c == Child(e)
<1>1. Typed /\ Here /\ Tree /\ Grants /\ Scans
  BY DEF Control
<1>2. /\ Call(e) \in Reducing /\ wi[e] < Fans(e) /\ wi[e] \in Nat /\ Fans(e) \in Nat
      /\ at[e] \in Nat /\ at[e] \in 1..Len(program) /\ 0 \in Pool
  BY <1>1, ThreadTypes, PoolTree DEF Here, HereAt, Reducing
<1>3. wi[e] \in Fan(e) /\ c = FanChild(e, wi[e])
  BY <1>2 DEF Fan, Child
<1>4. c \in Pool /\ c # 0 /\ c \in Subtree(c, size)
  <2>1. c \in Pool /\ e < c /\ e \in Int /\ e >= 0 /\ c \in Subtree(c, size)
    BY <1>1, <1>3, PoolTree
  <2>. QED
    BY <2>1
<1>5. Fanned(c) >= at[e]
  BY <1>1, <1>3, <1>4 DEF Tree, ChildrenFanned, Awaited
<1>6. ~(Called(c) >= at[e] /\ Call(e) = "scan_large")
  BY <1>1, <1>2, <1>3 DEF Scans, CalledByParent, Call
<1>. HIDE DEF c
<1>7. Granted(c) < at[e]
  <2>1. Granted(c) <= Fanned(0) /\ Fanned(0) <= Fanned(e)
    BY <1>1, <1>4, Behind DEF Tree, Grants
  <2>2. Fanned(0) \in Nat /\ Fanned(e) \in Nat /\ Granted(c) \in Nat
    BY <1>1, <1>2, <1>4, Bounds
  <2>3. Fanned(e) = at[e] - 1
    BY DEF Fanned, Gathering
  <2>. QED
    BY <1>2, <2>1, <2>2, <2>3
<1>8. at[c] = at[e] /\ pc[c] \notin Gathering /\ ~IsGranted(c) /\ ~(IsCalled(c) /\ Call(e) = "scan_large")
  <2>1. /\ Granted(c) \in Nat /\ Granted(c) \in {at[c] - 1, at[c]} /\ Fanned(c) \in {at[c] - 1, at[c]}
        /\ IsGranted(c) <=> Granted(c) = at[c]
        /\ pc[c] \in Gathering <=> Fanned(c) # at[c]
    BY <1>1, <1>4, Bounds
  <2>2. at[c] \in Nat
    BY <1>1, <1>4, ThreadTypes
  <2>. QED
    BY <1>2, <1>5, <1>6, <1>7, <2>1, <2>2 DEF Called
<1>9. Call(c) = Call(e) /\ HereAt(c) /\ pc[c] \in ThreadLabel /\ ValueAt(c)
  BY <1>1, <1>4, <1>8, ThreadTypes DEF Call, Here, Values, ValuesOK
<1>10. pc[c] \in FannedThere
  <2>1. CASE Call(e) = "scan_large"
    <3>1. pc[c] \notin {"met", "done"}
      BY <1>1, <1>4, <1>8, <1>9, <2>1, NotOut
    <3>. QED
      BY <1>8, <1>9, <2>1, <3>1 DEF IsCalled, Gathering, ThreadLabel, FannedThere
  <2>2. CASE Call(e) = "reduce"
    <3>1. "reduce" \notin Simple /\ "reduce" \notin Collective
      BY DEF Simple, Collective
    <3>. QED
      BY <1>8, <1>9, <2>2, <3>1 DEF HereAt, Gathering, ThreadLabel, FannedThere
  <2>. QED
    BY <1>2, <2>1, <2>2 DEF Reducing
<1>11. value[c] = Contributions(Subtree(c, size), at[c])
  BY <1>2, <1>9, <1>10 DEF ValueAt, Holds
<1>. QED
  BY <1>2, <1>4, <1>8, <1>11 DEF c
-----------------------------------------------------------------------------
(* What a step does to the values                                          *)

(* A step of one thread writes no other's values, the root's apart.        *)
LEMMA ValueOthers ==
  ASSUME Control, BagsOK, NEW e \in Pool, Thread(e), ~(e = 0 /\ RootComputes),
         NEW d \in Entry, d # e
  PROVE  value'[d] = value[d] /\ scanned'[d] = scanned[d]
<1>1. CASE Begin(e) \/ FanInStep(e)
  BY <1>1 DEF BagsOK, Begin, FanInStep, Arrive, FanIn, Join, Deactivate, values
<1>2. CASE MeetStep(e)
  BY <1>2 DEF BagsOK, MeetStep, Meet, Resume, Release, Return, values
<1>3. CASE ScanStep(e)
  BY <1>3 DEF BagsOK, ScanStep, Reduced, NextReduced, NextScanned, JoinNext, ScanAvailable,
     ScanResume, Collect, Collected, CopyScan, Complete, Completed, values
<1>. QED
  BY <1>1, <1>2, <1>3 DEF Thread

(* Nor does the last of a scan_large to leave it open the root's other     *)
(* collectives.                                                            *)
LEMMA RootGrant ==
  ASSUME Control, NEW e \in Pool, Thread(e), ~(e = 0 /\ RootComputes),
         NEW d \in Pool, Call(d) \in Summed
  PROVE  Granted(0)' >= at[d] <=> Granted(0) >= at[d]
<1>1. Typed /\ 0 \in Pool /\ at[d] \in Nat /\ at[0] \in Nat
  BY PoolTree, ThreadTypes DEF Control
<1>2. CASE e # 0
  <2>1. ~(Release(e) /\ 0 = ReleasesByRank(e, wi[e]))
    <3>1. ASSUME Release(e), 0 = ReleasesByRank(e, wi[e]) PROVE FALSE
      BY <1>2, <3>1, ReleaseTarget
    <3>. QED
      BY <3>1
  <2>. QED
    BY <1>1, <1>2, <2>1, GrantedOthers
<1>3. CASE e = 0 /\ ~RootOpens(e)
  BY <1>3, GrantedSelf
<1>4. CASE e = 0 /\ RootOpens(e)
  <2>1. Completed(0) /\ Granted(0)' = at[0] /\ Granted(0) = at[0] - 1
    BY <1>4, GrantedSelf DEF RootOpens
  <2>2. Call(0) = "scan_large"
    <3>1. pc[0] = "complete"
      BY <2>1 DEF Completed, Go
    <3>. QED
      BY <1>1, <3>1 DEF Control, Here, HereAt
  <2>3. at[d] # at[0]
    BY <2>2 DEF Call, Summed
  <2>. QED
    BY <1>1, <2>1, <2>3
<1>. QED
  BY <1>2, <1>3, <1>4

(* Whoever goes on is in a collective that the root has not opened.        *)
LEMMA GatheringIsClosed ==
  ASSUME Control, NEW e \in Pool, pc[e] \in Gathering
  PROVE  ~(Granted(0) >= at[e])
<1>1. Typed /\ Tree /\ Grants /\ 0 \in Pool /\ at[e] \in Nat
  BY PoolTree, ThreadTypes DEF Control
<1>2. Granted(0) <= Fanned(0) /\ Fanned(0) <= Fanned(e)
  BY <1>1, Behind DEF Tree, Grants
<1>3. Granted(0) \in Nat /\ Fanned(0) \in Nat /\ Fanned(e) = at[e] - 1
  BY <1>1, Bounds DEF Fanned
<1>. QED
  BY <1>1, <1>2, <1>3

(* The values of the threads that do not move stay what they are.          *)
LEMMA ValueAtOthers ==
  ASSUME Control, Values, NEW e \in Pool, Thread(e), ~(e = 0 /\ RootComputes),
         NEW d \in Pool, d # e
  PROVE  ValueAt(d)' /\ ScannedAt(d)'
<1>1. Typed /\ BagsOK /\ ValueAt(d) /\ ScannedAt(d) /\ d \in Entry
  BY PoolTree DEF Control, Values, ValuesOK
<1>2. pc'[d] = pc[d] /\ at'[d] = at[d] /\ wi'[d] = wi[d] /\ Frame
  BY <1>1, Others, ReleaseChanges, CollectedChanges DEF Sets, Same
<1>3. value'[d] = value[d] /\ scanned'[d] = scanned[d]
  BY <1>1, ValueOthers
<1>4. /\ Call(d)' = Call(d) /\ Joined(d)' = Joined(d) /\ Subtree(d, size)' = Subtree(d, size)
      /\ After(d)' = After(d) /\ From(d)' = From(d) /\ \A k : Result(d, k)' = Result(d, k)
  BY <1>2 DEF Frame, Call, Joined, Fan, Fans, Subtree, Entries, After, From, Result
<1>5. Call(d) \in Summed => (Granted(0)' >= at[d] <=> Granted(0) >= at[d])
  BY RootGrant
<1>6. ValueAt(d)'
  <2>1. (Call(d) \in Summed /\ pc[d] \notin {"wait", "work"} =>
         Holds(d, IF Granted(0) >= at[d] THEN Result(d, at[d]) ELSE {d}, at[d]))'
    <3>1. SUFFICES ASSUME Call(d) \in Summed, pc[d] \notin {"wait", "work"}
                   PROVE  value[d] = Contributions(IF Granted(0)' >= at[d] THEN Result(d, at[d])'
                                                   ELSE {d}, at[d])
      BY <1>2, <1>3, <1>4 DEF Holds
    <3>2. value[d] = Contributions(IF Granted(0) >= at[d] THEN Result(d, at[d]) ELSE {d}, at[d])
      BY <1>1, <3>1 DEF ValueAt, Holds
    <3>3. CASE Granted(0) >= at[d]
      <4>1. Granted(0)' >= at[d] /\ value[d] = Contributions(Result(d, at[d]), at[d])
        BY <1>5, <3>1, <3>2, <3>3
      <4>2. value[d] = Contributions(Result(d, at[d])', at[d])
        <5>1. \A k : Result(d, k)' = Result(d, k)
          BY <1>4
        <5>. QED
          BY <1>2, <4>1, <5>1
      <4>. QED
        BY <4>1, <4>2
    <3>4. CASE ~(Granted(0) >= at[d])
      BY <1>5, <3>1, <3>2, <3>4
    <3>. QED
      BY <3>3, <3>4
  <2>2. (/\ Call(d) \in Reducing /\ pc[d] \in {"fan_in", "join"} => Holds(d, Joined(d), at[d])
         /\ Call(d) \in Reducing /\ pc[d] \in FannedThere => Holds(d, Subtree(d, size), at[d])
         /\ Call(d) = "scan_large" /\ pc[d] \in {"complete", "completed", "release"} =>
              Holds(d, After(d), at[d]))'
    BY <1>1, <1>2, <1>3, <1>4 DEF ValueAt, Holds
  <2>3. (pc[d] = "work" /\ at[d] > 1 /\ program[at[d] - 1] # "barrier" =>
           Holds(d, Result(d, at[d] - 1), at[d] - 1))'
    BY <1>1, <1>2, <1>3, <1>4 DEF ValueAt, Holds, Frame
  <2>. QED
    BY <2>1, <2>2, <2>3 DEF ValueAt
<1>7. ScannedAt(d)'
  BY <1>1, <1>2, <1>3, <1>4 DEF ScannedAt
<1>. QED
  BY <1>6, <1>7
-----------------------------------------------------------------------------
(* The values of the thread that moves                                     *)

(* What a step keeps of the terms the values are stated in                 *)
LEMMA FrameKeeps ==
  ASSUME Frame, NEW e
  PROVE  /\ Pool' = Pool /\ Fan(e)' = Fan(e) /\ Fans(e)' = Fans(e)
         /\ Subtree(e, size)' = Subtree(e, size) /\ After(e)' = After(e) /\ From(e)' = From(e)
         /\ SubtreeEnd(e)' = SubtreeEnd(e) /\ HasNext(e)' = HasNext(e)
         /\ \A k : Result(e, k)' = Result(e, k)
BY DEF Frame, Fan, Fans, Subtree, Entries, After, From, SubtreeEnd, HasNext, Result

(* What e has joined before the first                                      *)
LEMMA JoinedNone ==
  ASSUME Typed, NEW e \in Pool, Frame, wi'[e] = 0
  PROVE  Joined(e)' = {e}
<1>1. Fan(e)' = Fan(e) /\ Fans(e) \in Nat
  BY FrameKeeps, PoolTree
<1>2. \A i \in Fan(e) : ~(i < 0)
  BY <1>1 DEF Fan
<1>. QED
  BY <1>1, <1>2 DEF Joined

(* A thread that keeps its value as it goes on in a collective             *)
Continues(e) ==
  /\ pc[e] \notin {"wait", "work"} /\ pc'[e] \notin {"wait", "work"} /\ at'[e] = at[e]
  /\ Call(e) \in Reducing =>
       /\ pc'[e] \in {"fan_in", "join"} => pc[e] \in {"fan_in", "join"} /\ wi'[e] = wi[e]
       /\ pc'[e] \in FannedThere => \/ pc[e] \in FannedThere
                                    \/ pc[e] = "fan_in" /\ wi[e] >= Fans(e)
  /\ Call(e) = "scan_large" /\ pc'[e] \in {"complete", "completed", "release"} =>
       pc[e] \in {"complete", "completed", "release"}

(* keeps what is known of it,                                              *)
LEMMA ContinuedValue ==
  ASSUME Control, Values, NEW e \in Pool, Thread(e), ~(e = 0 /\ RootComputes), Frame,
         Continues(e), value'[e] = value[e]
  PROVE  ValueAt(e)'
<1>1. Typed /\ ValueAt(e)
  BY DEF Control, Values, ValuesOK
<1>2. Call(e)' = Call(e) /\ at'[e] = at[e]
  BY DEF Frame, Call, Continues
<1>3. \A k : Result(e, k)' = Result(e, k)
  BY FrameKeeps
<1>4. Subtree(e, size)' = Subtree(e, size) /\ After(e)' = After(e) /\ Fan(e)' = Fan(e) /\ Pool' = Pool
  BY FrameKeeps
<1>5. wi'[e] = wi[e] => Joined(e)' = Joined(e)
  BY <1>4 DEF Joined, Frame, Subtree, Entries
<1>6. (Call(e) \in Summed /\ pc[e] \notin {"wait", "work"} =>
         Holds(e, IF Granted(0) >= at[e] THEN Result(e, at[e]) ELSE {e}, at[e]))'
  <2>1. SUFFICES ASSUME Call(e) \in Summed
                 PROVE  value[e] = Contributions(IF Granted(0)' >= at[e] THEN Result(e, at[e])'
                                                 ELSE {e}, at[e])
    BY <1>2 DEF Holds
  <2>2. value[e] = Contributions(IF Granted(0) >= at[e] THEN Result(e, at[e]) ELSE {e}, at[e])
    BY <1>1, <2>1 DEF ValueAt, Holds, Continues
  <2>3. Granted(0)' >= at[e] <=> Granted(0) >= at[e]
    BY <2>1, RootGrant
  <2>4. CASE Granted(0) >= at[e]
    <3>1. Granted(0)' >= at[e] /\ value[e] = Contributions(Result(e, at[e]), at[e])
      BY <2>2, <2>3, <2>4
    <3>2. value[e] = Contributions(Result(e, at[e])', at[e])
      BY <1>2, <1>3, <3>1
    <3>. QED
      BY <3>1, <3>2
  <2>5. CASE ~(Granted(0) >= at[e])
    BY <2>2, <2>3, <2>5
  <2>. QED
    BY <2>4, <2>5
<1>7. (Call(e) \in Reducing /\ pc[e] \in {"fan_in", "join"} => Holds(e, Joined(e), at[e]))'
  BY <1>1, <1>2, <1>5 DEF ValueAt, Holds, Continues
<1>8. (Call(e) \in Reducing /\ pc[e] \in FannedThere => Holds(e, Subtree(e, size), at[e]))'
  <2>1. wi[e] >= Fans(e) => Joined(e) = Subtree(e, size)
    BY <1>1, JoinedFacts
  <2>. QED
    BY <1>1, <1>2, <1>4, <2>1 DEF ValueAt, Holds, Continues
<1>9. (Call(e) = "scan_large" /\ pc[e] \in {"complete", "completed", "release"} =>
         Holds(e, After(e), at[e]))'
  BY <1>1, <1>2, <1>4 DEF ValueAt, Holds, Continues
<1>10. pc'[e] # "work"
  BY DEF Continues
<1>. QED
  BY <1>6, <1>7, <1>8, <1>9, <1>10 DEF ValueAt

(* which most steps of a collective are                                    *)
LEMMA ContinuesThread ==
  ASSUME Control, BagsOK, NEW e \in Pool, Thread(e), ~(e = 0 /\ RootComputes),
         ~Begin(e), ~Arrive(e), ~Join(e), ~Return(e), ~CopyScan(e)
  PROVE  Continues(e) /\ value'[e] = value[e]
<1>1. Typed /\ HereAt(e) /\ e \in Entry
  BY PoolTree DEF Control, Here
<1>2. "fan_in" \notin FannedThere /\ "join" \notin FannedThere /\ "met" \notin FannedThere
      /\ "release" \notin FannedThere /\ "complete" \notin FannedThere
      /\ "completed" \notin FannedThere
      /\ {"next_reduced", "next_scanned", "next_join", "scanned", "available", "collect",
          "collected", "done"} \subseteq FannedThere
  BY DEF FannedThere
<1>3. Simple \cap Reducing = {} /\ {"reduce", "scan_large"} = Reducing
  BY DEF Simple, Reducing
<1>4. CASE FanIn(e)
  BY <1>1, <1>2, <1>3, <1>4 DEF FanIn, Loop, Typed, Continues, values
<1>5. CASE Deactivate(e)
  BY <1>1, <1>2, <1>3, <1>5 DEF Deactivate, FannedIn, Go, Typed, Continues, values
<1>6. CASE Meet(e)
  BY <1>1, <1>2, <1>3, <1>6 DEF Meet, FannedIn, Go, Typed, Continues, values
<1>7. CASE Resume(e)
  BY <1>1, <1>2, <1>3, <1>7 DEF Resume, Go, Typed, Continues, values, HereAt
<1>8. CASE Release(e)
  BY <1>1, <1>2, <1>3, <1>8 DEF Release, Typed, Continues, values
<1>9. CASE Reduced(e)
  BY <1>1, <1>2, <1>3, <1>9 DEF Reduced, FannedIn, Go, Typed, Continues, values
<1>10. CASE NextReduced(e) \/ NextScanned(e) \/ JoinNext(e) \/ ScanAvailable(e)
  BY <1>1, <1>2, <1>3, <1>10 DEF NextReduced, NextScanned, JoinNext, ScanAvailable, Go, Typed,
     Continues, values
<1>11. CASE ScanResume(e) \/ Collect(e) \/ Collected(e)
  BY <1>1, <1>2, <1>3, <1>11 DEF ScanResume, Collect, Collected, Go, Typed, Continues, values
<1>12. CASE Complete(e) \/ Completed(e)
  BY <1>1, <1>2, <1>3, <1>12 DEF Complete, Completed, Go, Typed, Continues, values
<1>. QED
  BY <1>4, <1>5, <1>6, <1>7, <1>8, <1>9, <1>10, <1>11, <1>12
     DEF Thread, FanInStep, MeetStep, ScanStep

(* The first functor has returned from nothing.                            *)
LEMMA BeginValue ==
  ASSUME Control, NEW e \in Pool, Begin(e)
  PROVE  ValueAt(e)'
<1>1. pc'[e] = "work" /\ at'[e] = 1
  BY PoolTree DEF Control, Typed, Here, HereAt, Begin, Go
<1>. QED
  BY <1>1 DEF ValueAt, FannedThere

(* A thread begins with what it contributes,                               *)
LEMMA ArriveValue ==
  ASSUME Control, Values, NEW e \in Pool, Arrive(e)
  PROVE  ValueAt(e)'
<1>1. Typed /\ DOMAIN value = Entry /\ e \in Entry
  BY PoolTree DEF Control, Values, BagsOK
<1>2. /\ pc[e] = "work" /\ pc'[e] = "fan_in" /\ wi'[e] = 0 /\ at'[e] = at[e] /\ Frame
      /\ state' = state /\ Call(e)' = Call(e)
  BY <1>1 DEF Arrive, Go, Loop, Typed, launch, Frame, Call
<1>3. Joined(e)' = {e}
  BY <1>1, <1>2, JoinedNone
<1>4. Call(e) \notin {"barrier", "fan_in"} => value'[e] = Contributions({e}, at[e])
  BY <1>1, OneContribution DEF Arrive
<1>5. ~(Granted(0)' >= at[e])
  <2>1. ~(Granted(0) >= at[e])
    BY <1>2, GatheringIsClosed DEF Gathering
  <2>2. pc'[0] = "release" <=> pc[0] = "release"
    BY <1>1, <1>2, PoolTree DEF Arrive, Go, Typed
  <2>3. (pc'[0] = "met" <=> pc[0] = "met") /\ (pc'[0] = "completed" <=> pc[0] = "completed")
    BY <1>1, <1>2, PoolTree DEF Arrive, Go, Typed
  <2>4. at' = at
    BY DEF Arrive
  <2>5. Granted(0)' = Granted(0)
    BY <1>2, <2>2, <2>3, <2>4 DEF Granted, IsGranted
  <2>. QED
    BY <2>1, <2>5
<1>6. (Call(e) \in Summed /\ pc[e] \notin {"wait", "work"} =>
         Holds(e, IF Granted(0) >= at[e] THEN Result(e, at[e]) ELSE {e}, at[e]))'
  BY <1>2, <1>4, <1>5 DEF Summed, Holds
<1>7. (Call(e) \in Reducing /\ pc[e] \in {"fan_in", "join"} => Holds(e, Joined(e), at[e]))'
  BY <1>2, <1>3, <1>4 DEF Reducing, Holds
<1>. QED
  BY <1>2, <1>6, <1>7 DEF ValueAt, FannedThere

(* joins the subtree of one child after the other,                         *)
LEMMA JoinValue ==
  ASSUME Control, Values, NEW e \in Pool, Join(e)
  PROVE  ValueAt(e)'
<1>1. Typed /\ DOMAIN value = Entry /\ e \in Entry /\ ValueAt(e)
  BY PoolTree DEF Control, Values, ValuesOK, BagsOK
<1>2. /\ pc[e] = "join" /\ pc'[e] = "fan_in" /\ wi'[e] = wi[e] + 1 /\ at'[e] = at[e] /\ Frame
      /\ Call(e)' = Call(e) /\ value'[e] = value[e] (+) value[Child(e)]
  BY <1>1 DEF Join, Go, Loop, Typed, launch, Frame, Call
<1>3. /\ Call(e) \in Reducing /\ wi[e] < Fans(e)
      /\ value[Child(e)] = Contributions(Subtree(Child(e), size), at[e])
  BY <1>2, JoinReads
<1>4. value[e] = Contributions(Joined(e), at[e])
  BY <1>1, <1>2, <1>3 DEF ValueAt, Holds
<1>5. Joined(e) \cap Subtree(Child(e), size) = {}
  BY <1>1, <1>3, JoinedFacts
<1>6. Joined(e)' = Joined(e) \cup Subtree(Child(e), size)
  BY <1>1, <1>2, <1>3, JoinedNext
<1>7. value'[e] = Contributions(Joined(e)', at[e])
  BY <1>2, <1>3, <1>4, <1>5, <1>6, ContributionsJoin
<1>8. Call(e) \notin Summed
  BY <1>3 DEF Summed, Reducing
<1>. QED
  BY <1>2, <1>7, <1>8 DEF ValueAt, FannedThere, Holds

(* returns with what the collective has left it,                           *)
LEMMA ReturnValue ==
  ASSUME Control, Values, NEW e \in Pool, Return(e)
  PROVE  ValueAt(e)'
<1>1. Typed /\ e \in Entry /\ ValueAt(e) /\ HereAt(e) /\ at[e] \in Nat /\ at[e] >= 1 /\ 0 \in Pool
  BY PoolTree, ThreadTypes DEF Control, Here, Values, ValuesOK
<1>2. pc[e] = "release" /\ pc'[e] = "work" /\ at'[e] = at[e] + 1 /\ Frame /\ value' = value
  BY ReturnChanges DEF Return, launch, Frame, values
<1>3. Call(e) \in Collective
  BY <1>1, <1>2 DEF HereAt
<1>4. \A k : Result(e, k)' = Result(e, k)
  BY <1>2, FrameKeeps
<1>5. ASSUME Call(e) # "barrier" PROVE value[e] = Contributions(Result(e, at[e]), at[e])
  <2>1. CASE Call(e) \in Summed
    <3>1. Granted(0) >= at[e]
      <4>1. Granted(e) = at[e]
        BY <1>2 DEF Granted, IsGranted
      <4>. QED
        BY <4>1 DEF Control, Grants, GrantedLast
    <3>. QED
      BY <1>1, <1>2, <2>1, <3>1 DEF ValueAt, Holds
  <2>2. CASE Call(e) = "scan_large"
    <3>1. Result(e, at[e]) = After(e)
      BY <2>2 DEF Result, Call
    <3>. QED
      BY <1>1, <1>2, <2>2, <3>1 DEF ValueAt, Holds
  <2>. QED
    BY <1>3, <1>5, <2>1, <2>2 DEF Collective, Summed
<1>6. at'[e] - 1 = at[e]
  BY <1>1, <1>2
<1>7. program'[at'[e] - 1] = Call(e) /\ Result(e, at[e] - 1)' = Result(e, at[e])
      /\ value'[e] = value[e]
  <2>1. Result(e, at[e] - 1)' = Result(e, at[e])
    BY <1>2, <1>6 DEF Frame, Result, After, Entries
  <2>. QED
    BY <1>2, <1>6, <2>1 DEF Frame, Call
<1>8. (program[at[e] - 1] # "barrier" => Holds(e, Result(e, at[e] - 1), at[e] - 1))'
  BY <1>5, <1>6, <1>7 DEF Holds
<1>. QED
  BY <1>2, <1>8 DEF ValueAt, FannedThere

(* and copies the scan of the thread before it in rank.                    *)
LEMMA CopyScanValue ==
  ASSUME Control, Values, NEW e \in Pool, CopyScan(e)
  PROVE  ValueAt(e)'
<1>1. /\ Typed /\ DOMAIN value = Entry /\ e \in Entry /\ e \in Int /\ e >= 0 /\ size \in Nat
      /\ Fans(e) \in Nat /\ wi[e] \in Nat
  BY PoolTree, ThreadTypes DEF Control, Values, BagsOK
<1>2. /\ pc[e] = "collect" /\ pc'[e] = "complete" /\ at'[e] = at[e] /\ Frame /\ wi[e] >= Fans(e)
      /\ Call(e)' = Call(e)
      /\ value'[e] = IF e + 1 < size THEN scanned[e + 1] ELSE EmptyBag
  BY <1>1 DEF CopyScan, Go, Typed, launch, Frame, Call
<1>3. Call(e) = "scan_large"
  BY <1>2 DEF Control, Here, HereAt
<1>4. CASE e + 1 < size
  <2>1. e + 1 \in Pool
    BY <1>1, <1>4 DEF Entries
  <2>2. After(e) = From(e + 1)
    <3>1. \A d \in Pool : d > e <=> d >= e + 1
      BY <1>1, PoolTree
    <3>. QED
      BY <3>1 DEF After, From
  <2>3. scanned[e + 1] = Contributions(From(e + 1), at[e])
    <3>1. CASE Fans(e) = 0
      <4>1. SubtreeEnd(e) = e + 1 /\ HasNext(e)
        BY <1>1, <1>4, <3>1, Intervals DEF HasNext
      <4>2. ScannedTo(e + 1) >= at[e]
        BY <1>2, <1>3, <4>1 DEF Values, NextOK, NextAt, Scanned
      <4>. QED
        BY <1>2, <1>3, <2>1, <4>2, ScannedThere
    <3>2. CASE Fans(e) > 0
      <4>1. 0 \in Fan(e) /\ FanChild(e, 0) = e + 1
        BY <1>1, <3>2, Intervals DEF Fan
      <4>2. Down(e, 0)
        BY <1>1, <1>2, <3>2 DEF Down
      <4>3. /\ at[e + 1] = at[e] /\ Call(e + 1) = "scan_large" /\ ~IsGranted(e + 1)
            /\ IsCalled(e + 1)
        BY <1>2, <4>1, <4>2, ChildInScan
      <4>4. pc[e + 1] \in Scanned
        BY <4>3 DEF IsCalled, Scanned
      <4>5. ScannedAt(e + 1)
        BY <2>1 DEF Values, ValuesOK
      <4>. QED
        BY <4>3, <4>4, <4>5 DEF ScannedAt
    <3>. QED
      BY <1>1, <3>1, <3>2
  <2>4. value'[e] = Contributions(After(e), at[e])
    BY <1>2, <1>4, <2>2, <2>3
  <2>5. (Holds(e, After(e), at[e]))'
    BY <1>2, <2>4, FrameKeeps DEF Holds
  <2>. QED
    BY <1>2, <1>3, <2>5 DEF ValueAt, FannedThere, Summed
<1>5. CASE ~(e + 1 < size)
  <2>1. After(e) = {}
    <3>1. \A d \in Pool : ~(d > e)
      BY <1>1, <1>5 DEF Entries
    <3>. QED
      BY <3>1 DEF After
  <2>2. value'[e] = Contributions(After(e), at[e])
    BY <1>2, <1>5, <2>1, NoContributions
  <2>3. (Holds(e, After(e), at[e]))'
    BY <1>2, <2>2, FrameKeeps DEF Holds
  <2>. QED
    BY <1>2, <1>3, <2>3 DEF ValueAt, FannedThere, Summed
<1>. QED
  BY <1>4, <1>5

(* The scans of the thread that moves                                      *)
LEMMA ScannedSelf ==
  ASSUME Control, Values, NEW e \in Pool, Thread(e), ~(e = 0 /\ RootComputes)
  PROVE  ScannedAt(e)'
<1>1. /\ Typed /\ DOMAIN scanned = Entry /\ e \in Entry /\ ScannedAt(e) /\ ValueAt(e) /\ HereAt(e)
      /\ pc[e] \in ThreadLabel
  BY PoolTree, ThreadTypes DEF Control, Here, Values, ValuesOK, BagsOK
<1>2. Frame
  BY <1>1, Others, ReleaseChanges, CollectedChanges DEF Sets
<1>3. Subtree(e, size)' = Subtree(e, size) /\ From(e)' = From(e)
  BY <1>2, FrameKeeps
<1>4. CASE Reduced(e)
  <2>1. /\ pc[e] = "fan_in" /\ wi[e] >= Fans(e) /\ Call(e) = "scan_large" /\ at'[e] = at[e]
        /\ scanned'[e] = value[e]
        /\ e = 0 => pc'[e] = "collect"
        /\ e # 0 => pc'[e] = IF HasNext(e) THEN "next_reduced" ELSE "scanned"
    BY <1>1, <1>4 DEF Reduced, FannedIn, Go, Typed
  <2>2. Joined(e) = Subtree(e, size)
    BY <1>1, <2>1, JoinedFacts
  <2>3. scanned'[e] = Contributions(Subtree(e, size), at[e])
    BY <1>1, <2>1, <2>2 DEF ValueAt, Reducing, Holds
  <2>4. ~HasNext(e) => Subtree(e, size) = From(e)
    BY <1>1, Intervals
  <2>5. e = 0 => ~HasNext(e)
    BY <1>1, RootHasNoNext
  <2>. QED
    BY <1>3, <2>1, <2>3, <2>4, <2>5 DEF ScannedAt, Scanned
<1>5. CASE JoinNext(e)
  <2>1. /\ pc[e] = "next_join" /\ pc'[e] = "scanned" /\ at'[e] = at[e]
        /\ scanned'[e] = scanned[e] (+) scanned[SubtreeEnd(e)]
    BY <1>1, <1>5 DEF JoinNext, Go, Typed
  <2>2. Call(e) = "scan_large"
    BY <1>1, <2>1 DEF HereAt
  <2>3. HasNext(e)
    BY <2>1 DEF Values, NextOK, NextAt
  <2>4. ScannedTo(SubtreeEnd(e)) >= at[e]
    BY <2>1, <2>2, <2>3 DEF Values, NextOK, NextAt
  <2>5. /\ SubtreeEnd(e) \in Pool
        /\ Subtree(e, size) \cap From(SubtreeEnd(e)) = {}
        /\ Subtree(e, size) \cup From(SubtreeEnd(e)) = From(e)
    BY <1>1, <2>3, Intervals
  <2>6. scanned[SubtreeEnd(e)] = Contributions(From(SubtreeEnd(e)), at[e])
    BY <2>1, <2>2, <2>4, <2>5, ScannedThere
  <2>7. scanned[e] = Contributions(Subtree(e, size), at[e])
    BY <1>1, <2>1, <2>2 DEF ScannedAt
  <2>8. scanned'[e] = Contributions(From(e), at[e])
    BY <2>1, <2>5, <2>6, <2>7, ContributionsJoin
  <2>. QED
    BY <1>3, <2>1, <2>8 DEF ScannedAt
<1>6. CASE pc'[e] \in {"wait", "work", "fan_in", "join", "met", "done"}
  BY <1>6 DEF ScannedAt, Scanned
<1>7. ASSUME scanned'[e] = scanned[e], at'[e] = at[e],
             Call(e) = "scan_large" =>
               /\ pc'[e] \in {"next_reduced", "next_scanned", "next_join"} =>
                    pc[e] \in {"next_reduced", "next_scanned", "next_join"}
               /\ pc'[e] = "scanned" \/ pc'[e] \in Scanned => pc[e] = "scanned" \/ pc[e] \in Scanned
      PROVE  ScannedAt(e)'
  BY <1>1, <1>2, <1>3, <1>7 DEF ScannedAt, Call, Frame
<1>8. {"available", "collect", "collected", "complete", "completed", "release"} = Scanned
      /\ "scan_large" \notin Simple
  BY DEF Scanned, Simple
<1>9. CASE Begin(e) \/ FanInStep(e) \/ Meet(e) \/ Return(e)
  BY <1>1, <1>6, <1>9 DEF Begin, FanInStep, Arrive, FanIn, Join, Deactivate, Meet, Return, Go, Typed
<1>10. CASE Resume(e) \/ Release(e)
  BY <1>1, <1>7, <1>8, <1>10 DEF Resume, Release, Go, Typed, HereAt, values
<1>11. CASE NextReduced(e) \/ NextScanned(e) \/ ScanAvailable(e) \/ ScanResume(e)
  BY <1>1, <1>7, <1>8, <1>11 DEF NextReduced, NextScanned, ScanAvailable, ScanResume, Go, Typed, values
<1>12. CASE Collect(e) \/ Collected(e) \/ CopyScan(e) \/ Complete(e) \/ Completed(e)
  BY <1>1, <1>7, <1>8, <1>12 DEF Collect, Collected, CopyScan, Complete, Completed, Go, Typed, values
<1>. QED
  BY <1>4, <1>5, <1>9, <1>10, <1>11, <1>12 DEF Thread, MeetStep, ScanStep
-----------------------------------------------------------------------------
(* What the root computes for everybody                                    *)

(* When the root computes, everybody has contributed and waits.            *)
LEMMA AllHaveMet ==
  ASSUME Control, RootComputes, NEW d \in Pool
  PROVE  at[d] = at[0] /\ pc[d] = (IF d = 0 THEN "fan_in" ELSE "met") /\ ~(Granted(0) >= at[0])
<1>1. Typed /\ Here /\ Tree /\ Grants /\ 0 \in Pool /\ Subtree(0, size) = Pool /\ at[0] \in Nat
  BY PoolTree, ThreadTypes DEF Control
<1>2. pc[0] = "fan_in" /\ wi[0] >= Fans(0) /\ Call(0) \in Simple
  BY DEF RootComputes, FannedIn
<1>3. ~(Granted(0) >= at[0])
  BY <1>1, <1>2, GatheringIsClosed DEF Gathering
<1>4. CASE d # 0
  <2>1. PICK i \in Fan(0) : d \in Subtree(FanChild(0, i), size)
    BY <1>1, <1>4, PoolTree
  <2>2. Awaited(0, i)
    <3>1. i \in Int /\ i < Fans(0) /\ Fans(0) \in Int /\ wi[0] \in Int
      BY <1>1, ThreadTypes, PoolTree DEF Fan
    <3>. QED
      BY <1>2, <3>1 DEF Awaited
  <2>3. Fanned(d) >= at[0]
    BY <1>1, <1>2, <2>1, <2>2 DEF Tree, ChildrenFanned
  <2>4. Granted(d) <= Granted(0) /\ Granted(0) \in Nat
    BY <1>1, Bounds DEF Grants, GrantedLast
  <2>5. /\ Granted(d) \in Nat /\ Granted(d) \in {at[d] - 1, at[d]} /\ Fanned(d) \in {at[d] - 1, at[d]}
        /\ IsGranted(d) <=> Granted(d) = at[d]
        /\ pc[d] \in Gathering <=> Fanned(d) # at[d]
    BY <1>1, Bounds
  <2>6. at[d] \in Nat
    BY <1>1, ThreadTypes
  <2>7. at[d] = at[0] /\ pc[d] \notin Gathering /\ ~IsGranted(d)
    BY <1>1, <1>3, <2>3, <2>4, <2>5, <2>6
  <2>8. pc[d] = "met"
    BY <1>1, <1>2, <1>4, <2>7, NotOut DEF Call
  <2>. QED
    BY <1>3, <1>4, <2>7, <2>8
<1>. QED
  BY <1>2, <1>3, <1>4

(* It leaves to everybody what the collective should.                      *)
LEMMA RootValues ==
  ASSUME Control, Values, RootComputes
  PROVE  /\ (\A d \in Pool : ValueAt(d) /\ ScannedAt(d))' /\ BagsOK'
<1>1. /\ Typed /\ BagsOK /\ 0 \in Pool /\ size \in Nat \ {0} /\ at[0] \in Nat
      /\ \A d \in Pool : d \in Entry /\ d \in Int /\ d >= 0 /\ d < size
  BY PoolTree, ThreadTypes DEF Control, Values, Entries
<1>2. /\ Call(0) \in Simple /\ at' = at /\ Frame /\ pc'[0] = "release"
      /\ \A d \in Pool : d # 0 => pc'[d] = pc[d]
  <2>1. pc' = [pc EXCEPT ![0] = "release"] /\ at' = at /\ Call(0) \in Simple /\ Frame
    BY DEF RootComputes, Go, launch, Frame
  <2>. QED
    BY <1>1, <2>1 DEF Typed
<1>3. \A d \in Pool : at[d] = at[0] /\ pc'[d] \in {"met", "release"} /\ Call(d)' = Call(0)
  BY <1>1, <1>2, AllHaveMet DEF Call, Frame
<1>4. "scan_large" \notin Simple /\ Simple \cap Reducing = {}
  BY DEF Simple, Reducing
<1>5. \A d \in Pool : ScannedAt(d)'
  BY <1>2, <1>3, <1>4 DEF ScannedAt
<1>6. ASSUME Call(0) \in Summed, NEW d \in Pool
      PROVE  value[d] = Contribution(d, at[0])
  <2>1. value[d] = Contributions({d}, at[0])
    <3>1. at[d] = at[0] /\ pc[d] \in {"met", "fan_in"} /\ ~(Granted(0) >= at[0])
      BY AllHaveMet
    <3>2. Call(d) \in Summed /\ ValueAt(d)
      BY <1>6, <3>1 DEF Call, Values, ValuesOK
    <3>. QED
      BY <3>1, <3>2 DEF ValueAt, Holds
  <2>. QED
    BY <2>1, OneContribution
<1>7. Granted(0)' = at[0]
  BY <1>2 DEF Granted, IsGranted
<1>8. ASSUME NEW d \in Pool,
             Call(0) \in Summed => value'[d] = Contributions(Result(d, at[0]), at[0])
      PROVE  ValueAt(d)'
  <2>1. Result(d, at[d])' = Result(d, at[0])
    <3>1. at'[d] = at[0]
      BY <1>2, <1>3
    <3>. QED
      BY <1>2, <3>1 DEF Result, After, Frame, Entries
  <2>2. Call(0) \in Summed => (Holds(d, Result(d, at[d]), at[d]))'
    BY <1>2, <1>3, <1>8, <2>1 DEF Holds
  <2>3. Granted(0)' >= at'[d]
    BY <1>1, <1>2, <1>3, <1>7
  <2>4. (Call(d) \in Summed /\ pc[d] \notin {"wait", "work"} =>
           Holds(d, IF Granted(0) >= at[d] THEN Result(d, at[d]) ELSE {d}, at[d]))'
    BY <1>3, <2>2, <2>3
  <2>. QED
    BY <1>2, <1>3, <1>4, <2>4 DEF ValueAt, FannedThere
<1>9. CASE Call(0) = "barrier"
  <2>1. UNCHANGED values
    BY <1>9 DEF RootComputes
  <2>2. BagsOK'
    BY <1>1, <2>1 DEF BagsOK, values
  <2>3. Call(0) \notin Summed
    BY <1>9 DEF Summed
  <2>. QED
    BY <1>2, <1>5, <1>8, <2>2, <2>3 DEF Frame, Entries
<1>10. CASE Call(0) = "all_reduce"
  <2>1. /\ value' = [e \in Entry |-> IF e \in Pool THEN Sum[size - 1] ELSE value[e]]
        /\ scanned' = scanned
    BY <1>10 DEF RootComputes
  <2>2. Call(0) \in Summed /\ size - 1 \in Nat /\ Pool = 0..(size - 1)
    BY <1>1, <1>10 DEF Summed, Entries
  <2>3. Sum[size - 1] = Contributions(Pool, at[0])
    <3>1. \A e \in 0..(size - 1) : value[e] = Contribution(e, at[0])
      BY <1>6, <2>2
    <3>. QED
      BY <2>2, <3>1, SumIs
  <2>4. \A d \in Pool : value'[d] = Contributions(Result(d, at[0]), at[0])
    BY <1>1, <1>10, <2>1, <2>3 DEF Result, Call
  <2>5. BagsOK'
    <3>1. IsABag(Sum[size - 1])
      BY <2>3, ContributionsAreBags
    <3>. QED
      BY <1>1, <2>1, <3>1 DEF BagsOK
  <2>. QED
    BY <1>2, <1>5, <1>8, <2>4, <2>5 DEF Frame, Entries
<1>11. CASE Call(0) = "scan_small"
  <2>1. /\ value' = [e \in Entry |-> IF e \in Pool THEN Exclusive[size - 1 - e] ELSE value[e]]
        /\ scanned' = [e \in Entry |-> IF e \in Pool THEN Exclusive[size - e] ELSE scanned[e]]
    BY <1>11 DEF RootComputes
  <2>2. Call(0) \in Summed /\ Pool = 0..(size - 1)
    BY <1>11 DEF Summed, Entries
  <2>3. \A e \in 0..(size - 1) : value[e] = Contribution(e, at[0])
    BY <1>6, <2>2
  <2>4. \A n \in Nat : n <= size =>
          Exclusive[n] = Contributions((size - n)..(size - 1), at[0])
    BY <1>1, <2>3, ExclusiveIs
  <2>5. ASSUME NEW d \in Pool
        PROVE  /\ value'[d] = Contributions(Result(d, at[0]), at[0])
               /\ IsABag(value'[d]) /\ IsABag(scanned'[d])
    <3>1. size - 1 - d \in Nat /\ size - 1 - d <= size /\ size - d \in Nat /\ size - d <= size
      BY <1>1
    <3>2. Result(d, at[0]) = (size - (size - 1 - d))..(size - 1)
      <4>1. Result(d, at[0]) = {x \in 0..(size - 1) : x > d}
        BY <1>11, <2>2 DEF Result, Call, After
      <4>. QED
        BY <1>1, <4>1
    <3>3. Exclusive[size - 1 - d] = Contributions(Result(d, at[0]), at[0])
      BY <2>4, <3>1, <3>2
    <3>4. IsABag(Exclusive[size - d])
      BY <2>4, <3>1, ContributionsAreBags
    <3>5. value'[d] = Exclusive[size - 1 - d] /\ scanned'[d] = Exclusive[size - d]
      BY <1>1, <2>1
    <3>. QED
      BY <3>3, <3>4, <3>5, ContributionsAreBags
  <2>6. BagsOK'
    BY <1>1, <2>1, <2>5 DEF BagsOK
  <2>. QED
    BY <1>2, <1>5, <1>8, <2>5, <2>6 DEF Frame, Entries
<1>. QED
  BY <1>2, <1>9, <1>10, <1>11 DEF Simple
-----------------------------------------------------------------------------
(* The values are bags                                                     *)

(* The values stay bags.                                                   *)
LEMMA BagsThread ==
  ASSUME Control, Values, NEW e \in Pool, Thread(e), ~(e = 0 /\ RootComputes)
  PROVE  BagsOK'
<1>1. /\ Typed /\ BagsOK /\ e \in Entry /\ DOMAIN value = Entry /\ DOMAIN scanned = Entry
      /\ \A d \in Entry : IsABag(value[d]) /\ IsABag(scanned[d])
  BY PoolTree DEF Control, Values, BagsOK
<1>2. \A d \in Entry : d # e => value'[d] = value[d] /\ scanned'[d] = scanned[d]
  BY <1>1, ValueOthers
<1>3. DOMAIN value' = Entry /\ DOMAIN scanned' = Entry
  <2>1. CASE Begin(e) \/ FanInStep(e) \/ MeetStep(e)
    BY <1>1, <2>1 DEF Begin, FanInStep, Arrive, FanIn, Join, Deactivate, MeetStep, Meet, Resume,
       Release, Return, values
  <2>2. CASE ScanStep(e)
    BY <1>1, <2>2 DEF ScanStep, Reduced, NextReduced, NextScanned, JoinNext, ScanAvailable,
       ScanResume, Collect, Collected, CopyScan, Complete, Completed, values
  <2>. QED
    BY <2>1, <2>2 DEF Thread
<1>4. IsABag(value'[e])
  <2>1. CASE Arrive(e)
    <3>1. value'[e] = value[e] \/ value'[e] = Contributions({e}, at[e])
      BY <1>1, <2>1, OneContribution DEF Arrive
    <3>. QED
      BY <1>1, <3>1, ContributionsAreBags
  <2>2. CASE Join(e)
    <3>1. Child(e) \in Pool /\ value'[e] = value[e] (+) value[Child(e)]
      BY <1>1, <2>2, JoinReads DEF Join, Go
    <3>2. Child(e) \in Entry
      BY <1>1, <3>1, PoolTree
    <3>. QED
      BY <1>1, <3>1, <3>2, JoinedBags
  <2>3. CASE CopyScan(e)
    <3>1. value'[e] = IF e + 1 < size THEN scanned[e + 1] ELSE EmptyBag
      BY <1>1, <2>3 DEF CopyScan
    <3>2. e + 1 < size => e + 1 \in Entry
      <4>1. e \in Int /\ e >= 0 /\ size \in Nat /\ size <= MaxThreads
        BY <1>1, PoolTree DEF Typed
      <4>. QED
        BY <4>1
    <3>3. IsABag(EmptyBag)
      BY NoContributions, ContributionsAreBags
    <3>. QED
      BY <1>1, <3>1, <3>2, <3>3
  <2>4. CASE Begin(e)
    BY <1>1, <2>4 DEF Begin, values
  <2>5. CASE Return(e)
    BY <1>1, <2>5 DEF Return, values
  <2>6. CASE ~Begin(e) /\ ~Arrive(e) /\ ~Join(e) /\ ~Return(e) /\ ~CopyScan(e)
    BY <1>1, <2>6, ContinuesThread
  <2>. QED
    BY <2>1, <2>2, <2>3, <2>4, <2>5, <2>6
<1>5. IsABag(scanned'[e])
  <2>1. CASE Meet(e) \/ Reduced(e)
    BY <1>1, <2>1 DEF Meet, Reduced
  <2>2. CASE JoinNext(e)
    <3>1. pc[e] = "next_join" /\ scanned'[e] = scanned[e] (+) scanned[SubtreeEnd(e)]
      BY <1>1, <2>2 DEF JoinNext, Go
    <3>2. SubtreeEnd(e) \in Pool
      BY <1>1, <3>1, Intervals DEF Values, NextOK, NextAt
    <3>3. SubtreeEnd(e) \in Entry
      BY <1>1, <3>2, PoolTree
    <3>. QED
      BY <1>1, <3>1, <3>3, JoinedBags
  <2>3. CASE ~Meet(e) /\ ~Reduced(e) /\ ~JoinNext(e)
    <3>1. scanned' = scanned
      BY <2>3 DEF Thread, Begin, FanInStep, Arrive, FanIn, Join, Deactivate, MeetStep, Resume,
         Release, Return, ScanStep, NextReduced, NextScanned, ScanAvailable, ScanResume,
         Collect, Collected, CopyScan, Complete, Completed, values
    <3>. QED
      BY <1>1, <3>1
  <2>. QED
    BY <2>1, <2>2, <2>3
<1>. QED
  BY <1>2, <1>1, <1>3, <1>4, <1>5 DEF BagsOK
-----------------------------------------------------------------------------
(* The order of the scans                                                  *)

(* Who has copied is the last of its subtree.                              *)
LEMMA CopiedTreeThread ==
  ASSUME Control, Control', Values, NEW e \in Pool, Thread(e)
  PROVE  CopiedTree'
<1>1. Typed /\ CopiedTree /\ Frame
  BY Others, ReleaseChanges, CollectedChanges DEF Control, Sets, Values
<1>2. SUFFICES ASSUME NEW k \in 1..Len(program), program[k] = "scan_large",
                      NEW x \in Pool, CopiedTo(x)' >= k, NEW d \in Subtree(x, size)
               PROVE  CopiedTo(d)' >= k
  BY <1>1 DEF CopiedTree, Frame, Subtree, Entries
<1>3. d \in Pool /\ k \in Nat /\ at[x] \in Nat
  BY <1>1, <1>2, PoolTree, ThreadTypes, ProgramFacts
<1>4. \A y \in Pool : CopiedTo(y) \in Nat /\ CopiedTo(y)' \in Nat /\ CopiedTo(y)' >= CopiedTo(y)
  BY CopiedGrows
<1>5. CASE CopiedTo(x) >= k
  <2>1. CopiedTo(d) >= k
    BY <1>1, <1>2, <1>5 DEF CopiedTree
  <2>. QED
    BY <1>3, <1>4, <2>1
<1>6. CASE ~(CopiedTo(x) >= k)
  <2>1. x = e /\ ~Return(e)
    <3>1. ASSUME x # e PROVE FALSE
      <4>1. pc'[x] = pc[x] /\ at'[x] = at[x]
        BY <1>1, <1>2, <3>1, Others, ReleaseChanges, CollectedChanges DEF Sets, Same
      <4>2. CopiedTo(x)' = CopiedTo(x)
        BY <4>1 DEF CopiedTo
      <4>. QED
        BY <1>2, <1>6, <4>2
    <3>2. ASSUME x = e, Return(e) PROVE FALSE
      <4>1. CopiedTo(x)' = CopiedTo(x)
        BY <1>3, <3>2, ReturnChanges DEF CopiedTo
      <4>. QED
        BY <1>2, <1>6, <4>1
    <3>. QED
      BY <3>1, <3>2
  <2>2. at'[x] = at[x]
    BY <2>1, RoundStep
  <2>3. k = at[x] /\ pc'[x] \in {"completed", "release"}
    BY <1>2, <1>3, <1>6, <2>2 DEF CopiedTo
  <2>4. CASE d = x
    BY <1>2, <2>4
  <2>5. CASE d # x
    <3>1. PICK i \in Fan(x) : d \in Subtree(FanChild(x, i), size)
      BY <1>1, <1>2, <2>5, PoolTree
    <3>. DEFINE c == FanChild(x, i)
    <3>2. c \in Pool /\ c # x
      <4>1. c \in Pool /\ x < c /\ x \in Int
        BY <1>1, PoolTree
      <4>. QED
        BY <4>1
    <3>3. CopiedTo(c)' >= k
      <4>1. program'[at'[x]] = "scan_large" /\ Pool' = Pool /\ Fan(x)' = Fan(x)
        BY <1>1, <1>2, <2>2, <2>3, FrameKeeps DEF Frame
      <4>2. CopiedFirst'
        BY DEF Control, Scans
      <4>. QED
        BY <2>2, <2>3, <4>1, <4>2 DEF CopiedFirst, Call
    <3>. HIDE DEF c
    <3>4. CopiedTo(c)' = CopiedTo(c)
      <4>1. pc'[c] = pc[c] /\ at'[c] = at[c]
        BY <1>1, <2>1, <3>2, Others, ReleaseChanges, CollectedChanges DEF Sets, Same
      <4>. QED
        BY <4>1 DEF CopiedTo
    <3>5. CopiedTo(d) >= k
      BY <1>1, <1>2, <3>1, <3>2, <3>3, <3>4 DEF CopiedTree, c
    <3>. QED
      BY <1>3, <1>4, <3>5
  <2>. QED
    BY <2>4, <2>5
<1>. QED
  BY <1>5, <1>6

(* No scan is undone, and no fan-in.                                       *)
LEMMA ScannedGrows ==
  ASSUME Control, NEW e \in Pool, Thread(e), NEW d \in Pool
  PROVE  /\ ScannedTo(d) \in Nat /\ ScannedTo(d)' \in Nat /\ ScannedTo(d)' >= ScannedTo(d)
         /\ Fanned(d) \in Nat /\ Fanned(d)' \in Nat /\ Fanned(d)' >= Fanned(d)
<1>1. Typed /\ at[d] \in Nat /\ at[d] >= 1 /\ Fanned(d) \in Nat
  BY ThreadTypes, Bounds DEF Control
<1>2. CASE d # e
  <2>1. pc'[d] = pc[d] /\ at'[d] = at[d]
    BY <1>1, <1>2, Others, ReleaseChanges, CollectedChanges DEF Sets, Same
  <2>. QED
    BY <1>1, <2>1 DEF ScannedTo, Fanned
<1>3. CASE d = e /\ Return(e)
  <2>1. pc[d] \in Scanned /\ pc[d] \notin Gathering /\ pc'[d] \notin Scanned /\ pc'[d] \in Gathering
    BY <1>3, ReturnChanges DEF Scanned, Gathering
  <2>. QED
    BY <1>1, <1>3, <2>1, ReturnChanges DEF ScannedTo, Fanned
<1>4. CASE d = e /\ ~Return(e)
  <2>1. at'[d] = at[d] /\ (pc[d] = "release" => pc'[d] = "release")
    BY <1>4, RoundStep
  <2>2. pc[d] \in Scanned => pc'[d] \in Scanned
    <3>1. pc[d] \in {"available", "collect", "collected", "complete", "completed"} =>
            pc'[d] \in {"available", "collect", "collected", "complete", "completed", "release"}
      BY <1>1, <1>4, PoolTree DEF Typed, Thread, Begin, FanInStep, Arrive, FanIn, Join, Deactivate,
         MeetStep, Meet, RootComputes, Resume, Release, Return, ScanStep, Reduced, NextReduced,
         NextScanned, JoinNext, ScanAvailable, ScanResume, Collect, Collected, CopyScan,
         Complete, Completed, FannedIn, Go
    <3>. QED
      BY <2>1, <3>1 DEF Scanned
  <2>3. Fanned(d)' >= Fanned(d) /\ Fanned(d)' \in Nat
    BY <1>1, <1>4, FannedSelf
  <2>. QED
    BY <1>1, <2>1, <2>2, <2>3 DEF ScannedTo
<1>. QED
  BY <1>2, <1>3, <1>4

(* Who waits for the thread past its subtree waits for this scan of it.    *)
LEMMA NextThread ==
  ASSUME ScansSeparated, Control, Values, NEW e \in Pool, Thread(e)
  PROVE  NextOK'
<1>1. Typed /\ CopiedTree /\ Frame
  BY Others, ReleaseChanges, CollectedChanges DEF Control, Sets, Values
<1>2. SUFFICES ASSUME NEW x \in Pool PROVE NextAt(x)'
  BY <1>1, FrameKeeps DEF NextOK
<1>0. PICK n : n = SubtreeEnd(x)
  OBVIOUS
<1>3. SubtreeEnd(x)' = n /\ HasNext(x)' = HasNext(x) /\ (HasNext(x) => n \in Pool)
      /\ NextAt(x) /\ at[x] \in Nat /\ HereAt(x) /\ x \in Entry /\ pc[x] \in ThreadLabel
  BY <1>1, <1>0, FrameKeeps, Intervals, ThreadTypes, PoolTree DEF Control, Here, Values, NextOK
<1>4. HasNext(x) => /\ ScannedTo(n) \in Nat /\ ScannedTo(n)' \in Nat /\ ScannedTo(n)' >= ScannedTo(n)
                    /\ Fanned(n) \in Nat /\ Fanned(n)' \in Nat /\ Fanned(n)' >= Fanned(n)
  BY <1>3, ScannedGrows
<1>. DEFINE ToScan == {"next_scanned", "next_join"}
            HasScan == {"next_join", "scanned"} \cup Scanned
            N3 == {"next_reduced", "next_scanned", "next_join"}
<1>5. /\ Fanned(SubtreeEnd(x))' = Fanned(n)' /\ ScannedTo(SubtreeEnd(x))' = ScannedTo(n)'
  BY <1>3, <1>0 DEF Fanned, ScannedTo
<1>6. ASSUME at'[x] = at[x],
             pc'[x] \in N3 => HasNext(x),
             Call(x) = "scan_large" /\ HasNext(x) =>
               /\ pc'[x] \in ToScan => Fanned(n) >= at[x]
               /\ pc'[x] \in HasScan => ScannedTo(n) >= at[x]
      PROVE  NextAt(x)'
  <2>1. Call(x)' = Call(x)
    BY <1>1, <1>6 DEF Call, Frame
  <2>2. (pc[x] \in N3 => HasNext(x))'
    BY <1>3, <1>6
  <2>3. (Call(x) = "scan_large" /\ HasNext(x) =>
           (pc[x] \in ToScan => Fanned(SubtreeEnd(x)) >= at[x]))'
    BY <1>3, <1>4, <1>5, <1>6, <2>1
  <2>4. (Call(x) = "scan_large" /\ HasNext(x) =>
           (pc[x] \in HasScan => ScannedTo(SubtreeEnd(x)) >= at[x]))'
    BY <1>3, <1>4, <1>5, <1>6, <2>1
  <2>. QED
    BY <2>2, <2>3, <2>4 DEF NextAt
<1>7. ASSUME at'[x] = at[x], pc'[x] \in N3 => pc[x] \in N3,
             Call(x) = "scan_large" /\ HasNext(x) =>
               /\ pc'[x] \in ToScan => pc[x] \in ToScan
               /\ pc'[x] \in HasScan => pc[x] \in HasScan
      PROVE  NextAt(x)'
  <2>1. pc'[x] \in N3 => HasNext(x)
    BY <1>3, <1>7 DEF NextAt
  <2>2. Call(x) = "scan_large" /\ HasNext(x) =>
               /\ pc'[x] \in ToScan => Fanned(n) >= at[x]
               /\ pc'[x] \in HasScan => ScannedTo(n) >= at[x]
    BY <1>3, <1>7, <1>0 DEF NextAt
  <2>. QED
    BY <1>6, <1>7, <2>1, <2>2
<1>8. CASE x # e
  <2>1. pc'[x] = pc[x] /\ at'[x] = at[x]
    BY <1>1, <1>8, Others, ReleaseChanges, CollectedChanges DEF Sets, Same
  <2>. QED
    BY <1>7, <2>1
<1>9. CASE x = e /\ Return(e)
  BY <1>9, ReturnChanges DEF NextAt, Scanned
<1>10. CASE x = e /\ ~Return(e)
  <2>1. at'[x] = at[x]
    BY <1>10, RoundStep
  <2>2. {"available", "collect", "collected", "complete", "completed", "release"} = Scanned
        /\ "scan_large" \notin Simple
    BY DEF Scanned, Simple
  <2>3. CASE Reduced(e)
    <3>1. /\ x = 0 => pc'[x] = "collect"
          /\ x # 0 => pc'[x] = IF HasNext(x) THEN "next_reduced" ELSE "scanned"
      BY <1>1, <1>3, <1>10, <2>3 DEF Reduced, Go, Typed
    <3>2. x = 0 => ~HasNext(x)
      BY <1>1, RootHasNoNext
    <3>. QED
      BY <1>6, <2>1, <2>2, <3>1, <3>2
  <2>4. CASE NextReduced(e)
    <3>1. pc[x] = "next_reduced" /\ pc'[x] = "next_scanned" /\ state[SubtreeEnd(x)] # "Active"
      BY <1>1, <1>3, <1>10, <2>4 DEF NextReduced, Go, Typed
    <3>2. HasNext(x)
      BY <1>3, <3>1 DEF NextAt
    <3>3. Fanned(n) >= at[x]
      BY <1>1, <1>0, <3>1, <3>2, NextReducedIsFanned
    <3>. QED
      BY <1>6, <2>1, <2>2, <3>1, <3>2, <3>3
  <2>5. CASE NextScanned(e)
    <3>1. pc[x] = "next_scanned" /\ pc'[x] = "next_join" /\ NextIsScanned(x)
      BY <1>1, <1>3, <1>10, <2>5 DEF NextScanned, Go, Typed
    <3>2. HasNext(x)
      BY <1>3, <3>1 DEF NextAt
    <3>3. ScannedTo(n) >= at[x]
      BY <1>0, <3>1, <3>2, NextScannedIsScanned
    <3>4. Call(x) = "scan_large" => Fanned(n) >= at[x]
      BY <1>3, <1>0, <3>1, <3>2 DEF NextAt
    <3>. QED
      BY <1>6, <2>1, <3>1, <3>2, <3>3, <3>4
  <2>6. CASE JoinNext(e) \/ ScanAvailable(e) \/ ScanResume(e) \/ Collect(e) \/ Collected(e)
    BY <1>1, <1>3, <1>7, <1>10, <2>1, <2>2, <2>6 DEF JoinNext, ScanAvailable, ScanResume, Collect,
       Collected, Go, Typed
  <2>7. CASE CopyScan(e) \/ Complete(e) \/ Completed(e)
    BY <1>1, <1>3, <1>7, <1>10, <2>1, <2>2, <2>7 DEF CopyScan, Complete, Completed, Go, Typed
  <2>8. CASE Begin(e) \/ FanInStep(e) \/ Meet(e)
    BY <1>1, <1>3, <1>7, <1>10, <2>1, <2>2, <2>8 DEF Begin, FanInStep, Arrive, FanIn, Join,
       Deactivate, Meet, Go, Typed
  <2>9. CASE Resume(e) \/ Release(e) \/ (e = 0 /\ RootComputes)
    <3>1. pc'[x] = "release"
      BY <1>1, <1>3, <1>10, <2>9 DEF Resume, Release, RootComputes, Go, Typed
    <3>2. pc[x] \in {"completed", "release"} \/ Call(x) \in Simple
      BY <1>3, <1>10, <2>9 DEF Resume, Release, RootComputes, Go, HereAt
    <3>. QED
      BY <1>7, <2>1, <2>2, <3>1, <3>2
  <2>. QED
    BY <1>10, <2>3, <2>4, <2>5, <2>6, <2>7, <2>8, <2>9 DEF Thread, MeetStep, ScanStep
<1>. QED
  BY <1>8, <1>9, <1>10
-----------------------------------------------------------------------------
(* The results are exact                                                   *)

(* The values to begin with                                                *)
LEMMA ValuesInit == Init => Values
<1>1. SUFFICES ASSUME Init PROVE Values
  OBVIOUS
<1>2. Typed /\ \A e \in Pool : pc[e] = "wait" /\ at[e] = 1 /\ e \in Entry
  BY <1>1, TypedInit, PoolTree DEF Init
<1>3. ValuesOK
  BY <1>2 DEF ValuesOK, ValueAt, ScannedAt, FannedThere, Scanned
<1>4. BagsOK
  <2>1. IsABag(EmptyBag)
    BY NoContributions, ContributionsAreBags
  <2>. QED
    BY <1>1, <2>1 DEF Init, BagsOK
<1>5. CopiedTree
  <2>1. \A e \in Pool : CopiedTo(e) = 0
    BY <1>2 DEF CopiedTo
  <2>2. \A k \in 1..Len(program) : \A e \in Pool : ~(CopiedTo(e) >= k)
    BY <1>2, <2>1, ProgramFacts
  <2>. QED
    BY <2>2 DEF CopiedTree
<1>6. NextOK
  BY <1>2 DEF NextOK, NextAt, Scanned
<1>. QED
  BY <1>3, <1>4, <1>5, <1>6 DEF Values

(* start leaves the values alone,                                          *)
LEMMA ValuesActivate ==
  ASSUME Control, Values, Activate \/ UNCHANGED vars
  PROVE  Values'
<1>1. /\ size' = size /\ program' = program /\ pc' = pc /\ at' = at /\ wi' = wi
      /\ value' = value /\ scanned' = scanned
  BY DEF Activate, vars, values
<1>2. /\ Pool' = Pool /\ 0 \in Pool /\ Typed
      /\ \A x : /\ Subtree(x, size)' = Subtree(x, size) /\ Fan(x)' = Fan(x)
                /\ After(x)' = After(x) /\ From(x)' = From(x)
                /\ SubtreeEnd(x)' = SubtreeEnd(x) /\ HasNext(x)' = HasNext(x)
  BY <1>1, PoolTree DEF Entries, Subtree, Fan, Fans, After, From, SubtreeEnd, HasNext, Control
<1>3. \A x : /\ Fanned(x)' = Fanned(x) /\ ScannedTo(x)' = ScannedTo(x)
             /\ CopiedTo(x)' = CopiedTo(x) /\ Call(x)' = Call(x)
  BY <1>1 DEF Fanned, ScannedTo, CopiedTo, Call
<1>4. \A x, k : Result(x, k)' = Result(x, k)
  BY <1>1, <1>2 DEF Result
<1>5. \A x : Joined(x)' = Joined(x)
  BY <1>1, <1>2 DEF Joined
<1>6. Granted(0)' = Granted(0)
  <2>1. 0 = mi - 1 => pc[0] = "wait"
    <3>1. mi \in Int /\ HereAt(0)
      BY <1>2, PoolTree DEF Control, Typed, Here
    <3>. QED
      BY <3>1 DEF HereAt
  <2>2. pc[0] # "wait" => state'[0] = state[0]
    <3>1. CASE Activate
      BY <1>2, <2>1, <3>1, ActivateChanges DEF Control, Same
    <3>2. CASE UNCHANGED vars
      BY <3>2 DEF vars
    <3>. QED
      BY <3>1, <3>2
  <2>. QED
    BY <1>1, <2>2 DEF Granted, IsGranted
<1>7. ASSUME NEW x \in Pool PROVE ValueAt(x)' /\ ScannedAt(x)' /\ NextAt(x)'
  <2>1. ValueAt(x) /\ ScannedAt(x) /\ NextAt(x)
    BY DEF Values, ValuesOK, NextOK
  <2>2. ValueAt(x)'
    BY <1>1, <1>2, <1>3, <1>4, <1>5, <1>6, <2>1 DEF ValueAt, Holds
  <2>3. ScannedAt(x)'
    BY <1>1, <1>2, <1>3, <2>1 DEF ScannedAt
  <2>4. Fanned(SubtreeEnd(x))' = Fanned(SubtreeEnd(x)) /\ ScannedTo(SubtreeEnd(x))' = ScannedTo(SubtreeEnd(x))
    BY <1>1, <1>2 DEF Fanned, ScannedTo
  <2>5. NextAt(x)'
    BY <1>1, <1>2, <1>3, <2>1, <2>4 DEF NextAt
  <2>. QED
    BY <2>2, <2>3, <2>5
<1>8. BagsOK' /\ CopiedTree'
  BY <1>1, <1>2, <1>3 DEF Values, BagsOK, CopiedTree
<1>. QED
  BY <1>2, <1>7, <1>8 DEF Values, ValuesOK, NextOK

(* and a thread keeps what is known of them,                               *)
LEMMA ValuesThread ==
  ASSUME ScansSeparated, Control, Control', Values, NEW e \in Pool, Thread(e)
  PROVE  Values'
<1>1. Pool' = Pool
  <2>1. Frame
    BY Others, ReleaseChanges, CollectedChanges DEF Control, Sets
  <2>. QED
    BY <2>1, FrameKeeps
<1>2. CopiedTree' /\ NextOK'
  BY CopiedTreeThread, NextThread
<1>3. CASE e = 0 /\ RootComputes
  BY <1>2, <1>3, RootValues DEF Values, ValuesOK
<1>4. CASE ~(e = 0 /\ RootComputes)
  <2>1. BagsOK /\ Typed
    BY DEF Control, Values
  <2>2. Frame
    BY <2>1, Others, ReleaseChanges, CollectedChanges DEF Sets
  <2>3. ValueAt(e)'
    <3>1. CASE Begin(e) \/ Arrive(e) \/ Join(e) \/ Return(e) \/ CopyScan(e)
      BY <3>1, BeginValue, ArriveValue, JoinValue, ReturnValue, CopyScanValue
    <3>2. CASE ~(Begin(e) \/ Arrive(e) \/ Join(e) \/ Return(e) \/ CopyScan(e))
      BY <1>4, <2>1, <2>2, <3>2, ContinuesThread, ContinuedValue
    <3>. QED
      BY <3>1, <3>2
  <2>4. \A d \in Pool : ValueAt(d)' /\ ScannedAt(d)'
    BY <1>4, <2>3, ValueAtOthers, ScannedSelf
  <2>5. BagsOK'
    BY <1>4, BagsThread
  <2>. QED
    BY <1>1, <1>2, <2>4, <2>5 DEF Values, ValuesOK
<1>. QED
  BY <1>3, <1>4

(* as does every step.                                                     *)
LEMMA ValuesNext == ScansSeparated /\ Control /\ Values /\ [Next]_vars => Values'
<1>1. SUFFICES ASSUME ScansSeparated, Control, Values, [Next]_vars PROVE Values'
  OBVIOUS
<1>2. Control'
  BY <1>1, ControlNext
<1>. QED
  BY <1>1, <1>2, ValuesActivate, ValuesThread DEF Next

(* The results are exact where the values are.                             *)
LEMMA ExactValues == Control /\ Values => ResultsAreExact
<1>1. SUFFICES ASSUME Control, Values PROVE ResultsAreExact
  OBVIOUS
<1>2. TypeOK
  BY <1>1 DEF Control, Values, Typed, BagsOK, TypeOK
<1>3. \A e \in Pool : ValueAt(e) /\ HereAt(e) /\ at[e] \in Nat /\ at[e] \in 1..Len(program)
  BY <1>1, ThreadTypes DEF Control, Here, Values, ValuesOK
<1>4. AllReduceIsExact
  BY <1>3 DEF AllReduceIsExact, Returned, ValueAt, Holds, Result
<1>5. ScanIsExact
  BY <1>3 DEF ScanIsExact, Returned, ValueAt, Holds, Result, After
<1>6. ReduceIsExact
  <2>1. SUFFICES ASSUME NEW e \in Pool, pc[e] = "done", Call(e) = "reduce"
                 PROVE  value[e] = Contributions(Subtree(e, size), Len(program))
    BY DEF ReduceIsExact
  <2>2. at[e] = Len(program)
    BY <1>1, <1>3, <2>1, ProgramFacts DEF Call, Control, Ending
  <2>. QED
    BY <1>3, <2>1, <2>2 DEF ValueAt, Holds, Reducing, FannedThere
<1>. QED
  BY <1>2, <1>4, <1>5, <1>6 DEF ResultsAreExact

(* Whatever the functors call, as long as a scan_large follows no other    *)
(* scan without a barrier or an all_reduce between: all_reduce, the two    *)
(* scans and the reduction at the end give every thread of every pool the  *)
(* contributions of the threads they should, each once and of this round.  *)
THEOREM ResultsCorrect ==
  ASSUME ScansSeparated
  PROVE  Spec => []ResultsAreExact
<1>1. Init => Control /\ Values
  BY ControlInit, ValuesInit
<1>2. Control /\ Values /\ [Next]_vars => (Control /\ Values)'
  BY ControlNext, ValuesNext
<1>. QED
  BY <1>1, <1>2, ExactValues, PTL DEF Spec
=============================================================================
