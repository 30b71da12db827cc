------------------------- MODULE ThreadsCollective -------------------------
(***************************************************************************)
(* The collectives of the Kokkos Threads pool, which its threads call from *)
(* inside one launch: barrier, all_reduce, scan_small, scan_large, and the *)
(* fan_in or fan_in_reduce that ends the launch.                           *)
(*                                                                         *)
(* The threads share a word m_pool_state each, and two values in the       *)
(* scratch memory of each: work_value[0..count) and, for the scans,        *)
(* work_value[count..2*count).  A value is the bag of the contributions    *)
(* joined into it, so that one lost, joined twice or left over from an     *)
(* earlier collective shows.  One action is one access to a word or value  *)
(* of another thread, with the local work around it.                       *)
(***************************************************************************)
EXTENDS FanTree, Sequences, Bags

CONSTANTS
  MaxThreads,   \* largest pool
  Programs      \* for each pool size, sequences of collectives a functor may call

Collective == {"barrier", "all_reduce", "scan_small", "scan_large"}
Ending == {"fan_in", "reduce"}

ASSUME MaxThreadsAssumption == MaxThreads \in Nat \ {0}
ASSUME ProgramsAssumption ==
  \A n \in 1..MaxThreads : \A p \in Programs[n] :
    /\ p \in Seq(Collective \cup Ending) /\ p # <<>>
    /\ \A k \in 1..Len(p) : p[k] \in Ending <=> k = Len(p)

VARIABLES
  size,      \* m_pool_size
  program,   \* the collectives of this launch's functor
  mi,        \* loop index of the process in start
  state,     \* m_pool_state of each entry
  value,     \* reduce_memory() of each
  scanned,   \* its second half
  pc,        \* where each thread is
  at,        \* which collective it is in, or computes for
  wi         \* its loop index

vars == <<size, program, mi, state, value, scanned, pc, at, wi>>
launch == <<size, program, mi>>
values == <<value, scanned>>

Entry == 0..(MaxThreads - 1)
Pool == Entries(size)
Call(e) == program[at[e]]

Init ==
  /\ size \in 1..MaxThreads /\ program \in Programs[size]
  /\ mi = size
  /\ state = [e \in Entry |-> "Inactive"]
  /\ value = [e \in Entry |-> EmptyBag] /\ scanned = [e \in Entry |-> EmptyBag]
  /\ pc = [e \in Entry |-> "wait"]
  /\ at = [e \in Entry |-> 1] /\ wi = [e \in Entry |-> 0]
-----------------------------------------------------------------------------
Fans(e) == FanCount(e, size)
Child(e) == FanChild(e, wi[e])

(* the first thread past the subtree of e: see scan_large                  *)
SubtreeEnd(e) == e + Power[Fans(e)]
HasNext(e) == SubtreeEnd(e) < size

Go(e, from, to) == pc[e] = from /\ pc' = [pc EXCEPT ![e] = to]
Set(e, s) == state' = [state EXCEPT ![e] = s]
Loop(e, i) == wi' = [wi EXCEPT ![e] = i]

(* what thread e contributes to its k-th collective                        *)
Contribution(e, k) == SetToBag({<<k, e>>})
Contributions(entries, k) == SetToBag({<<k, e>> : e \in entries})
-----------------------------------------------------------------------------
(* start, and the worker that sees itself activated                        *)

ActivatedFromRoot == size - mi
ActivatedByRank == mi - 1

Activate ==
  /\ mi > 0
  /\ Set(ActivatedByRank, "Active")
  /\ mi' = mi - 1
  /\ UNCHANGED <<size, program, values, pc, at, wi>>

Begin(e) ==
  /\ state[e] # "Inactive" /\ Go(e, "wait", "work")
  /\ UNCHANGED <<launch, state, values, at, wi>>
-----------------------------------------------------------------------------
(* The fan-in every collective begins with                                 *)

(* the functor has computed its contribution and calls the collective      *)
Arrive(e) ==
  /\ Go(e, "work", "fan_in") /\ Loop(e, 0)
  /\ value' = IF Call(e) \in {"barrier", "fan_in"} THEN value
              ELSE [value EXCEPT ![e] = Contribution(e, at[e])]
  /\ UNCHANGED <<launch, state, scanned, at>>

Arrived(c) == state[c] # "Active"

FanIn(e) ==
  /\ pc[e] = "fan_in" /\ wi[e] < Fans(e) /\ Arrived(Child(e))
  /\ IF Call(e) \in {"reduce", "scan_large"}
       THEN pc' = [pc EXCEPT ![e] = "join"] /\ UNCHANGED wi
       ELSE Loop(e, wi[e] + 1) /\ UNCHANGED pc
  /\ UNCHANGED <<launch, state, values, at>>

Join(e) ==
  /\ Go(e, "join", "fan_in") /\ Loop(e, wi[e] + 1)
  /\ value' = [value EXCEPT ![e] = @ (+) value[Child(e)]]
  /\ UNCHANGED <<launch, state, scanned, at>>

FannedIn(e) == pc[e] = "fan_in" /\ wi[e] >= Fans(e)

(* the end of fan_in and fan_in_reduce: back in driver                     *)
Deactivate(e) ==
  /\ FannedIn(e) /\ Call(e) \in Ending
  /\ Go(e, "fan_in", "done") /\ Set(e, "Inactive")
  /\ UNCHANGED <<launch, values, at, wi>>
-----------------------------------------------------------------------------
(* barrier, all_reduce and scan_small: everybody else waits for the root   *)

Simple == {"barrier", "all_reduce", "scan_small"}

Meet(e) ==
  /\ FannedIn(e) /\ Call(e) \in Simple /\ e # 0
  /\ Go(e, "fan_in", "met") /\ Set(e, "Rendezvous")
  /\ scanned' = IF Call(e) = "scan_small" THEN [scanned EXCEPT ![e] = value[e]]
                ELSE scanned
  /\ UNCHANGED <<launch, value, at, wi>>

Sum[e \in Nat] == IF e = 0 THEN value[0] ELSE Sum[e - 1] (+) value[e]

(* by rank, hence from the last entry down; the exclusive scan goes to     *)
(* value and the inclusive one to scanned, which held the contribution     *)
Exclusive[r \in Nat] ==
  IF r = 0 THEN EmptyBag ELSE Exclusive[r - 1] (+) value[size - r]

RootComputes ==
  /\ FannedIn(0) /\ Call(0) \in Simple
  /\ Go(0, "fan_in", "release") /\ Loop(0, 0)
  /\ CASE Call(0) = "barrier" -> UNCHANGED values
       [] Call(0) = "all_reduce" ->
            value' = [e \in Entry |-> IF e \in Pool THEN Sum[size - 1] ELSE value[e]] /\ UNCHANGED scanned
       [] Call(0) = "scan_small" ->
            /\ value' = [e \in Entry |-> IF e \in Pool THEN Exclusive[size - 1 - e]
                                          ELSE value[e]]
            /\ scanned' = [e \in Entry |-> IF e \in Pool THEN Exclusive[size - e]
                                            ELSE scanned[e]]
  /\ UNCHANGED <<launch, state, at>>

(* Who releases whom, in which order.  After a barrier the root releases   *)
(* every rank, lowest first: a child is Active before its parent may wait  *)
(* for it again.  After a scan each thread releases its own children.      *)
RootReleasesAll(e) == Call(e) \in {"barrier", "all_reduce"}
ReleasesRootFirst(e, i) == IF RootReleasesAll(e) THEN i ELSE FanChild(e, i)
ReleasesByRank(e, i) == IF RootReleasesAll(e) THEN size - 1 - i ELSE FanChild(e, i)
Releases(e) == IF RootReleasesAll(e) THEN IF e = 0 THEN size ELSE 0 ELSE Fans(e)

Resume(e) ==
  /\ \/ state[e] # "Rendezvous" /\ Go(e, "met", "release")
     \/ state[e] # "ScanCompleted" /\ Go(e, "completed", "release")
  /\ Loop(e, 0)
  /\ UNCHANGED <<launch, state, values, at>>

Release(e) ==
  /\ pc[e] = "release" /\ wi[e] < Releases(e)
  /\ Set(ReleasesByRank(e, wi[e]), "Active") /\ Loop(e, wi[e] + 1)
  /\ UNCHANGED <<launch, values, pc, at>>

Return(e) ==
  /\ wi[e] >= Releases(e) /\ Go(e, "release", "work")
  /\ at' = [at EXCEPT ![e] = @ + 1]
  /\ UNCHANGED <<launch, state, values, wi>>
-----------------------------------------------------------------------------
(* scan_large                                                              *)

Reduced(e) ==
  /\ FannedIn(e) /\ Call(e) = "scan_large"
  /\ scanned' = [scanned EXCEPT ![e] = value[e]]
  /\ IF e = 0 THEN Go(e, "fan_in", "collect") /\ Loop(e, 0) /\ UNCHANGED state
     ELSE /\ Go(e, "fan_in", IF HasNext(e) THEN "next_reduced" ELSE "scanned")
          /\ Set(e, "ReductionAvailable") /\ UNCHANGED wi
  /\ UNCHANGED <<launch, value, at>>

(* wait for the scan of the threads before this one's subtree              *)
NextReduced(e) ==
  /\ Go(e, "next_reduced", "next_scanned") /\ state[SubtreeEnd(e)] # "Active"
  /\ UNCHANGED <<launch, state, values, at, wi>>

NeverScanned(e) == TRUE
NextIsScanned(e) == state[SubtreeEnd(e)] # "ReductionAvailable"

NextScanned(e) ==
  /\ Go(e, "next_scanned", "next_join") /\ NextIsScanned(e)
  /\ UNCHANGED <<launch, state, values, at, wi>>

JoinNext(e) ==
  /\ Go(e, "next_join", "scanned")
  /\ scanned' = [scanned EXCEPT ![e] = @ (+) scanned[SubtreeEnd(e)]]
  /\ UNCHANGED <<launch, state, value, at, wi>>

ScanAvailable(e) ==
  /\ Go(e, "scanned", "available") /\ Set(e, "ScanAvailable")
  /\ UNCHANGED <<launch, values, at, wi>>

ScanResume(e) ==
  /\ state[e] # "ScanAvailable" /\ Go(e, "available", "collect") /\ Loop(e, 0)
  /\ UNCHANGED <<launch, state, values, at>>

(* wait for the children's scans and let each child go on                  *)
Collect(e) ==
  /\ wi[e] < Fans(e) /\ state[Child(e)] # "ReductionAvailable"
  /\ Go(e, "collect", "collected")
  /\ UNCHANGED <<launch, state, values, at, wi>>

Collected(e) ==
  /\ Go(e, "collected", "collect") /\ Set(Child(e), "Rendezvous") /\ Loop(e, wi[e] + 1)
  /\ UNCHANGED <<launch, values, at>>

(* copy the inclusive scan of the previous rank                            *)
CopyScan(e) ==
  /\ wi[e] >= Fans(e) /\ Go(e, "collect", "complete") /\ Loop(e, 0)
  /\ value' = [value EXCEPT ![e] = IF e + 1 < size THEN scanned[e + 1] ELSE EmptyBag]
  /\ UNCHANGED <<launch, state, scanned, at>>

NeverCopied(c) == TRUE
Copied(c) == state[c] # "Rendezvous"

(* wait for the children to have copied                                    *)
Complete(e) ==
  /\ pc[e] = "complete" /\ wi[e] < Fans(e) /\ Copied(Child(e))
  /\ Loop(e, wi[e] + 1)
  /\ UNCHANGED <<launch, state, values, pc, at>>

Completed(e) ==
  /\ wi[e] >= Fans(e)
  /\ IF e = 0 THEN Go(e, "complete", "release") /\ UNCHANGED state
     ELSE Go(e, "complete", "completed") /\ Set(e, "ScanCompleted")
  /\ Loop(e, 0)
  /\ UNCHANGED <<launch, values, at>>
-----------------------------------------------------------------------------
FanInStep(e) == Arrive(e) \/ FanIn(e) \/ Join(e) \/ Deactivate(e)
MeetStep(e) == Meet(e) \/ (e = 0 /\ RootComputes) \/ Resume(e) \/ Release(e) \/ Return(e)
ScanStep(e) ==
  \/ Reduced(e) \/ NextReduced(e) \/ NextScanned(e) \/ JoinNext(e)
  \/ ScanAvailable(e) \/ ScanResume(e) \/ Collect(e) \/ Collected(e)
  \/ CopyScan(e) \/ Complete(e) \/ Completed(e)

Thread(e) == Begin(e) \/ FanInStep(e) \/ MeetStep(e) \/ ScanStep(e)

Next == Activate \/ \E e \in Pool : Thread(e)

Spec == Init /\ [][Next]_vars

(* Every thread is scheduled, and functors return.                         *)
Fairness ==
  /\ WF_vars(Activate)
  /\ \A e \in Entry : WF_vars(Thread(e))

FairSpec == Spec /\ Fairness
-----------------------------------------------------------------------------
(* Properties.                                                             *)

ThreadLabel ==
  {"wait", "work", "fan_in", "join", "met", "release", "next_reduced", "next_scanned",
   "next_join", "scanned", "available", "collect", "collected", "complete", "completed",
   "done"}
PoolState ==
  {"Inactive", "Active", "Rendezvous", "ScanCompleted", "ScanAvailable",
   "ReductionAvailable"}

TypeOK ==
  /\ size \in 1..MaxThreads /\ program \in Programs[size] /\ mi \in 0..size
  /\ state \in [Entry -> PoolState]
  /\ pc \in [Entry -> ThreadLabel]
  /\ at \in [Entry -> 1..Len(program)]
  /\ wi \in [Entry -> 0..size]
  /\ \A e \in Entry : IsABag(value[e]) /\ IsABag(scanned[e])

(* the collective that thread e has just returned from                     *)
Returned(e, call) == pc[e] = "work" /\ at[e] > 1 /\ program[at[e] - 1] = call

(* all_reduce returns to every thread the contribution of every thread,    *)
(* each once and of this round.                                            *)
AllReduceIsExact ==
  \A e \in Pool : Returned(e, "all_reduce") => value[e] = Contributions(Pool, at[e] - 1)

(* Both scans return to each thread the contributions of the ranks below.  *)
ScanIsExact ==
  \A e \in Pool : Returned(e, "scan_small") \/ Returned(e, "scan_large") =>
    value[e] = Contributions({d \in Pool : d > e}, at[e] - 1)

(* fan_in_reduce leaves in every thread's memory the contributions of its  *)
(* whole subtree; in the root's, where parallel_reduce reads the result,   *)
(* those of the pool.                                                      *)
ReduceIsExact ==
  \A e \in Pool : pc[e] = "done" /\ Call(e) = "reduce" =>
    value[e] = Contributions(Subtree(e, size), Len(program))

(* What every collective returns is exact.                                 *)
ResultsAreExact == TypeOK /\ AllReduceIsExact /\ ScanIsExact /\ ReduceIsExact

(* A functor only runs in a thread that is Active: "Active : entry and     *)
(* exit state" of every collective.                                        *)
WorksActive == \A e \in Pool : pc[e] = "work" => state[e] = "Active"

(* The launch ends: the root is deactivated after everybody else.          *)
RootIsLast == pc[0] = "done" => \A e \in Pool : pc[e] = "done" /\ state[e] = "Inactive"

(* From the first functor to the last fan-in the launch has every thread.  *)
LaunchIsWhole == WorksActive /\ RootIsLast

(* Nobody leaves a collective before everybody has entered it.             *)
Meetings == INSTANCE Rendezvous WITH
  members <- Pool,
  arrived <- [e \in Pool |-> IF pc[e] \in {"wait", "work"} THEN at[e] - 1 ELSE at[e]],
  left <- [e \in Pool |-> at[e] - 1]
IsRendezvous == Meetings!Spec

(* No thread waits for ever in a collective.                               *)
LaunchEnds == <>(\A e \in Pool : pc[e] = "done")
=============================================================================
