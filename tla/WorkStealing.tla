---------------------------- MODULE WorkStealing ----------------------------
(***************************************************************************)
(* The dynamic schedule of the Kokkos Threads pool: parallel_for and       *)
(* parallel_reduce over a RangePolicy with Schedule<Dynamic>.              *)
(*                                                                         *)
(* Each thread publishes the chunks of its part as a pair of chunk numbers *)
(* m_work_range = [first, second), takes its own from the front, and when  *)
(* none is left takes those of others from the back.  The pair is changed  *)
(* by a 16-byte compare-and-swap but read, and first set, one half at a    *)
(* time.  A thread is its entry in the pool; its rank is size-(entry+1).   *)
(***************************************************************************)
EXTENDS WorkRange, FiniteSets

CONSTANTS
  MaxThreads,   \* largest pool
  Policies,     \* the ranges launched
  Leftovers     \* the chunk numbers earlier launches have left in m_work_range

ASSUME MaxThreadsAssumption == MaxThreads \in Nat \ {0}
ASSUME PoliciesAssumption ==
  \A p \in Policies : /\ p.begin \in Nat /\ p.end \in Nat /\ p.chunk \in Nat \ {0}
                      /\ p.begin <= p.end
ASSUME LeftoversAssumption == Leftovers \subseteq Nat

Entry == 0..(MaxThreads - 1)

VARIABLES
  size,      \* m_pool_size
  policy,    \* the policy launched
  range,     \* m_work_range of each thread
  target,    \* m_current_steal_target
  stealing,  \* m_stealing
  pc,        \* where each thread is
  old,       \* work_range_old in get_work_index_begin and _end
  ran        \* history: how often each index ran

vars == <<size, policy, range, target, stealing, pc, old, ran>>
launch == <<size, policy>>

Pool == 0..(size - 1)
Rank(e) == size - (e + 1)

Empty(r) == r.first >= r.second

(* Every chunk of the launch before was claimed, so the pairs it left are  *)
(* empty.                                                                  *)
Init ==
  /\ size \in 1..MaxThreads /\ policy \in Policies
  /\ range \in [Entry -> {[first |-> k, second |-> k] : k \in Leftovers}]
  /\ target = [e \in Entry |-> 0] /\ stealing = [e \in Entry |-> FALSE]
  /\ pc = [e \in Entry |-> IF e \in Pool THEN "set_first" ELSE "none"]
  /\ old = [e \in Entry |-> [first |-> 0, second |-> 0]]
  /\ ran = [i \in Indices(policy) |-> 0]
-----------------------------------------------------------------------------
Go(e, from, to) == pc[e] = from /\ pc' = [pc EXCEPT ![e] = to]

MyBegin(e) == PartBegin(policy, Rank(e), size)
MyEnd(e) == PartEnd(policy, Rank(e), size)

(* set_work_range and reset_steal_target                                   *)
SetFirst(e) ==
  /\ Go(e, "set_first", "set_second")
  /\ range' = [range EXCEPT ![e].first = FirstChunk(MyBegin(e), policy.chunk)]
  /\ UNCHANGED <<launch, target, stealing, old, ran>>

SetSecond(e) ==
  /\ Go(e, "set_second", "barrier")
  /\ range' = [range EXCEPT ![e].second = LastChunk(MyBegin(e), MyEnd(e), policy.chunk)]
  /\ target' = [target EXCEPT ![e] = (Rank(e) + 1) % size]
  /\ stealing' = [stealing EXCEPT ![e] = FALSE]
  /\ UNCHANGED <<launch, old, ran>>

(* barrier(): the meeting ThreadsCollective shows it to be                 *)
NoBarrier == TRUE
AllSet == \A d \in Pool : pc[d] \notin {"set_first", "set_second"}

Barrier(e) ==
  /\ AllSet /\ Go(e, "barrier", "next")
  /\ UNCHANGED <<launch, range, target, stealing, old, ran>>

(* get_work_index: its own chunks until they are exhausted, then others'   *)
NextChunk(e) ==
  /\ Go(e, "next", IF stealing[e] THEN "target" ELSE "read_first")
  /\ UNCHANGED <<launch, range, target, stealing, old, ran>>
-----------------------------------------------------------------------------
(* get_work_index_begin on its own range, get_work_index_end on another's  *)

Victim(e) == IF stealing[e] THEN target[e] ELSE e

ReadFirst(e) ==
  /\ Go(e, "read_first", "read_second")
  /\ old' = [old EXCEPT ![e].first = range[Victim(e)].first]
  /\ UNCHANGED <<launch, range, target, stealing, ran>>

ReadSecond(e) ==
  /\ old' = [old EXCEPT ![e].second = range[Victim(e)].second]
  /\ Go(e, "read_second", IF Empty(old'[e]) THEN "exhausted" ELSE "swap")
  /\ UNCHANGED <<launch, range, target, stealing, ran>>

(* what the thread would leave, and the chunk it would take                *)
Rest(e) == IF stealing[e] THEN [old[e] EXCEPT !.second = @ - 1]
                          ELSE [old[e] EXCEPT !.first = @ + 1]
Chunk(e) == IF stealing[e] THEN old[e].second - 1 ELSE old[e].first

HalfUnchanged(e) == IF stealing[e] THEN range[Victim(e)].second = old[e].second
                    ELSE range[Victim(e)].first = old[e].first
Unchanged(e) == range[Victim(e)] = old[e]

(* the compare-and-swap, when the pair is the one read: run the chunk      *)
Take(e) ==
  /\ Unchanged(e) /\ Go(e, "swap", "next")
  /\ range' = [range EXCEPT ![Victim(e)] = Rest(e)]
  /\ ran' = [i \in Indices(policy) |->
               IF i \in ChunkIndices(policy, Chunk(e)) THEN ran[i] + 1 ELSE ran[i]]
  /\ UNCHANGED <<launch, target, stealing, old>>

(* when it is not, it returns the pair it found                            *)
Retry(e) ==
  /\ ~Unchanged(e)
  /\ old' = [old EXCEPT ![e] = range[Victim(e)]]
  /\ Go(e, "swap", IF Empty(old'[e]) THEN "exhausted" ELSE "swap")
  /\ UNCHANGED <<launch, range, target, stealing, ran>>

Exhausted(e) ==
  /\ Go(e, "exhausted", "target")
  /\ stealing' = [stealing EXCEPT ![e] = TRUE]
  /\ UNCHANGED <<launch, range, target, old, ran>>
-----------------------------------------------------------------------------
(* get_steal_target.  The table m_pool_base it walks is indexed by entry,  *)
(* and the thread stops at its own rank.  Ranges only shrink, so reading   *)
(* the halves of another's pair one by one can only find work that is gone *)
(* since: one read is enough here.                                         *)
StopsPastTheEnd(e) == size
StopsAt(e) == Rank(e)

Skip(e) ==
  /\ pc[e] = "target" /\ target[e] # StopsAt(e) /\ Empty(range[target[e]])
  /\ target' = [target EXCEPT ![e] = (@ + 1) % size]
  /\ UNCHANGED <<launch, range, stealing, pc, old, ran>>

Steal(e) ==
  /\ target[e] # StopsAt(e) /\ ~Empty(range[target[e]])
  /\ Go(e, "target", "read_first")
  /\ UNCHANGED <<launch, range, target, stealing, old, ran>>

(* no target: get_work_index returns -1 and the thread fans in             *)
GiveUp(e) ==
  /\ target[e] = StopsAt(e) /\ Go(e, "target", "done")
  /\ UNCHANGED <<launch, range, target, stealing, old, ran>>
-----------------------------------------------------------------------------
Prepare(e) == SetFirst(e) \/ SetSecond(e) \/ Barrier(e)
Claim(e) == ReadFirst(e) \/ ReadSecond(e) \/ Take(e) \/ Retry(e) \/ Exhausted(e)
FindTarget(e) == Skip(e) \/ Steal(e) \/ GiveUp(e)

Thread(e) == Prepare(e) \/ NextChunk(e) \/ Claim(e) \/ FindTarget(e)

Next == \E e \in Pool : Thread(e)

Spec == Init /\ [][Next]_vars

(* Every thread is scheduled.                                              *)
FairSpec == Spec /\ \A e \in Entry : WF_vars(e \in Pool /\ Thread(e))
-----------------------------------------------------------------------------
(* Properties.                                                             *)

ThreadLabel == {"none", "set_first", "set_second", "barrier", "next", "read_first",
                "read_second", "swap", "exhausted", "target", "done"}
Pair == [first : Nat, second : Nat]

TypeOK ==
  /\ size \in 1..MaxThreads /\ policy \in Policies
  /\ range \in [Entry -> Pair] /\ old \in [Entry -> Pair]
  /\ target \in [Entry -> Entry] /\ stealing \in [Entry -> BOOLEAN]
  /\ pc \in [Entry -> ThreadLabel]
  /\ ran \in [Indices(policy) -> Nat]

(* No index runs twice, whoever claims from whom.                          *)
AtMostOnce == \A i \in Indices(policy) : ran[i] <= 1

(* The pairs stay pairs of naturals, and what is claimed is claimed once.  *)
ClaimsAreSound == TypeOK /\ AtMostOnce

(* When the last thread leaves the loop every index has run.               *)
Finished == \A e \in Pool : pc[e] = "done"
EveryIndexRan == Finished => \A i \in Indices(policy) : ran[i] = 1

(* A thread leaves none of its own chunks unclaimed: that every chunk runs *)
(* rests on the owners, not on the thieves.                                *)
NoneLeftBehind == \A e \in Pool : pc[e] \in {"target", "done"} => Empty(range[e])

(* No index is lost, by its owner or between owner and thief.              *)
NothingLost == EveryIndexRan /\ NoneLeftBehind

(* Published ranges only shrink, from the front by their owner and from    *)
(* the back by thieves: no compare-and-swap can mistake a later pair for   *)
(* the one it read.                                                        *)
RangesShrink ==
  [][\A e \in Pool : pc[e] \notin {"set_first", "set_second"} =>
       /\ range'[e].first >= range[e].first
       /\ range'[e].second <= range[e].second
       /\ range[e].first <= range[e].second => range'[e].first <= range'[e].second]_vars

(* The launch ends.                                                        *)
LoopsEnd == <>Finished
=============================================================================
