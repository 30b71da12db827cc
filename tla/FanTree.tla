------------------------------ MODULE FanTree ------------------------------
(***************************************************************************)
(* The binomial fan-in tree of the Kokkos Threads pool.                    *)
(*                                                                         *)
(* A pool of `size' threads is stored in s_threads_exec.  The thread of    *)
(* rank r sits at entry size-(r+1), its "reverse rank"; entry 0, the       *)
(* highest rank, is the root of every fan-in.  The i-th fan child of entry *)
(* e is entry e + 2^i, for i below the fan size of e.                      *)
(***************************************************************************)
EXTENDS Integers

(* 1 << k, the loop's n after k turns                                      *)
Power[k \in Nat] == IF k = 0 THEN 1 ELSE 2 * Power[k - 1]

(***************************************************************************)
(* The loop condition of fan_size for n = 2^k: the child exists and bit k  *)
(* of the reverse rank is clear.                                           *)
(***************************************************************************)
ReachesPastTheEnd(rank_rev, k, size) ==
  /\ rank_rev + Power[k] <= size
  /\ (rank_rev \div Power[k]) % 2 = 0
HasFan(rank_rev, k, size) ==
  /\ rank_rev + Power[k] < size
  /\ (rank_rev \div Power[k]) % 2 = 0

(***************************************************************************)
(* fan_size(rank, size): the loop runs k = 0, 1, ... until the condition   *)
(* first fails, and returns the number of turns.                           *)
(***************************************************************************)
FanSize(rank, size) ==
  LET rank_rev == size - (rank + 1)
  IN  CHOOSE k \in 0..size :
        /\ ~HasFan(rank_rev, k, size)
        /\ \A j \in 0..(k - 1) : HasFan(rank_rev, j, size)

Entries(size) == 0..(size - 1)

(* The number of fan children of an entry, and the i-th of them.           *)
FanCount(e, size) == FanSize(size - (e + 1), size)

FanChild(e, i) == e + Power[i]

(***************************************************************************)
(* The entries whose contribution a completed fan-in at e stands for.      *)
(***************************************************************************)
Subtree(e, size) ==
  {d \in Entries(size) : e <= d /\ d < e + Power[FanCount(e, size)]}

(***************************************************************************)
(* What makes the fan-in a tree over a pool of `size' threads.             *)
(***************************************************************************)

(* Children are entries of the pool, and later ones: start() activates     *)
(* them before their parent and m_pool_base[] is never read past its end.  *)
ChildrenAreLater(size) ==
  \A e \in Entries(size) : \A i \in 0..(FanCount(e, size) - 1) :
    FanChild(e, i) \in Entries(size) /\ e < FanChild(e, i)

(* The subtree of an entry is the entry and the subtrees of its children:  *)
(* waiting for the children waits for the whole subtree.                   *)
SubtreesNest(size) ==
  \A e \in Entries(size) :
    Subtree(e, size) =
      {e} \cup UNION {Subtree(FanChild(e, i), size) :
                        i \in 0..(FanCount(e, size) - 1)}

(* No two children share an entry: fan_in_reduce joins no value twice.     *)
SubtreesDisjoint(size) ==
  \A e \in Entries(size) : \A i, j \in 0..(FanCount(e, size) - 1) :
    i # j => Subtree(FanChild(e, i), size) \cap Subtree(FanChild(e, j), size) = {}

(* The subtree of entry 0 is the pool: fence() may wait for the root alone.*)
RootSpansPool(size) == Subtree(0, size) = Entries(size)

IsFanTree(size) ==
  /\ \A e \in Entries(size) : FanCount(e, size) \in 0..size
  /\ ChildrenAreLater(size)
  /\ SubtreesNest(size)
  /\ SubtreesDisjoint(size)
  /\ RootSpansPool(size)
=============================================================================
