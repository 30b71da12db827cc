-------------------------- MODULE MCPoolArithmetic --------------------------
(* What depends on nothing but the number of threads: the fan-in tree of   *)
(* every pool up to MaxSize, and in pools up to MaxParts the division of   *)
(* every range up to MaxIndex.  One size and one policy per state.         *)
EXTENDS FanTree, TPIFan, WorkRange

CONSTANTS MaxSize, MaxParts, MaxIndex, ChunkSizes

ASSUME SizeAssumption == /\ MaxSize \in Nat /\ MaxSize <= THREAD_COUNT_MAX
                         /\ MaxParts \in Nat /\ MaxParts <= MaxSize
ASSUME IndexAssumption == MaxIndex \in Nat
ASSUME ChunkAssumption == ChunkSizes \subseteq Nat \ {0}

VARIABLES size, policy

NoWork == Policy(0, 0, 1)

Init ==
  /\ size = 1
  /\ policy \in {Policy(begin, end, chunk) :
                   begin \in 0..MaxIndex, end \in 0..MaxIndex, chunk \in ChunkSizes}
Next ==
  /\ size < IF policy = NoWork THEN MaxSize ELSE MaxParts
  /\ size' = size + 1 /\ UNCHANGED policy
Spec == Init /\ [][Next]_<<size, policy>>

(* fan_size and the child indices of fan_in and barrier: see FanTree.      *)

(* children follow their parent and stay inside m_pool_base[]              *)
Later == ChildrenAreLater(size)
(* a fan-in waits, through its children, for its whole subtree             *)
Nest == SubtreesNest(size)
(* no thread is a child twice: no value is joined twice                    *)
Disjoint == SubtreesDisjoint(size)
(* entry 0 waits for the whole pool                                        *)
Root == RootSpansPool(size)

(* TPI_Init: every worker has one parent, which is of lower rank.          *)
OneParent == IsSpanTree(size)

(* Both pools wait along a tree, whatever their size.                      *)
FansAreTrees == Later /\ Nest /\ Disjoint /\ Root /\ OneParent

(* WorkRange, the constructor: every index is in the part of one thread.   *)
Static == IsPartition(policy, size)
(* set_work_range and exec_schedule: every index of a range that begins on *)
(* a chunk is in one chunk of one thread.                                  *)
Dynamic == IsChunked(policy, size)

(* However a range is divided, every index goes to one thread.             *)
RangesAreDivided == Static /\ Dynamic
=============================================================================
