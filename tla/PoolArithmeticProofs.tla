------------------------ MODULE PoolArithmeticProofs ------------------------
(***************************************************************************)
(* What MCPoolArithmetic checks for small pools and ranges: the fan-in     *)
(* tree of the Kokkos pool, and the division of ranges, for any number of  *)
(* threads, any range and any chunk size.                                  *)
(***************************************************************************)
EXTENDS MCPoolArithmetic, ArithmeticProofs

(* The states enumerate pools of at least one thread, and policies the     *)
(* constructor of RangePolicy makes.                                       *)
Enumerated ==
  /\ size \in Nat \ {0}
  /\ policy \in {Policy(begin, end, chunk) :
                    begin \in 0..MaxIndex, end \in 0..MaxIndex, chunk \in ChunkSizes}

(* Neither pool is larger than TPI allows.                                 *)
Sized == size \in 1..THREAD_COUNT_MAX

(* However large the pool, the range and the chunks: every index of the    *)
(* static schedule is in the part of one thread, and every index of the    *)
(* dynamic one, when the range begins on a chunk, in one chunk of one      *)
(* thread (WorkRange and set_work_range).                                  *)
THEOREM EveryRangeIsDivided == Spec => []RangesAreDivided
<1>1. Init => Enumerated
  BY DEF Init, Enumerated
<1>2. Enumerated /\ [Next]_<<size, policy>> => Enumerated'
  BY DEF Enumerated, Next
<1>3. Enumerated => RangesAreDivided
  <2>1. SUFFICES ASSUME Enumerated PROVE Static /\ Dynamic
    BY DEF RangesAreDivided
  <2>2. PICK begin \in 0..MaxIndex, end \in 0..MaxIndex, chunk \in ChunkSizes :
          policy = Policy(begin, end, chunk)
    BY <2>1 DEF Enumerated
  <2>3. /\ begin \in Nat /\ end \in Nat /\ chunk \in Nat \ {0}
        /\ size \in Nat \ {0}
    BY <2>1, IndexAssumption, ChunkAssumption DEF Enumerated
  <2>. QED
    BY <2>2, <2>3, StaticPartition, DynamicDivision DEF Static, Dynamic
<1>. QED
  BY <1>1, <1>2, <1>3, PTL DEF Spec

(* However large the pool, Kokkos' or TPI's of up to THREAD_COUNT_MAX      *)
(* threads: children of a fan-in come later and inside m_pool_base[],      *)
(* subtrees nest and are disjoint, and entry 0's is the pool (fan_size,    *)
(* fan_in); and every TPI worker has one parent (TPI_Init).                *)
THEOREM EveryFanIsATree == Spec => []FansAreTrees
<1>1. Init => Sized
  BY SizeAssumption DEF Init, Sized, THREAD_COUNT_MAX
<1>2. Sized /\ [Next]_<<size, policy>> => Sized'
  BY SizeAssumption DEF Sized, Next, THREAD_COUNT_MAX
<1>3. Sized => FansAreTrees
  <2>1. SUFFICES ASSUME Sized PROVE FansAreTrees
    OBVIOUS
  <2>2. IsFanTree(size)
    BY <2>1, FanInIsATree DEF Sized, THREAD_COUNT_MAX
  <2>3. IsSpanTree(size)
    BY <2>1, SpansAreATree DEF Sized
  <2>. QED
    BY <2>2, <2>3 DEF FansAreTrees, IsFanTree, Later, Nest, Disjoint, Root, OneParent
<1>. QED
  BY <1>1, <1>2, <1>3, PTL DEF Spec
=============================================================================
