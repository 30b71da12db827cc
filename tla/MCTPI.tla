------------------------------- MODULE MCTPI -------------------------------
(* Work and lock counts for TLC: none, less than the threads under a lock, *)
(* and as many as the threads or more.                                     *)
EXTENDS TPI

Few == {<<0, 0>>, <<2, 1>>, <<4, 0>>}
=============================================================================
