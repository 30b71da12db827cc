--------------------------- MODULE MCThreadsExec ---------------------------
(* Scratch requests for TLC, in alignment units.                           *)
EXTENDS ThreadsExecInv

Small == [reduce |-> 1, thread |-> 2]
Large == [reduce |-> 2, thread |-> 1]
Both == {Small, Large, NoScratch}
OneLarge == {Large}
=============================================================================
