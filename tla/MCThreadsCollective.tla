------------------------ MODULE MCThreadsCollective ------------------------
(* Programs of collectives for TLC.                                        *)
EXTENDS ThreadsCollective

(* Up to two collectives, and either ending.  The second is no scan_large  *)
(* unless a barrier or an all_reduce separates it from an earlier scan.    *)
Sound(first, second) == second = "scan_large" => first \in {"barrier", "all_reduce"}

One == {<<c, ending>> : c \in Collective, ending \in Ending}
Two == {<<c[1], c[2], ending>> :
          c \in {d \in Collective \X Collective : Sound(d[1], d[2])}, ending \in Ending}
UpToTwo == {<<ending>> : ending \in Ending} \cup One \cup Two

(* Pools of five and more have a chain of scans, 1 after 2 after 4.        *)
ScanOnce == {<<"scan_large", "fan_in">>}

BySize == [n \in 1..MaxThreads |-> IF n <= 4 THEN UpToTwo ELSE ScanOnce]
=============================================================================
