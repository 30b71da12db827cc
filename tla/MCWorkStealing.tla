--------------------------- MODULE MCWorkStealing ---------------------------
(* Ranges for TLC.                                                         *)
EXTENDS WorkStealing

(* from zero, or from a multiple of the chunk size                         *)
Aligned == {Policy(0, 6, 1), Policy(0, 3, 2), Policy(0, 7, 2), Policy(2, 5, 1),
            Policy(4, 12, 2), Policy(5, 5, 1)}
=============================================================================
