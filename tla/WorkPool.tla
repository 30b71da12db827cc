------------------------------ MODULE WorkPool ------------------------------
(***************************************************************************)
(* What a pool of work subprograms promises: after a launch of k calls,    *)
(* each of the ranks 0..k-1 is called once, and the launch is over when    *)
(* all of these calls have returned; the pool starts and stops idle.       *)
(***************************************************************************)
EXTENDS Integers

CONSTANT MaxCalls

VARIABLES
  up,       \* are there threads?
  launch,   \* "none", "work" or "block"
  left,     \* ranks that are not called yet
  running   \* ranks whose calls have not returned

vars == <<up, launch, left, running>>

Init == ~up /\ launch = "none" /\ left = {} /\ running = {}

StartOrStop == launch = "none" /\ up' = ~up /\ UNCHANGED <<launch, left, running>>

Launch ==
  /\ launch = "none" /\ launch' \in {"work", "block"}
  /\ \E k \in 0..MaxCalls : left' = 0..(k - 1)
  /\ UNCHANGED <<up, running>>

Call(r) == left' = left \ {r} /\ running' = running \cup {r} /\ UNCHANGED <<up, launch>>

Return(r) == running' = running \ {r} /\ UNCHANGED <<up, launch, left>>

End ==
  /\ launch # "none" /\ left = {} /\ running = {}
  /\ launch' = "none" /\ UNCHANGED <<up, left, running>>

Next ==
  StartOrStop \/ Launch \/ (\E r \in left : Call(r)) \/ (\E r \in running : Return(r)) \/ End

Spec == Init /\ [][Next]_vars
=============================================================================
