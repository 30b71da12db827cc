------------------------------ MODULE ForkJoin ------------------------------
(***************************************************************************)
(* What a pool of threads promises to the application: a launch is run     *)
(* once by every member of the pool, and is over when all of them have run *)
(* it.  How the members learn of a launch, and how their completion is     *)
(* collected, is left open.                                                *)
(***************************************************************************)
EXTENDS Integers

CONSTANT MaxThreads

VARIABLES phase,   \* "down", "ready" or "running"
          pool,    \* the members, {} when the pool is down
          count    \* how often each member ran the current or last launch

vars == <<phase, pool, count>>

Times(k) == [e \in pool |-> k]

Init == phase = "down" /\ pool = {} /\ count = Times(0)

BringUp ==
  /\ phase = "down"
  /\ phase' = "ready"
  /\ \E n \in 1..MaxThreads : pool' = 0..(n - 1)
  /\ count' = [e \in pool' |-> 0]

Launch ==
  /\ phase = "ready"
  /\ phase' = "running"
  /\ count' = Times(0)
  /\ UNCHANGED pool

Run(e) ==
  /\ phase = "running" /\ count[e] = 0
  /\ count' = [count EXCEPT ![e] = 1]
  /\ UNCHANGED <<phase, pool>>

Join ==
  /\ phase = "running" /\ count = Times(1)
  /\ phase' = "ready"
  /\ UNCHANGED <<pool, count>>

TakeDown ==
  /\ phase = "ready"
  /\ phase' = "down"
  /\ pool' = {} /\ count' = [e \in {} |-> 0]

Next == BringUp \/ Launch \/ (\E e \in pool : Run(e)) \/ Join \/ TakeDown

Spec == Init /\ [][Next]_vars

(* A launch, once made, is run and joined.                                 *)
FairSpec == Spec /\ WF_vars(Join \/ \E e \in pool : Run(e))
=============================================================================
