----------------------------- MODULE Rendezvous -----------------------------
(***************************************************************************)
(* What a collective promises to the threads of a pool: the members meet   *)
(* again and again, and nobody leaves a meeting somebody has not come to.  *)
(***************************************************************************)
EXTENDS Naturals

VARIABLES
  members,   \* the threads that meet
  arrived,   \* how many meetings each has come to,
  left       \* and how many it has left

vars == <<members, arrived, left>>

Init == arrived = [m \in members |-> 0] /\ left = [m \in members |-> 0]

Arrive(m) ==
  /\ arrived[m] = left[m]
  /\ arrived' = [arrived EXCEPT ![m] = @ + 1]
  /\ UNCHANGED <<members, left>>

Leave(m) ==
  /\ left[m] < arrived[m]
  /\ \A k \in members : arrived[k] >= arrived[m]
  /\ left' = [left EXCEPT ![m] = @ + 1]
  /\ UNCHANGED <<members, arrived>>

Next == \E m \in members : Arrive(m) \/ Leave(m)

Spec == Init /\ [][Next]_vars
=============================================================================
