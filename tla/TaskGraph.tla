------------------------------ MODULE TaskGraph ------------------------------
(***************************************************************************)
(* What a task policy promises: a spawned task starts when everything it   *)
(* depends on is complete, runs until it is complete or respawns itself to *)
(* run again after other tasks, and a latch is complete when it is opened. *)
(***************************************************************************)
CONSTANTS Task, Latches

VARIABLES
  status,   \* "idle", "waiting", "running" or "complete"
  after     \* what each waiting task depends on

vars == <<status, after>>

Init == status = [t \in Task |-> "idle"] /\ after = [t \in Task |-> {}]

Move(t, from, to, befores) ==
  /\ status[t] = from /\ status' = [status EXCEPT ![t] = to]
  /\ after' = [after EXCEPT ![t] = befores]

Spawn(t) == \E befores \in SUBSET (Task \ {t}) : Move(t, "idle", "waiting", befores)
Start(t) ==
  /\ t \notin Latches /\ \A b \in after[t] : status[b] = "complete"
  /\ Move(t, "waiting", "running", {})
Respawn(t) == \E befores \in SUBSET (Task \ {t}) : Move(t, "running", "waiting", befores)
Finish(t) == Move(t, "running", "complete", {})
Open(t) == t \in Latches /\ Move(t, "waiting", "complete", {})

Next == \E t \in Task : Spawn(t) \/ Start(t) \/ Respawn(t) \/ Finish(t) \/ Open(t)

Spec == Init /\ [][Next]_vars
=============================================================================
