----------------------------- MODULE ThreadsTask -----------------------------
(***************************************************************************)
(* The task policy of the Kokkos Threads pool: tasks with dependences,     *)
(* created and spawned by the application or by running tasks, which may   *)
(* respawn themselves, and latches, which are opened by counting down.     *)
(*                                                                         *)
(* Ready tasks are in stacks linked through m_next whose head is locked    *)
(* while it is popped; a task that has to wait is in the stack m_wait of   *)
(* one of its dependences, whose head is denied once that is complete.     *)
(* All threads of the pool run driver() while the application waits; a     *)
(* team runs a team task together, and serial tasks each for itself.       *)
(*                                                                         *)
(* What the application and the functors do is a program: a script for     *)
(* each run of each task, and for the application between its waits.       *)
(***************************************************************************)
EXTENDS Integers, Sequences, FiniteSets
LOCAL INSTANCE SequencesExt

CONSTANTS
  Task,       \* the tasks and latches there is memory for
  Main,       \* the application
  Null, Lock, Denied,
  Threads,    \* number of threads; thread 0 is the application's
  Latches,    \* those of Task that are latches
  Programs    \* see Program

Actor == Task \cup {Main}
Op ==
  {"create", "spawn", "drop", "add"} \X Task \cup {"depend", "give"} \X Task \X Task
  \cup {<<"clear">>, <<"respawn">>}

(* script[a][k]: what actor a does the k-th time; the tasks that are team  *)
(* tasks, and those spawned with priority; how far latches count; how many *)
(* tasks m_space has room for; m_team_size                                 *)
Program ==
  [script : [Actor -> Seq(Seq(Op))], team : SUBSET Task, priority : SUBSET Task,
   count : [Task -> Nat], memory : Nat, teamSize : {n \in 1..Threads : Threads % n = 0}]

ASSUME ThreadsAssumption == Threads \in Nat \ {0}
ASSUME ProgramsAssumption == Programs \subseteq Program
ASSUME ValuesAssumption ==
  /\ Latches \subseteq Task /\ Main \notin Task /\ Cardinality({Null, Lock, Denied}) = 3
  /\ {Null, Lock, Denied} \cap Task = {}

Thread == 0..(Threads - 1)
Queue == {"team", "serial"} \X (0..2)

VARIABLES
  program,   \* what this run of the system does
  state,     \* m_state of each task; "none" before it is created, "freed"
  ref,       \* m_ref_count
  dep,       \* m_dep[0..m_dep_size)
  latch,     \* m_dep_size of a latch, which counts it down
  wait,      \* m_wait
  next,      \* m_next
  queue,     \* m_team[] and m_serial[]: the heads of the ready stacks
  count,     \* m_count_ready
  runs,      \* how often each actor's script was begun
  futures,   \* the futures each actor holds
  needy,     \* tasks respawned for the third stack, that of tasks needing memory
  aborted,   \* Kokkos::abort was called
  pc,        \* where each thread is
  actor,     \* whose script or completion it is at,
  ip,        \* where in the script,
  x,         \* the task it is scheduling,
  di,        \* and the dependence of that it looks at,
  woken,     \* the rest of the wait queue it has closed,
  ret,       \* where it goes on after that,
  claim,     \* the head it has seen in a ready stack,
  from,      \* and which stack that is
  teamTask,  \* *task_team_ptr of each team's lead
  teamWork   \* *work_team_ptr

vars == <<program, state, ref, dep, latch, wait, next, queue, count, runs, futures,
          needy, aborted, pc, actor, ip, x, di, woken, ret, claim, from, teamTask, teamWork>>
links == <<wait, next, queue>>
holds == <<dep, latch, futures, needy>>
local == <<actor, ip, x, di, woken, ret>>
popping == <<claim, from, teamTask, teamWork>>

Init ==
  /\ program \in Programs
  /\ state = [t \in Task |-> "none"] /\ ref = [t \in Task |-> 0]
  /\ dep = [t \in Task |-> <<>>] /\ latch = [t \in Task |-> 0]
  /\ wait = [t \in Task |-> Null] /\ next = [t \in Task |-> Null]
  /\ queue = [q \in Queue |-> Null] /\ count = 0
  /\ runs = [a \in Actor |-> IF a = Main THEN 1 ELSE 0]
  /\ futures = [a \in Actor |-> {}] /\ needy = {} /\ aborted = FALSE
  /\ pc = [e \in Thread |-> IF e = 0 THEN "script" ELSE "off"]
  /\ actor = [e \in Thread |-> Main] /\ ip = [e \in Thread |-> 1]
  /\ x = [e \in Thread |-> Null] /\ di = [e \in Thread |-> 1]
  /\ woken = [e \in Thread |-> Null] /\ ret = [e \in Thread |-> "script"]
  /\ claim = [e \in Thread |-> Null] /\ from = [e \in Thread |-> <<"team", 0>>]
  /\ teamTask = [e \in Thread |-> Null] /\ teamWork = [e \in Thread |-> TRUE]
-----------------------------------------------------------------------------
Go(e, old, new) == pc[e] = old /\ pc' = [pc EXCEPT ![e] = new]

(* Task::assign( &p , 0 ) for pointers p to the tasks of a sequence        *)
Uses(ts, t) == Cardinality({k \in 1..Len(ts) : ts[k] = t})
MayBeFreed(t) ==
  /\ next[t] = Null /\ dep[t] = <<>> /\ latch[t] = 0
  /\ \/ state[t] = "constructing" /\ wait[t] = Null
     \/ state[t] = "complete" /\ wait[t] = Denied
Gone(ts) == {t \in Task : Uses(ts, t) > 0 /\ ref[t] = Uses(ts, t)}
Unassign(ts) ==
  /\ ref' = [t \in Task |-> ref[t] - Uses(ts, t)]
  /\ state' = [t \in Task |-> IF t \in Gone(ts) THEN "freed" ELSE state[t]]
  /\ aborted' = (aborted \/ \E t \in Gone(ts) : ~MayBeFreed(t))
-----------------------------------------------------------------------------
(* What a script does.  Dropping a future is an assign; the last line of   *)
(* each action says what it leaves alone.                                  *)

Script(e) == program.script[actor[e]][runs[actor[e]]]
AtOp(e, name) == pc[e] = "script" /\ ip[e] <= Len(Script(e)) /\ Script(e)[ip[e]][1] = name
Arg(e) == Script(e)[ip[e]][2]
Step(e) == ip' = [ip EXCEPT ![e] = @ + 1]
Stay == UNCHANGED <<program, queue, runs, pc, actor, x, di, woken, ret, popping>>

Live == {t \in Task : state[t] \notin {"none", "freed"}}
IsEmpty == Cardinality(Live) >= program.memory

Create(e) ==
  LET t == Arg(e) IN
  /\ AtOp(e, "create") /\ ~IsEmpty
  /\ state' = [state EXCEPT ![t] = IF t \in Latches THEN "waiting" ELSE "constructing"]
  /\ latch' = [latch EXCEPT ![t] = IF t \in Latches THEN program.count[t] ELSE 0]
  /\ ref' = [ref EXCEPT ![t] = 1]
  /\ futures' = [futures EXCEPT ![actor[e]] = @ \cup {t}]
  /\ Step(e) /\ Stay /\ UNCHANGED <<dep, wait, next, needy, count, aborted>>

(* respawn_needing_memory: a task that could not create another one drops  *)
(* its futures and is run again, from the start of the same script         *)
NeedsMemory(e) ==
  /\ AtOp(e, "create") /\ IsEmpty /\ actor[e] # Main
  /\ Unassign(SetToSeq(futures[actor[e]]))
  /\ futures' = [futures EXCEPT ![actor[e]] = {}]
  /\ needy' = needy \cup {actor[e]}
  /\ Go(e, "script", "reschedule")
  /\ UNCHANGED <<program, links, dep, latch, count, runs, local, popping>>

Reschedule(e) ==
  /\ Go(e, "reschedule", "script") /\ ip' = [ip EXCEPT ![e] = Len(Script(e)) + 1]
  /\ state' = [state EXCEPT ![actor[e]] = "waiting"]
  /\ aborted' = (aborted \/ state[actor[e]] # "executing")
  /\ UNCHANGED <<program, ref, links, holds, count, runs, actor, x, di, woken, ret, popping>>

AddDependence(e) ==
  LET t == Arg(e)
      before == Script(e)[ip[e]][3]
  IN
  /\ AtOp(e, "depend")
  /\ dep' = [dep EXCEPT ![t] = Append(@, before)] /\ ref' = [ref EXCEPT ![before] = @ + 1]
  /\ aborted' = (aborted \/ state[t] \notin {"constructing", "executing"})
  /\ Step(e) /\ Stay /\ UNCHANGED <<state, latch, wait, next, count, futures, needy>>

Drop(e) ==
  /\ AtOp(e, "drop") /\ Unassign(<<Arg(e)>>)
  /\ futures' = [futures EXCEPT ![actor[e]] = @ \ {Arg(e)}]
  /\ Step(e) /\ Stay /\ UNCHANGED <<dep, latch, wait, next, needy, count>>

ClearDependence(e) ==
  /\ AtOp(e, "clear") /\ Unassign(dep[actor[e]])
  /\ dep' = [dep EXCEPT ![actor[e]] = <<>>]
  /\ Step(e) /\ Stay /\ UNCHANGED <<latch, wait, next, count, futures, needy>>

(* the functor of a task is given a copy of a future                       *)
Give(e) ==
  LET t == Arg(e) IN
  /\ AtOp(e, "give") /\ ref' = [ref EXCEPT ![t] = @ + 1]
  /\ futures' = [futures EXCEPT ![Script(e)[ip[e]][3]] = @ \cup {t}]
  /\ Step(e) /\ Stay /\ UNCHANGED <<state, dep, latch, wait, next, needy, count, aborted>>

(* reschedule_task                                                         *)
Respawn(e) ==
  /\ AtOp(e, "respawn")
  /\ state' = [state EXCEPT ![actor[e]] = "waiting"]
  /\ aborted' = (aborted \/ state[actor[e]] # "executing")
  /\ needy' = needy \ {actor[e]}
  /\ Step(e) /\ Stay /\ UNCHANGED <<ref, dep, latch, futures, wait, next, count>>

Spawn(e) ==
  /\ AtOp(e, "spawn") /\ Go(e, "script", "spawn")
  /\ x' = [x EXCEPT ![e] = Arg(e)] /\ woken' = [woken EXCEPT ![e] = Null]
  /\ ret' = [ret EXCEPT ![e] = "script"] /\ Step(e)
  /\ UNCHANGED <<program, state, ref, links, holds, count, runs, aborted, actor, di, popping>>

(* latch_add(1)                                                            *)
LatchAdd(e) ==
  /\ AtOp(e, "add") /\ latch' = [latch EXCEPT ![Arg(e)] = @ - 1]
  /\ aborted' = (aborted \/ latch[Arg(e)] < 1)
  /\ IF latch[Arg(e)] # 1 THEN UNCHANGED <<pc, x, ret>>
     ELSE /\ Go(e, "script", "open")
          /\ x' = [x EXCEPT ![e] = Arg(e)] /\ ret' = [ret EXCEPT ![e] = "script"]
  /\ Step(e)
  /\ UNCHANGED <<program, state, ref, links, dep, futures, needy, count, runs, actor, di, woken,
                 popping>>

Open(e) ==
  /\ Go(e, "open", "deny") /\ state' = [state EXCEPT ![x[e]] = "complete"]
  /\ aborted' = (aborted \/ state[x[e]] # "waiting")
  /\ UNCHANGED <<program, ref, links, holds, count, runs, local, popping>>
-----------------------------------------------------------------------------
(* schedule_task                                                           *)

(* the state check; the initial spawn is what holds a reference until the  *)
(* task is complete                                                        *)
IsInitial(e) == pc[e] = "spawn"
AlwaysHolds(e) == 1
InitialReference(e) == IF IsInitial(e) THEN 1 ELSE 0

Schedule(e) ==
  /\ pc[e] \in {"spawn", "schedule"} /\ pc' = [pc EXCEPT ![e] = "look"]
  /\ state' = [state EXCEPT ![x[e]] = IF @ = "constructing" THEN "waiting" ELSE @]
  /\ ref' = [ref EXCEPT ![x[e]] = @ + InitialReference(e)]
  /\ aborted' = (aborted \/ wait[x[e]] = Denied \/ next[x[e]] # Null
                         \/ state[x[e]] \notin {"constructing", "waiting"})
  /\ di' = [di EXCEPT ![e] = 1]
  /\ UNCHANGED <<program, links, holds, count, runs, actor, ip, x, woken, ret, popping>>

FirstOnly(e) == di[e] = 1 /\ Len(dep[x[e]]) >= 1
HasDependence(e) == di[e] <= Len(dep[x[e]])
DependenceOf(e) == dep[x[e]][di[e]]
Placed == <<program, state, ref, holds, runs, aborted, actor, ip, x, woken, ret, popping>>

(* a dependence's wait queue: denied, or the one to wait in                *)
SkipDependence(e) ==
  /\ pc[e] = "look" /\ HasDependence(e) /\ wait[DependenceOf(e)] = Denied
  /\ di' = [di EXCEPT ![e] = @ + 1]
  /\ UNCHANGED <<Placed, links, count, pc>>

LookAtWait(e) ==
  /\ Go(e, "look", "push_wait") /\ HasDependence(e) /\ wait[DependenceOf(e)] # Denied
  /\ next' = [next EXCEPT ![x[e]] = wait[DependenceOf(e)]]
  /\ UNCHANGED <<Placed, wait, queue, count, di>>

NeverClosed(e) == FALSE
Closed(e) == wait[DependenceOf(e)] # next[x[e]]

PushWait(e) ==
  /\ pc[e] = "push_wait"
  /\ IF Closed(e) THEN Go(e, "push_wait", "look") /\ UNCHANGED wait
     ELSE Go(e, "push_wait", "wake") /\ wait' = [wait EXCEPT ![DependenceOf(e)] = x[e]]
  /\ UNCHANGED <<Placed, next, queue, count, di>>

(* all dependences are complete: count it, then push it on a ready stack   *)
Counted(e) == count + 1

CountReady(e) ==
  /\ Go(e, "look", "ready") /\ ~HasDependence(e) /\ count' = Counted(e)
  /\ UNCHANGED <<Placed, links, di>>

ReadyQueue(t) ==
  <<IF t \in program.team THEN "team" ELSE "serial",
    IF t \in needy THEN 2 ELSE IF t \in program.priority THEN 0 ELSE 1>>

LookAtReady(e) ==
  /\ Go(e, "ready", "push_ready") /\ queue[ReadyQueue(x[e])] # Lock
  /\ next' = [next EXCEPT ![x[e]] = queue[ReadyQueue(x[e])]]
  /\ UNCHANGED <<Placed, wait, queue, count, di>>

NeverMoved(e) == FALSE
Moved(e) == queue[ReadyQueue(x[e])] # next[x[e]]

PushReady(e) ==
  /\ pc[e] = "push_ready"
  /\ IF Moved(e) THEN Go(e, "push_ready", "ready") /\ UNCHANGED queue
     ELSE Go(e, "push_ready", "wake") /\ queue' = [queue EXCEPT ![ReadyQueue(x[e])] = x[e]]
  /\ UNCHANGED <<Placed, wait, next, count, di>>

(* the next of the tasks that waited, or back to the caller                *)
WakeNext(e) ==
  /\ woken[e] # Null /\ Go(e, "wake", "schedule")
  /\ x' = [x EXCEPT ![e] = woken[e]]
  /\ woken' = [woken EXCEPT ![e] = next[@]] /\ next' = [next EXCEPT ![woken[e]] = Null]
  /\ UNCHANGED <<program, state, ref, wait, queue, holds, count, runs, aborted, actor, ip,
                 di, ret, popping>>

Scheduled(e) ==
  /\ woken[e] = Null /\ Go(e, "wake", ret[e])
  /\ UNCHANGED <<program, state, ref, links, holds, count, runs, aborted, local, popping>>
-----------------------------------------------------------------------------
(* complete_executed_task                                                  *)

Base(e) == e - (e % program.teamSize)
TeamOf(e) == {d \in Thread : Base(d) = Base(e)}
TeamIsIn(e) == \A d \in TeamOf(e) \ {e} : pc[d] = "in"

(* the functor has returned, in all members of the team if it is a team    *)
(* task: a task that was not respawned destroys it with its futures        *)
ApplyEnds(e) ==
  /\ pc[e] = "script" /\ ip[e] > Len(Script(e)) /\ actor[e] # Main
  /\ actor[e] \in program.team => TeamIsIn(e)
  /\ pc' = [pc EXCEPT ![e] = "applied"]
  /\ IF state[actor[e]] = "executing"
       THEN /\ Unassign(SetToSeq(futures[actor[e]]))
            /\ futures' = [futures EXCEPT ![actor[e]] = {}]
       ELSE UNCHANGED <<state, ref, futures, aborted>>
  /\ UNCHANGED <<program, links, dep, latch, needy, count, runs, local, popping>>

Transition(e) ==
  /\ pc[e] = "applied" /\ ret' = [ret EXCEPT ![e] = "finish"]
  /\ IF state[actor[e]] = "executing"
       THEN /\ Go(e, "applied", "clear")
            /\ state' = [state EXCEPT ![actor[e]] = "complete"]
            /\ UNCHANGED <<aborted, x, woken>>
       ELSE /\ Go(e, "applied", "schedule")
            /\ x' = [x EXCEPT ![e] = actor[e]] /\ woken' = [woken EXCEPT ![e] = Null]
            /\ aborted' = (aborted \/ state[actor[e]] # "waiting")
            /\ UNCHANGED state
  /\ UNCHANGED <<program, ref, links, holds, count, runs, actor, ip, di, popping>>

Clear(e) ==
  /\ Go(e, "clear", "deny") /\ Unassign(dep[actor[e]])
  /\ dep' = [dep EXCEPT ![actor[e]] = <<>>] /\ x' = [x EXCEPT ![e] = actor[e]]
  /\ UNCHANGED <<program, links, latch, futures, needy, count, runs, actor, ip, di, woken, ret,
                 popping>>

(* close the wait queue, of a task or a latch; only the task has the       *)
(* reference of its spawn                                                  *)
Deny(e) ==
  /\ Go(e, "deny", IF ret[e] = "finish" THEN "unassign" ELSE "wake")
  /\ woken' = [woken EXCEPT ![e] = wait[x[e]]] /\ wait' = [wait EXCEPT ![x[e]] = Denied]
  /\ UNCHANGED <<program, state, ref, next, queue, holds, count, runs, aborted, actor, ip,
                 x, di, ret, popping>>

UnassignTask(e) ==
  /\ Go(e, "unassign", "wake") /\ Unassign(<<actor[e]>>)
  /\ UNCHANGED <<program, links, holds, count, runs, local, popping>>

CountFinished(e) ==
  /\ Go(e, "finish", "in") /\ count' = count - 1
  /\ UNCHANGED <<program, state, ref, links, holds, runs, aborted, local, popping>>
-----------------------------------------------------------------------------
(* pop_ready_task on each stack of a kind in turn, on the last one only if *)
(* there is memory                                                         *)

Leads(e) == e = Base(e)
Still == <<program, ref, wait, holds, count, woken, ret, x, di>>

PopFrom(e, kind) == from' = [from EXCEPT ![e] = <<kind, 0>>]
NextQueue(e) == from' = [from EXCEPT ![e][2] = @ + 1]

NothingToPop(e) ==
  /\ pc[e] = "pop" /\ from[e] \notin Queue
  /\ pc' = [pc EXCEPT ![e] = IF from[e][1] = "team" THEN "out" ELSE "in"]
  /\ teamTask' = IF from[e][1] = "team" THEN [teamTask EXCEPT ![e] = Null] ELSE teamTask
  /\ UNCHANGED <<Still, state, next, queue, runs, aborted, actor, ip, claim, from, teamWork>>

Passed(e) == queue[from[e]] \in {Null, Lock} \/ (from[e][2] = 2 /\ IsEmpty)

LookAtHead(e) ==
  /\ pc[e] = "pop" /\ from[e] \in Queue
  /\ IF Passed(e) THEN NextQueue(e) /\ UNCHANGED <<pc, claim>>
     ELSE /\ Go(e, "pop", "claim") /\ claim' = [claim EXCEPT ![e] = queue[from[e]]]
          /\ UNCHANGED from
  /\ UNCHANGED <<Still, state, next, queue, runs, aborted, actor, ip, teamTask, teamWork>>

NotEmptied(e) == queue[from[e]] \in Task
StillHead(e) == queue[from[e]] = claim[e]

Claim(e) ==
  /\ pc[e] = "claim"
  /\ IF StillHead(e) THEN /\ Go(e, "claim", "take")
                          /\ queue' = [queue EXCEPT ![from[e]] = Lock] /\ UNCHANGED from
     ELSE Go(e, "claim", "pop") /\ NextQueue(e) /\ UNCHANGED queue
  /\ UNCHANGED <<Still, state, next, runs, aborted, actor, ip, claim, teamTask, teamWork>>

Take(e) ==
  LET t == claim[e] IN
  /\ pc[e] = "take"
  /\ state' = [state EXCEPT ![t] = "executing"]
  /\ queue' = [queue EXCEPT ![from[e]] = next[t]] /\ next' = [next EXCEPT ![t] = Null]
  /\ aborted' = (aborted \/ state[t] # "waiting" \/ queue[from[e]] # Lock)
  /\ actor' = [actor EXCEPT ![e] = t] /\ ip' = [ip EXCEPT ![e] = 1]
  /\ runs' = [runs EXCEPT ![t] = IF t \in needy THEN @ ELSE @ + 1]
  /\ IF from[e][1] = "team" THEN Go(e, "take", "out") /\ teamTask' = [teamTask EXCEPT ![e] = t]
     ELSE Go(e, "take", "script") /\ UNCHANGED teamTask
  /\ UNCHANGED <<Still, claim, from, teamWork>>
-----------------------------------------------------------------------------
(* driver, and the application's wait.  "in" is the team fan-in every      *)
(* round begins with, which ThreadsTeam models.                            *)
Fixed == <<program, state, ref, links, holds, count, aborted, x, di, woken, ret, claim>>

Wait ==
  /\ pc[0] = "script" /\ actor[0] = Main /\ ip[0] > Len(Script(0))
  /\ \A e \in Thread \ {0} : pc[e] = "off"
  /\ pc' = [e \in Thread |-> "in"] /\ teamWork' = [e \in Thread |-> TRUE]
  /\ UNCHANGED <<Fixed, runs, actor, ip, from, teamTask>>

StacksHoldWork == \E q \in Queue : queue[q] \in Task
HasWork == count # 0

Query(e) ==
  /\ Leads(e) /\ TeamIsIn(e) /\ teamWork[e] /\ Go(e, "in", "pop")
  /\ teamWork' = [teamWork EXCEPT ![e] = HasWork] /\ PopFrom(e, "team")
  /\ UNCHANGED <<Fixed, runs, actor, ip, teamTask>>

FanOut(e) ==
  /\ pc[e] = "out"
  /\ pc' = [d \in Thread |-> IF d \notin TeamOf(e) THEN pc[d]
                             ELSE IF teamTask[e] = Null THEN "pop"
                             ELSE IF d = e THEN "script" ELSE "body"]
  /\ from' = [d \in Thread |-> IF d \in TeamOf(e) THEN <<"serial", 0>> ELSE from[d]]
  /\ UNCHANGED <<Fixed, runs, actor, ip, teamTask, teamWork>>

(* a member that is not the lead has run its part of a team task           *)
MemberReturns(e) ==
  /\ Go(e, "body", "in")
  /\ UNCHANGED <<Fixed, runs, actor, ip, from, teamTask, teamWork>>

LeaveDriver(e) ==
  /\ Leads(e) /\ pc[e] = "in" /\ TeamIsIn(e) /\ ~teamWork[e]
  /\ pc' = [d \in Thread |-> IF d \in TeamOf(e) THEN "off" ELSE pc[d]]
  /\ UNCHANGED <<Fixed, runs, actor, ip, from, teamTask, teamWork>>

(* fence: the application goes on                                          *)
Resume ==
  /\ \A e \in Thread : pc[e] = "off"
  /\ runs[Main] < Len(program.script[Main])
  /\ pc' = [pc EXCEPT ![0] = "script"]
  /\ actor' = [actor EXCEPT ![0] = Main] /\ ip' = [ip EXCEPT ![0] = 1]
  /\ runs' = [runs EXCEPT ![Main] = @ + 1]
  /\ UNCHANGED <<Fixed, from, teamTask, teamWork>>
-----------------------------------------------------------------------------
Interpret(e) ==
  \/ NeedsMemory(e) \/ Reschedule(e) \/ Create(e) \/ AddDependence(e) \/ Give(e) \/ Drop(e) \/ ClearDependence(e) \/ Respawn(e)
  \/ Spawn(e) \/ LatchAdd(e) \/ Open(e)
ScheduleTask(e) ==
  \/ Schedule(e) \/ SkipDependence(e) \/ LookAtWait(e) \/ PushWait(e) \/ CountReady(e)
  \/ LookAtReady(e) \/ PushReady(e) \/ WakeNext(e) \/ Scheduled(e)
CompleteTask(e) ==
  ApplyEnds(e) \/ Transition(e) \/ Clear(e) \/ Deny(e) \/ UnassignTask(e) \/ CountFinished(e)
PopReadyTask(e) == NothingToPop(e) \/ LookAtHead(e) \/ Claim(e) \/ Take(e)
Driver(e) == Query(e) \/ FanOut(e) \/ MemberReturns(e) \/ LeaveDriver(e)

Runs(e) == Interpret(e) \/ ScheduleTask(e) \/ CompleteTask(e) \/ PopReadyTask(e) \/ Driver(e)

Next == Wait \/ Resume \/ \E e \in Thread : Runs(e)

Spec == Init /\ [][Next]_vars

(* Every thread is scheduled, the application goes on, and functors return.*)
FairSpec == Spec /\ WF_vars(Wait) /\ WF_vars(Resume) /\ \A e \in Thread : WF_vars(Runs(e))
-----------------------------------------------------------------------------
TypeOK ==
  /\ program \in Programs
  /\ state \in [Task -> {"none", "constructing", "waiting", "executing", "complete", "freed"}]
  /\ ref \in [Task -> Nat] /\ latch \in [Task -> Int]
  /\ \A t \in Task : dep[t] \in Seq(Task)
  /\ wait \in [Task -> Task \cup {Null, Denied}] /\ next \in [Task -> Task \cup {Null}]
  /\ queue \in [Queue -> Task \cup {Null, Lock}] /\ count \in Nat
  /\ runs \in [Actor -> Nat] /\ futures \in [Actor -> SUBSET Task] /\ needy \subseteq Task
  /\ aborted \in BOOLEAN
  /\ actor \in [Thread -> Actor] /\ ip \in [Thread -> Nat] /\ di \in [Thread -> Nat]
  /\ x \in [Thread -> Task \cup {Null}] /\ woken \in [Thread -> Task \cup {Null}]
  /\ claim \in [Thread -> Task \cup {Null}]
  /\ from \in [Thread -> {"team", "serial"} \X (0..3)]
  /\ teamTask \in [Thread -> Task \cup {Null}] /\ teamWork \in [Thread -> BOOLEAN]

(* None of the code's own consistency checks fails: a scheduled task is in *)
(* no list, what is popped is waiting and its stack still locked, a latch  *)
(* opens once, and what is deleted is complete and in no list.             *)
NeverAborts == ~aborted

Scheduling == {"spawn", "schedule", "look", "push_wait", "ready", "push_ready"}
Executes(e, t) ==
  \/ /\ actor[e] = t
     /\ \/ pc[e] \in {"script", "reschedule", "applied"}
        \/ ret[e] = "script" /\ pc[e] \in Scheduling \cup {"open", "deny", "wake"}
  \/ claim[e] = t /\ pc[e] = "take"
  \/ teamTask[e] = t /\ pc[e] = "out"
Finishes(e, t) == actor[e] = t /\ pc[e] \in {"clear", "deny", "unassign"} /\ ret[e] = "finish"

(* A reference count is the number of futures of the task, of tasks that   *)
(* depend on it, and one for the policy, from its spawn until the end of   *)
(* its completion: m_ref_count never frees early and never leaks.          *)
PolicyHolds(t) ==
  /\ t \notin Latches
  /\ state[t] \in {"waiting", "executing"} \/ \E e \in Thread : Finishes(e, t)
Dependences(t) == UNION {{u} \X {k \in DOMAIN dep[u] : dep[u][k] = t} : u \in Task}
ReferencesAreExact ==
  \A t \in Live :
    ref[t] = Cardinality({a \in Actor : t \in futures[a]}) + Cardinality(Dependences(t))
             + (IF PolicyHolds(t) THEN 1 ELSE 0)

(* Nothing a thread may still follow, a link, a stack, a dependence or a   *)
(* future, leads to a task whose memory was returned.                      *)
Followed ==
  {next[t] : t \in Live} \cup {wait[t] : t \in Live} \cup {queue[q] : q \in Queue}
  \cup {woken[e] : e \in Thread}
  \cup {x[e] : e \in {e \in Thread : pc[e] \in Scheduling \cup {"open"}}}
  \cup UNION {futures[a] : a \in Actor} \cup UNION {Range(dep[t]) : t \in Live}
  \cup {t \in Task : \E e \in Thread : Executes(e, t) \/ Finishes(e, t)}
NothingDangles == Followed \cap Task \subseteq Live

(* Tasks are freed neither early nor never.                                *)
MemoryIsSound == TypeOK /\ ReferencesAreExact /\ NothingDangles

(* Tasks reachable from a head through m_next                              *)
List(head) ==
  LET f[n \in 0..Cardinality(Task), h \in Task \cup {Null, Lock, Denied}] ==
        IF n = 0 \/ h \notin Task THEN {} ELSE {h} \cup f[n - 1, next[h]]
  IN  f[Cardinality(Task), head]

(* A waiting task is in exactly one place: a ready stack, the wait queue   *)
(* of one dependence, or in the hands of one thread (m_next is one field). *)
Places(t) ==
  {<<"ready", q>> : q \in {q \in Queue : t \in List(queue[q])}}
  \cup {<<"wait", u>> : u \in {u \in Task : t \in List(wait[u])}}
  \cup {<<"thread", e>> :
          e \in {e \in Thread :
                   \/ t \in List(woken[e])
                   \/ x[e] = t /\ pc[e] \in Scheduling
                   \/ pc[e] = "take" /\ t \in List(claim[e])
                   \/ Executes(e, t)}}
WaitsInOnePlace ==
  \A t \in Task \ Latches : state[t] \in {"waiting", "executing"} => Cardinality(Places(t)) = 1

(* "it will never go to zero with a ready or executing task": the count    *)
(* covers what is in the ready stacks and what threads run, so no thread   *)
(* leaves the driver before all that can run has run.                      *)
CountCoversWork ==
  Cardinality({t \in Task : \E q \in Queue : t \in List(queue[q])}
              \cup {t \in Task : \E e \in Thread : Executes(e, t)}) <= count
LeavesNothing ==
  (\E e \in Thread : pc[e] = "off") /\ pc[0] # "script"
    => \A t \in Task : ~\E e \in Thread : Executes(e, t)

(* The count of ready tasks keeps the threads in the driver long enough.   *)
CountIsSound == CountCoversWork /\ LeavesNothing

(* A task starts when all it depends on is complete, runs on one thread or *)
(* team at a time, and completes once.                                     *)
Status(t) ==
  CASE state[t] \in {"none", "constructing"} -> "idle"
    [] state[t] = "waiting" -> "waiting"
    [] state[t] = "executing" -> "running"
    [] state[t] = "complete" -> "complete"
    [] state[t] = "freed" -> IF runs[t] > 0 \/ t \in Latches THEN "complete" ELSE "idle"
Graph ==
  INSTANCE TaskGraph WITH
    status <- [t \in Task |-> Status(t)],
    after <- [t \in Task |-> IF state[t] = "waiting" THEN Range(dep[t]) ELSE {}]
IsTaskGraph == Graph!Spec

(* Whoever waits for the policy gets back, with every task that was        *)
(* spawned complete, those that other tasks spawned included.              *)
Settled == \A t \in Task : state[t] \notin {"waiting", "executing"}
WaitEnds == pc[0] = "in" ~> ((\A e \in Thread : pc[e] = "off") /\ Settled)
=============================================================================
