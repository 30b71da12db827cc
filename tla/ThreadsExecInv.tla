--------------------------- MODULE ThreadsExecInv ---------------------------
(***************************************************************************)
(* The inductive invariant of ThreadsExec, for an application that never   *)
(* sleeps and never initializes a pool that is up.                         *)
(*                                                                         *)
(* The process's program counter tells what each entry of the pool may be  *)
(* doing: it is being built, at rest, alone in resize_scratch, serving a   *)
(* launch or being reaped.                                                 *)
(***************************************************************************)
EXTENDS ThreadsExec

Disciplined == "sleep" \notin CallsAwake /\ "initialize" \notin CallsAwake

Building == mpc \in {"spawn", "spawned", "settle"}
Serial == mpc \in {"serial", "serial_wait"}
Reaping == mpc \in {"reap", "reap_wait"}
Launching == fn = "functor"
-----------------------------------------------------------------------------
(* What an entry may be doing                                              *)

IsProcess(e) == e = 0 /\ inPool

Quiet(e) ==
  IF IsProcess(e) THEN state[Process] = "Inactive" /\ wpc[e] = "none"
                  ELSE state[e] = "Inactive" /\ wpc[e] = "wait"

(* its thread is being created                                             *)
Newborn(e) ==
  \/ registry[e] = Nil /\ wpc[e] = "none"
  \/ /\ registry[e] = e /\ e >= begin
     /\ \/ wpc[e] \in {"report", "call", "deactivate"} /\ state[e] = "Active"
        \/ wpc[e] = "wait" /\ state[e] = "Inactive"

(* it serves execute_serial                                                *)
Resizing(e) ==
  state[e] = "Active" /\ wpc[e] \in {"wait", "call", "resize", "deactivate"}

(* it ran the functor, and so did its whole subtree                        *)
SubtreeDone(e) == \A d \in Subtree(e, poolSize) : Quiet(d) /\ ran[d] = 1

(* it fans in, and has waited for the first i of its children              *)
Waited(e, i) ==
  /\ ran[e] = 1 /\ i \in 0..Fans(e)
  /\ \A j \in 0..(i - 1) : SubtreeDone(FanChild(e, j))

Working(e) ==
  IF IsProcess(e)
    THEN /\ state[Process] = "Active" /\ wpc[e] = "none"
         /\ \/ mpc \in {"activate", "functor"} /\ ran[e] = 0
            \/ mpc = "fan_in" /\ Waited(e, mi)
    ELSE /\ state[e] = "Active"
         /\ \/ wpc[e] \in {"wait", "call", "functor"} /\ ran[e] = 0
            \/ wpc[e] = "fan_in" /\ Waited(e, wi[e])

(* it was told to terminate                                                *)
Dying(e) ==
  \/ /\ state[Process] = "Inactive" /\ registry[e] = e
     /\ wpc[e] = "wait" /\ state[e] = "Terminating"
  \/ /\ state[Process] = "Inactive" /\ registry[e] = e /\ wpc[e] = "destroy"
  \/ /\ state[Process] = "Inactive" /\ registry[e] = Nil /\ wpc[e] = "farewell"
  \/ /\ state[Process] = "Terminating" /\ registry[e] = Nil /\ wpc[e] = "none"
Gone(e) == wpc[e] = "none" /\ registry[e] = Nil
-----------------------------------------------------------------------------
(* The parts of the invariant                                              *)

(* where the process can be, and what its function then is                 *)
ControlOK ==
  /\ mpc \notin {"lock", "wake_lock", "wake_unlock", "crashed"}
  /\ fn # "sleep" /\ ret # "lock" /\ op # "sleep"
  /\ poolSize = 0 => /\ ~inPool /\ fn = "null"
                     /\ mpc \in {"idle", "fence", "clear", "resize_scratch", "resize",
                                 "start", "reap"}
  /\ Building <=> fn = "noop"
  /\ Serial <=> fn = "resize"
  /\ mpc \in {"activate", "functor", "fan_in"} => Launching
  /\ Launching => mpc \in {"activate", "functor", "fan_in", "fence", "clear"}
  /\ mpc \in {"functor", "fan_in"} => inPool
  /\ Building => ~inPool /\ mi >= begin
  /\ Serial \/ Reaping \/ mpc = "activate" => mi <= poolSize
  /\ mpc \in {"serial_wait", "reap_wait"} => mi > First

(* at most one thread has been spawned and not reported                    *)
BirthOK ==
  /\ newborn => /\ mpc = "spawned" /\ state[Process] = "Inactive"
                /\ \A e \in Slot : wpc[e] # "report"
  /\ \A e \in Slot : wpc[e] = "report" =>
       /\ mpc = "spawned" /\ state[Process] = "Inactive"
       /\ \A d \in Slot : wpc[d] = "report" => d = e

(* a thread that bound to no core is harmless: it never terminates         *)
StrayOK ==
  /\ registry[Stray] \in {Nil, Stray, Process}
  /\ wpc[Stray] \notin {"destroy", "farewell"}
  /\ wpc[Stray] # "none" => BindMayFail /\ state[Stray] # "Terminating"

(* threads that are in no pool                                             *)
OutsideOK ==
  \A e \in Entry \ Entries(poolSize) :
    \/ wpc[e] = "none"
    \/ poolSize = 0 /\ wpc[e] = "wait" /\ state[e] = "Inactive"

(* the process's own state, when it is not in the pool                     *)
ProcessOK == poolSize > 0 /\ ~Building /\ ~inPool /\ mpc # "reap_wait"
               => state[Process] = "Inactive"

BuildOK ==
  Building => \A e \in Entries(poolSize) :
    /\ Newborn(e) /\ ran[e] = 0
    /\ mpc = "settle" /\ begin <= e /\ e < mi =>
         IF registry[e] = Nil THEN failed ELSE Quiet(e)

TableOK ==
  Formed => \A e \in Entries(poolSize) :
              registry[e] = IF IsProcess(e) THEN Process ELSE e

RanOK ==
  Formed /\ ~Launching => \A e \in Entries(poolSize) : ran[e] = ran[0] /\ ran[e] <= 1

RestOK == Formed /\ fn = "null" => \A e \in Entries(poolSize) : Quiet(e)

SerialOK ==
  Serial => \A e \in Entries(poolSize) :
    Quiet(e) \/ (mpc = "serial_wait" /\ e = mi - 1 /\ Resizing(e))

LaunchOK ==
  Launching => \A e \in Entries(poolSize) :
    IF mpc = "activate" /\ e < mi THEN Quiet(e) /\ ran[e] = 0
                                  ELSE SubtreeDone(e) \/ Working(e)

RootOK ==
  /\ mpc = "clear" /\ Launching => SubtreeDone(0)
  /\ inPool /\ (mpc \in {"functor", "fan_in"} \/ (mpc = "activate" /\ mi = 0))
       => Working(0)

ReapOK ==
  Reaping /\ poolSize > 0 => \A e \in Entries(poolSize) :
    /\ IsProcess(e) => /\ wpc[e] = "none" /\ registry[e] = Process
                       /\ mpc = "reap" => state[Process] = "Inactive"
    /\ mpc = "reap_wait" /\ e = mi - 1 => Dying(e)
    /\ mpc = "reap" /\ e = mi - 1 /\ ~IsProcess(e) => Quiet(e) /\ registry[e] = e
    /\ e < mi - 1 /\ ~IsProcess(e) => Quiet(e) /\ registry[e] = e
    /\ e >= mi /\ ~IsProcess(e) => Gone(e)

(* Whatever the process is doing tells what each entry of its pool may be  *)
(* doing: nothing that has to be joined, built, resized or reaped escapes  *)
(* the loop that is supposed to wait for it.  Every step preserves it.     *)
Inductive ==
  /\ ControlOK /\ BirthOK /\ StrayOK /\ OutsideOK /\ ProcessOK
  /\ BuildOK /\ TableOK /\ RanOK /\ RestOK /\ SerialOK /\ LaunchOK /\ RootOK /\ ReapOK
=============================================================================
