--------------------------- MODULE SharedPointer ---------------------------
(***************************************************************************)
(* What reference counting promises: a record may be shared by whoever can *)
(* reach a reference to it, borrowed by who holds one, and is freed once,  *)
(* when no reference and no loan is left.                                  *)
(***************************************************************************)
EXTENDS Integers

CONSTANTS Thread, Record

VARIABLES
  memory,   \* of each record: "fresh", "live" or "freed"
  refs,     \* the references of each thread to each record
  loans     \* the records each thread uses without a reference of their own

vars == <<memory, refs, loans>>

Init ==
  /\ memory = [r \in Record |-> "fresh"]
  /\ refs = [t \in Thread |-> [r \in Record |-> 0]] /\ loans = [t \in Thread |-> {}]

Add(t, r, n) == refs' = [refs EXCEPT ![t][r] = @ + n] /\ UNCHANGED loans

Allocate(t, r) ==
  memory[r] = "fresh" /\ memory' = [memory EXCEPT ![r] = "live"] /\ Add(t, r, 1)

Share(t, r) == (\E u \in Thread : refs[u][r] > 0) /\ Add(t, r, 1) /\ UNCHANGED memory

Drop(t, r) == refs[t][r] > 0 /\ Add(t, r, -1) /\ UNCHANGED memory

Borrow(t) ==
  /\ loans[t] = {} /\ loans' = [loans EXCEPT ![t] = {r \in Record : refs[t][r] > 0}]
  /\ UNCHANGED <<memory, refs>>

GiveBack(t) ==
  /\ \A r \in loans[t] : memory[r] = "live"
  /\ loans' = [loans EXCEPT ![t] = {}] /\ UNCHANGED <<memory, refs>>

Free(r) ==
  /\ memory[r] = "live" /\ memory' = [memory EXCEPT ![r] = "freed"]
  /\ \A t \in Thread : refs[t][r] = 0 /\ r \notin loans[t]
  /\ UNCHANGED <<refs, loans>>

Next ==
  \/ \E t \in Thread, r \in Record : Allocate(t, r) \/ Share(t, r) \/ Drop(t, r)
  \/ \E t \in Thread : Borrow(t) \/ GiveBack(t)
  \/ \E r \in Record : Free(r)

Spec == Init /\ [][Next]_vars
=============================================================================
