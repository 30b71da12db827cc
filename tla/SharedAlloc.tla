---------------------------- MODULE SharedAlloc ----------------------------
(***************************************************************************)
(* Kokkos' shared allocations: records counted by the trackers of Views,   *)
(* and kept in a ring of pointers whose root doubles as its lock: whoever  *)
(* exchanges the root's next with null owns the ring until it puts a       *)
(* pointer back.  A launch copies its functor while it has claimed the     *)
(* global tracking flag, so that these copies are not counted.             *)
(*                                                                         *)
(* Two things are the caller's part.  Only the thread that has claimed the *)
(* flag copies trackers meanwhile, and a tracker is not assigned to        *)
(* itself: the code enforces neither.                                      *)
(***************************************************************************)
EXTENDS Integers, FiniteSets

CONSTANTS
  Thread, Record, Root, Null,
  MaxRefs,    \* bound: the trackers of one thread of one record
  MaxCalls    \* bound: the calls of each thread to find, is_sane and parallel_for

ASSUME SharedAllocAssumption ==
  /\ Root \notin Record /\ Null \notin Record \cup {Root}
  /\ IsFiniteSet(Thread) /\ MaxRefs \in Nat \ {0} /\ MaxCalls \in Nat

VARIABLES
  next, prev,   \* m_next and m_prev of the root and the records
  count,        \* m_count
  memory,       \* of each record: "fresh", "live" or "freed" by m_dealloc
  tracking,     \* s_tracking_enabled
  op,           \* what each thread does, with its local variables
  held,         \* the counting trackers of each thread, by record
  bare,         \* the records of its trackers that do not count
  calls

ring == <<next, prev>>
vars == <<ring, count, memory, tracking, op, held, bare, calls>>

(* do: the next step; rec: the record it is about; first: root_next, while *)
(* the ring is locked; at: where a traversal has come to; then: the record *)
(* that an assignment refers to next.                                      *)
Idle == [do |-> "idle", rec |-> Null, first |-> Null, at |-> Null, then |-> Null]

Node == Record \cup {Root}
Each(v) == [t \in Thread |-> v]

Init ==
  /\ next = [n \in Node |-> IF n = Root THEN Root ELSE Null] /\ prev = next
  /\ count = [r \in Record |-> 0] /\ memory = [r \in Record |-> "fresh"] /\ tracking = 1
  /\ op = Each(Idle) /\ held = Each([r \in Record |-> 0]) /\ bare = Each({}) /\ calls = Each(0)
-----------------------------------------------------------------------------
Put(f, x, v) == [f EXCEPT ![x] = v]
At(t, step) == op[t].do = step
Go(t, old, new) == At(t, old) /\ op' = [op EXCEPT ![t].do = new]
GoWith(t, old, new, field, value) ==
  At(t, old) /\ op' = [op EXCEPT ![t].do = new, ![t][field] = value]
Return(t, old) == At(t, old) /\ op' = Put(op, t, Idle)

(* The exchange that locks the ring, and the one that unlocks it, which    *)
(* throws when it does not find the null it has left there.                *)
LockIsFree == next[Root] # Null
StaysLocked(value) == UNCHANGED ring
Unlocks(value) == next' = Put(next, Root, value) /\ UNCHANGED prev
Unlocked(new) == IF next[Root] = Null THEN new ELSE "thrown"

(* increment, and decrement, which goes on to take the record out of the   *)
(* ring when it was the last reference.                                    *)
Increment(t, old, r) ==
  /\ At(t, old) /\ IF count[r] < 0 THEN Go(t, old, "thrown") ELSE Return(t, old)
  /\ count' = Put(count, r, count[r] + 1) /\ held' = [held EXCEPT ![t][r] = @ + 1]
  /\ UNCHANGED <<ring, memory, tracking, bare, calls>>
LastButOne(old) == old \in 1..2
IsLast(old) == old = 1
AfterDecrement(old) == IF IsLast(old) THEN "erase" ELSE IF old < 1 THEN "thrown" ELSE "copy"
Decrement(t, r, nextRecord) ==
  /\ At(t, "idle")
  /\ op' = Put(op, t, IF AfterDecrement(count[r]) = "copy" /\ nextRecord = Null THEN Idle
                      ELSE [Idle EXCEPT !.do = AfterDecrement(count[r]),
                                        !.rec = r, !.then = nextRecord])
  /\ count' = Put(count, r, count[r] - 1) /\ held' = [held EXCEPT ![t][r] = @ - 1]
  /\ UNCHANGED <<ring, memory, tracking, bare, calls>>
-----------------------------------------------------------------------------
(* allocate: the constructor puts the record behind the root               *)
Allocate(t) ==
  \E r \in Record :
    /\ memory[r] = "fresh" /\ memory' = Put(memory, r, "live")
    /\ GoWith(t, "idle", "insert", "rec", r) /\ prev' = Put(prev, r, Root)
    /\ UNCHANGED <<next, count, tracking, held, bare, calls>>

Same == UNCHANGED <<count, memory, tracking, held, bare, calls>>

Insert(t) ==
  /\ LockIsFree /\ Go(t, "insert", "link")
  /\ next' = [next EXCEPT ![op[t].rec] = next[Root], ![Root] = Null] /\ UNCHANGED prev /\ Same

Link(t) ==
  Go(t, "link", "publish") /\ prev' = Put(prev, next[op[t].rec], op[t].rec) /\ UNCHANGED next /\ Same

Publish(t) == Go(t, "publish", Unlocked("assign")) /\ Unlocks(op[t].rec) /\ Same

(* Trackers: the first of a record, a copy of one that is there, an        *)
(* assignment that lets go of one record and then refers to another, and   *)
(* the destructor.                                                         *)
AssignAllocated(t) == Increment(t, "assign", op[t].rec)

IsTracking == tracking = 1
Reachable(r) == \E u \in Thread : held[u][r] > 0
Copy(t) ==
  \E r \in Record : IsTracking /\ Reachable(r) /\ held[t][r] < MaxRefs /\ Increment(t, "idle", r)

Drop(t) == \E r \in Record : held[t][r] > 0 /\ Decrement(t, r, Null)

(* The tracker on the right is another one of the thread.                  *)
AnotherOf(t, old, r) == held[t][r] > (IF r = old THEN 1 ELSE 0)
Assign(t) ==
  \E old, r \in Record :
    /\ held[t][old] > 0 /\ AnotherOf(t, old, r) /\ (r # old => held[t][r] < MaxRefs)
    /\ Decrement(t, old, r)
AssignCopies(t) == IsTracking /\ Increment(t, "copy", op[t].then)
-----------------------------------------------------------------------------
(* decrement of the last reference: the record leaves the ring             *)
Erase(t) ==
  /\ LockIsFree /\ GoWith(t, "erase", "unlink", "first", next[Root])
  /\ next' = Put(next, Root, Null) /\ UNCHANGED prev /\ Same

Unlink(t) ==
  /\ Go(t, "unlink", "bypass")
  /\ prev' = Put(prev, next[op[t].rec], prev[op[t].rec]) /\ UNCHANGED next /\ Same

NeverFirst(t) == FALSE
IsFirst(t) == op[t].first = op[t].rec
Bypass(t) ==
  /\ IF IsFirst(t) THEN GoWith(t, "bypass", "erased", "first", next[op[t].rec]) /\ UNCHANGED next
     ELSE Go(t, "bypass", "erased") /\ next' = Put(next, prev[op[t].rec], next[op[t].rec])
  /\ UNCHANGED prev /\ Same

Erased(t) == Go(t, "erased", Unlocked("dealloc")) /\ Unlocks(op[t].first) /\ Same

Deallocate(t) ==
  /\ IF op[t].then = Null THEN Return(t, "dealloc") ELSE Go(t, "dealloc", "copy")
  /\ memory' = Put(memory, op[t].rec, "freed")
  /\ next' = Put(next, op[t].rec, Null) /\ prev' = Put(prev, op[t].rec, Null)
  /\ UNCHANGED <<count, tracking, held, bare, calls>>
-----------------------------------------------------------------------------
(* find and is_sane walk the ring they have locked                         *)
Call(t) == calls[t] < MaxCalls /\ calls' = Put(calls, t, calls[t] + 1)

Find(t) ==
  /\ Call(t) /\ \E r \in Record : GoWith(t, "idle", "find", "rec", r)
  /\ UNCHANGED <<ring, count, memory, tracking, held, bare>>
IsSane(t) ==
  /\ Call(t) /\ (\E r \in Record : held[t][r] > 0) /\ Go(t, "idle", "sane")
  /\ UNCHANGED <<ring, count, memory, tracking, held, bare>>

Traverse(t, old, new) ==
  /\ LockIsFree /\ At(t, old)
  /\ op' = [op EXCEPT ![t].do = new, ![t].first = next[Root], ![t].at = next[Root]]
  /\ next' = Put(next, Root, Null) /\ UNCHANGED prev /\ Same

Walk(t) ==
  /\ op[t].at \notin {Root, op[t].rec} /\ GoWith(t, "walk", "walk", "at", next[op[t].at])
  /\ UNCHANGED ring /\ Same
Found(t) == op[t].at \in {Root, op[t].rec} /\ Go(t, "walk", "found") /\ UNCHANGED ring /\ Same

IsConsistent(t, r) ==
  /\ prev[r] # Null /\ next[r] # Null
  /\ IF prev[r] # Root THEN next[prev[r]] = r ELSE op[t].first = r
  /\ prev[next[r]] = r /\ count[r] >= 0
Check(t) ==
  /\ op[t].at # Root
  /\ GoWith(t, "check", IF IsConsistent(t, op[t].at) THEN "check" ELSE "insane", "at", next[op[t].at])
  /\ UNCHANGED ring /\ Same
Checked(t) == op[t].at = Root /\ Go(t, "check", "checked") /\ UNCHANGED ring /\ Same

TraverseEnds(t, old) ==
  (IF next[Root] = Null THEN Return(t, old) ELSE Go(t, old, "thrown")) /\ Unlocks(op[t].first) /\ Same
-----------------------------------------------------------------------------
(* parallel_for: the functor is copied into the closure while the flag is  *)
(* claimed, and the closure lives until the launch has been executed.      *)
Launch(t) ==
  Call(t) /\ Go(t, "idle", "claim") /\ UNCHANGED <<ring, count, memory, tracking, held, bare>>
Claim(t) ==
  /\ IsTracking /\ Go(t, "claim", "capture") /\ tracking' = 0
  /\ UNCHANGED <<ring, count, memory, held, bare, calls>>
Capture(t) ==
  /\ Go(t, "capture", "release") /\ bare' = Put(bare, t, {r \in Record : held[t][r] > 0})
  /\ UNCHANGED <<ring, count, memory, tracking, held, calls>>
Release(t) ==
  /\ Go(t, "release", IF tracking = 0 THEN "run" ELSE "thrown") /\ tracking' = 1
  /\ UNCHANGED <<ring, count, memory, held, bare, calls>>
LaunchEnds(t) ==
  /\ Return(t, "run") /\ bare' = Put(bare, t, {})
  /\ UNCHANGED <<ring, count, memory, tracking, held, calls>>
-----------------------------------------------------------------------------
Goes(t) ==
  \/ Insert(t) \/ Link(t) \/ Publish(t) \/ AssignAllocated(t) \/ AssignCopies(t)
  \/ Erase(t) \/ Unlink(t) \/ Bypass(t) \/ Erased(t) \/ Deallocate(t)
  \/ Traverse(t, "find", "walk") \/ Walk(t) \/ Found(t) \/ TraverseEnds(t, "found")
  \/ Traverse(t, "sane", "check") \/ Check(t) \/ Checked(t) \/ TraverseEnds(t, "checked")
  \/ TraverseEnds(t, "insane")
  \/ Claim(t) \/ Capture(t) \/ Release(t) \/ LaunchEnds(t)
Begins(t) ==
  Allocate(t) \/ Copy(t) \/ Drop(t) \/ Assign(t) \/ Find(t) \/ IsSane(t) \/ Launch(t)

Next == \E t \in Thread : Begins(t) \/ Goes(t)

Spec == Init /\ [][Next]_vars

(* A thread that is in a call goes on; none need begin another.            *)
FairSpec == Spec /\ \A t \in Thread : WF_vars(Goes(t))
-----------------------------------------------------------------------------
Steps == {"idle", "insert", "link", "publish", "assign", "copy", "erase", "unlink", "bypass",
          "erased", "dealloc", "find", "walk", "found", "sane", "check", "checked", "insane",
          "claim", "capture", "release", "run"}   \* and never "thrown"
TypeOK ==
  /\ next \in [Node -> Node \cup {Null}] /\ prev \in [Node -> Node \cup {Null}]
  /\ count \in [Record -> 0..(MaxRefs * Cardinality(Thread))]
  /\ memory \in [Record -> {"fresh", "live", "freed"}] /\ tracking \in 0..1
  /\ op \in [Thread -> [do : Steps, rec : Record \cup {Null}, first : Node \cup {Null},
                       at : Node \cup {Null}, then : Record \cup {Null}]]
  /\ held \in [Thread -> [Record -> 0..MaxRefs]] /\ bare \in [Thread -> SUBSET Record]
  /\ calls \in [Thread -> 0..MaxCalls]

(* Whenever the ring is not locked it goes from the root through every     *)
(* record that has been inserted and not taken out, once, and back, and    *)
(* prev goes the other way.                                                *)
Passing(r, where) == \E t \in Thread : op[t].do \in where /\ op[t].rec = r
InRing == {r \in Record : /\ memory[r] = "live"
                          /\ ~Passing(r, {"insert", "link", "publish", "dealloc"})}
RingIsSound ==
  LockIsFree =>
    LET n == Cardinality(InRing)
        node[i \in 0..n + 1] ==
          IF i = 0 THEN Root ELSE IF node[i - 1] = Null THEN Null ELSE next[node[i - 1]]
    IN /\ {node[i] : i \in 1..n} = InRing /\ node[n + 1] = Root
       /\ \A i \in 0..n : prev[node[i + 1]] = node[i]

(* No traversal steps on a record that has left the ring, find returns     *)
(* every record its caller holds, and is_sane finds nothing amiss.         *)
TraversalsAreSafe ==
  \A t \in Thread :
    /\ op[t].do \in {"walk", "check"} => op[t].at \in InRing \cup {Root}
    /\ At(t, "found") => op[t].at = op[t].rec \/ held[t][op[t].rec] = 0
    /\ ~At(t, "insane")

(* The ring is whole for whoever holds its lock, and for nobody else.      *)
RingIsSafe == TypeOK /\ RingIsSound /\ TraversalsAreSafe

(* A record is freed once, when there is no tracker of it left, counting   *)
(* or not; nobody gets a reference to a record without one.                *)
Promised == INSTANCE SharedPointer WITH
  memory <- [r \in Record |-> IF Passing(r, {"insert", "link", "publish", "assign"}) THEN "fresh"
                              ELSE memory[r]],
  refs <- held, loans <- bare
IsSharedPointer == Promised!Spec

(* A record that is not referred to any more is freed in the end, and      *)
(* every call returns: nobody waits for the lock or the flag for ever.     *)
Reclaims ==
  \A r \in Record : memory[r] = "live" ~> (memory[r] = "freed" \/ Reachable(r))
CallsReturn == \A t \in Thread : ~At(t, "idle") ~> At(t, "idle")

(* Memory and calls both come to their end.                                *)
Progress == Reclaims /\ CallsReturn
=============================================================================
