------------------------- MODULE SharedAllocProofs -------------------------
(***************************************************************************)
(* Proofs about SharedAlloc, for all sets of threads and records: the ring *)
(* is whole for whoever owns its lock, no traversal leaves it, and the     *)
(* records are shared pointers.                                            *)
(***************************************************************************)
EXTENDS SharedAlloc, FiniteSetTheorems, TLAPS

USE SharedAllocAssumption
-----------------------------------------------------------------------------
(* The inductive invariant                                                 *)

Born == {"insert", "link", "publish", "assign"}
Dying == {"erase", "unlink", "bypass", "erased", "dealloc"}
Locking == {"link", "publish", "unlink", "bypass", "erased", "walk", "found", "check",
            "checked"}

(* Types, except for the bound of the count                                *)
Frame == [do : Steps \ {"insane"}, rec : Record \cup {Null}, first : Node \cup {Null},
          at : Node \cup {Null}, then : Record \cup {Null}]
Typed ==
  /\ next \in [Node -> Node \cup {Null}] /\ prev \in [Node -> Node \cup {Null}]
  /\ count \in [Record -> Int]
  /\ memory \in [Record -> {"fresh", "live", "freed"}] /\ tracking \in 0..1
  /\ op \in [Thread -> Frame]
  /\ held \in [Thread -> [Record -> 0..MaxRefs]] /\ bare \in [Thread -> SUBSET Record]
  /\ calls \in [Thread -> 0..MaxCalls]

(* A record on its way in or out is live, nobody's, and in the hands of    *)
(* one thread.                                                             *)
OwnOK ==
  /\ \A t \in Thread : op[t].do \in Born \cup Dying =>
       /\ op[t].rec \in Record /\ memory[op[t].rec] = "live"
       /\ \A u \in Thread : held[u][op[t].rec] = 0
       /\ \A u \in Thread : op[u].do \in Born \cup Dying /\ op[u].rec = op[t].rec => u = t
  /\ \A t \in Thread : \A r \in Record : held[t][r] > 0 => memory[r] = "live"

(* What an assignment refers to next is what its thread has another        *)
(* tracker of, and what find looks for is a record.                        *)
Finding == {"find", "walk", "found"}
ThenOK ==
  \A t \in Thread :
    /\ op[t].do = "copy" => op[t].then # Null
    /\ op[t].do \in Dying \cup {"copy"} /\ op[t].then # Null =>
         held[t][op[t].then] \in 1..(MaxRefs - 1)
    /\ op[t].do \in Finding => op[t].rec \in Record

(* The count of a record is the number of its trackers that count.         *)
Tokens(h, r) == {p \in Thread \X (1..MaxRefs) : p[2] <= h[p[1]][r]}
CountOK ==
  \A r \in Record : IsFiniteSet(Tokens(held, r)) /\ count[r] = Cardinality(Tokens(held, r))

(* One thread at most has claimed the tracking flag, and the copies that   *)
(* are not counted are backed by others that are.                          *)
TrackOK ==
  /\ \A t \in Thread : op[t].do \in {"capture", "release"} =>
       tracking = 0 /\ \A u \in Thread : op[u].do \in {"capture", "release"} => u = t
  /\ \A t \in Thread : \A r \in bare[t] :
       op[t].do \in {"release", "run"} /\ held[t][r] > 0

(* One thread at most owns the ring.                                       *)
LockOK ==
  /\ next[Root] = Null <=> \E t \in Thread : op[t].do \in Locking
  /\ \A t, u \in Thread : op[t].do \in Locking /\ op[u].do \in Locking => t = u

(* The records that are linked                                             *)
Linked == {r \in Record : /\ memory[r] = "live"
                          /\ ~Passing(r, {"insert", "link", "publish", "erased", "dealloc"})}

(* f lists the nodes from the root through n records and back.             *)
Lists(f, n, S, nxt) ==
  /\ f[0] = Root /\ f[n + 1] = Root
  /\ \A i \in 1..n : f[i] \in S /\ nxt[f[i]] = f[i + 1]
  /\ \A r \in S : \E i \in 1..n : f[i] = r
  /\ \A i, j \in 1..n : f[i] = f[j] => i = j
Back(f, I, prv) == \A i \in I : prv[f[i + 1]] = f[i]

(* What the owner of the lock o has of the ring, and where it has come to  *)
Owner(o, f, n, nxt, prv) ==
  /\ o.do \in {"link", "publish"} => nxt[o.rec] = f[1]
  /\ o.do = "link" => Back(f, 0..n, prv)
  /\ o.do = "publish" => prv[f[1]] = o.rec /\ Back(f, 1..n, prv)
  /\ o.do = "bypass" => \E k \in 1..n : /\ f[k] = o.rec /\ prv[f[k + 1]] = f[k - 1]
                                        /\ Back(f, (0..n) \ {k}, prv)
  /\ o.do \in {"unlink", "erased", "walk", "found", "check", "checked"} => Back(f, 0..n, prv)
  /\ o.do \in Locking \ {"link", "publish"} => o.first = f[1]
  /\ o.do = "walk" =>
       \E k \in 1..(n + 1) : o.at = f[k] /\ \A j \in 1..(k - 1) : f[j] # o.rec
  /\ o.do = "found" => \/ o.at = o.rec /\ o.rec \in Record
                       \/ o.at = Root /\ \A j \in 1..n : f[j] # o.rec
  /\ o.do = "check" => \E k \in 1..(n + 1) : o.at = f[k]

Listed(f) ==
  LET n == Cardinality(Linked)
  IN  /\ Lists(f, n, Linked, next)
      /\ LockIsFree => f[1] = next[Root] /\ Back(f, 0..n, prev)
      /\ \A t \in Thread : Owner(op[t], f, n, next, prev)

RingOK ==
  /\ IsFiniteSet(Linked)
  /\ \E f \in [0..(Cardinality(Linked) + 1) -> Node] : Listed(f)
  /\ \A t \in Thread : op[t].do \in {"insert", "link", "publish"} => prev[op[t].rec] = Root

SharedInv == Typed /\ OwnOK /\ ThenOK /\ CountOK /\ TrackOK /\ LockOK /\ RingOK
-----------------------------------------------------------------------------
(* What the invariant says at once                                         *)

LEMMA TokensCounted ==
  ASSUME NEW h \in [Thread -> [Record -> 0..MaxRefs]], NEW r \in Record,
         IsFiniteSet(Tokens(h, r))
  PROVE  /\ Cardinality(Tokens(h, r)) \in Nat
         /\ Cardinality(Tokens(h, r)) = 0 <=> \A t \in Thread : h[t][r] = 0
<1>1. Cardinality(Tokens(h, r)) \in Nat /\ (Cardinality(Tokens(h, r)) = 0 <=> Tokens(h, r) = {})
  BY FS_CardinalityType, FS_EmptySet
<1>2. ASSUME NEW t \in Thread, h[t][r] # 0 PROVE <<t, 1>> \in Tokens(h, r)
  BY <1>2 DEF Tokens
<1>3. ASSUME NEW p \in Tokens(h, r) PROVE p[1] \in Thread /\ h[p[1]][r] # 0
  BY <1>3 DEF Tokens
<1>. QED
  BY <1>1, <1>2, <1>3

LEMMA Counted ==
  ASSUME Typed, CountOK, NEW r \in Record
  PROVE  /\ count[r] \in Nat
         /\ count[r] = 0 <=> \A t \in Thread : held[t][r] = 0
BY TokensCounted DEF CountOK, Typed

(* Whoever owns the lock has left a null in the root.                      *)
LEMMA OwnerFindsNull ==
  ASSUME LockOK, NEW t \in Thread, op[t].do \in Locking
  PROVE  next[Root] = Null /\ \A u \in Thread \ {t} : op[u].do \notin Locking
BY DEF LockOK

LEMMA NodeFacts ==
  /\ Record \subseteq Node /\ Root \in Node /\ Root \notin Record
  /\ Null \notin Node /\ Linked \subseteq Record
BY DEF Node, Linked

(* The chain, by its length                                                *)
LEMMA ChainExists ==
  ASSUME RingOK
  PROVE  \E n \in Nat : \E f \in [0..(n + 1) -> Node] : n = Cardinality(Linked) /\ Listed(f)
BY FS_CardinalityType DEF RingOK

(* A traversal is on the ring, and the ring is consistent where it is.     *)
LEMMA Traversing ==
  ASSUME Typed, CountOK, RingOK, NEW t \in Thread
  PROVE  /\ op[t].do \in {"walk", "check"} => op[t].at \in Linked \cup {Root}
         /\ op[t].do = "check" /\ op[t].at # Root => IsConsistent(t, op[t].at)
<1>0. PICK n \in Nat : \E f \in [0..(n + 1) -> Node] : n = Cardinality(Linked) /\ Listed(f)
  BY ChainExists
<1>1. PICK f \in [0..(n + 1) -> Node] : n = Cardinality(Linked) /\ Listed(f)
  BY <1>0
<1>2. Lists(f, n, Linked, next) /\ Owner(op[t], f, n, next, prev)
  BY <1>1 DEF Listed
<1>3. \A k \in 1..(n + 1) : f[k] \in Linked \cup {Root}
  BY <1>2 DEF Lists
<1>4. op[t].do \in {"walk", "check"} => op[t].at \in Linked \cup {Root}
  BY <1>2, <1>3 DEF Owner
<1>5. ASSUME op[t].do = "check", op[t].at # Root PROVE IsConsistent(t, op[t].at)
  <2>1. PICK k \in 1..(n + 1) : op[t].at = f[k]
    BY <1>2, <1>5 DEF Owner
  <2>2. k \in 1..n /\ f[k] \in Record /\ next[f[k]] = f[k + 1] /\ f[k - 1] \in Node
    BY <1>2, <1>5, <2>1, NodeFacts DEF Lists
  <2>3. prev[f[k]] = f[k - 1] /\ prev[f[k + 1]] = f[k] /\ op[t].first = f[1]
    <3>1. Back(f, 0..n, prev) /\ op[t].first = f[1]
      BY <1>2, <1>5 DEF Owner, Locking
    <3>2. k - 1 \in 0..n /\ k \in 0..n /\ (k - 1) + 1 = k
      BY <2>2
    <3>. QED
      BY <3>1, <3>2 DEF Back
  <2>4. f[k - 1] # Root => next[f[k - 1]] = f[k]
    BY <1>2, <2>2 DEF Lists
  <2>5. f[k - 1] = Root => k = 1
    <3>1. k # 1 => k - 1 \in 1..n
      BY <2>2
    <3>. QED
      BY <1>2, <3>1, NodeFacts DEF Lists
  <2>6. f[k + 1] \in Node /\ count[f[k]] >= 0
    BY <2>2, Counted
  <2>. QED
    BY <2>1, <2>2, <2>3, <2>4, <2>5, <2>6, NodeFacts DEF IsConsistent
<1>. QED
  BY <1>4, <1>5
-----------------------------------------------------------------------------
(* What the parts of an action do                                          *)

OthersStay(t) == \A u \in Thread \ {t} : op'[u] = op[u]

LEMMA StepNames ==
  \A s \in {"idle", "insert", "link", "publish", "assign", "copy", "erase", "unlink", "bypass",
            "erased", "dealloc", "find", "walk", "found", "sane", "check", "checked", "claim",
            "capture", "release", "run"} : s \in Steps \ {"insane"}
BY DEF Steps

LEMMA FrameFields ==
  ASSUME NEW o \in Frame, NEW new \in Steps \ {"insane"}
  PROVE  /\ [o EXCEPT !.do = new] \in Frame
         /\ \A v \in Record : [o EXCEPT !.do = new, !.rec = v] \in Frame
         /\ \A v \in Node \cup {Null} : /\ [o EXCEPT !.do = new, !.first = v] \in Frame
                                      /\ [o EXCEPT !.do = new, !.at = v] \in Frame
<1>1. [o EXCEPT !.do = new] \in Frame
  BY DEF Frame
<1>2. ASSUME NEW v \in Record PROVE [o EXCEPT !.do = new, !.rec = v] \in Frame
  BY DEF Frame
<1>3. ASSUME NEW v \in Node \cup {Null}
      PROVE  [o EXCEPT !.do = new, !.first = v] \in Frame /\ [o EXCEPT !.do = new, !.at = v] \in Frame
  BY DEF Frame
<1>. QED
  BY <1>1, <1>2, <1>3

LEMMA GoEffect ==
  ASSUME Typed, NEW t \in Thread, NEW old, NEW new, Go(t, old, new)
  PROVE  /\ op[t].do = old /\ op'[t] = [op[t] EXCEPT !.do = new] /\ OthersStay(t)
         /\ new \in Steps \ {"insane"} => op' \in [Thread -> Frame]
<1>1. op' = [op EXCEPT ![t] = [op[t] EXCEPT !.do = new]]
  BY DEF Go
<1>2. new \in Steps \ {"insane"} => [op[t] EXCEPT !.do = new] \in Frame
  BY FrameFields DEF Typed
<1>. QED
  BY <1>1, <1>2 DEF Typed, Go, At, OthersStay

LEMMA GoWithEffect ==
  ASSUME Typed, NEW t \in Thread, NEW old, NEW new, NEW v
  PROVE  /\ GoWith(t, old, new, "rec", v) =>
              /\ op[t].do = old /\ op'[t] = [op[t] EXCEPT !.do = new, !.rec = v] /\ OthersStay(t)
              /\ new \in Steps \ {"insane"} /\ v \in Record => op' \in [Thread -> Frame]
         /\ GoWith(t, old, new, "first", v) =>
              /\ op[t].do = old /\ op'[t] = [op[t] EXCEPT !.do = new, !.first = v] /\ OthersStay(t)
              /\ new \in Steps \ {"insane"} /\ v \in Node \cup {Null}
                   => op' \in [Thread -> Frame]
         /\ GoWith(t, old, new, "at", v) =>
              /\ op[t].do = old /\ op'[t] = [op[t] EXCEPT !.do = new, !.at = v] /\ OthersStay(t)
              /\ new \in Steps \ {"insane"} /\ v \in Node \cup {Null}
                   => op' \in [Thread -> Frame]
<1>1. ASSUME new \in Steps \ {"insane"}
      PROVE  /\ v \in Record => [op[t] EXCEPT !.do = new, !.rec = v] \in Frame
             /\ v \in Node \cup {Null} => /\ [op[t] EXCEPT !.do = new, !.first = v] \in Frame
                                         /\ [op[t] EXCEPT !.do = new, !.at = v] \in Frame
  BY <1>1, FrameFields DEF Typed
<1>2. /\ GoWith(t, old, new, "rec", v) =>
           op' = [op EXCEPT ![t] = [op[t] EXCEPT !.do = new, !.rec = v]]
      /\ GoWith(t, old, new, "first", v) =>
           op' = [op EXCEPT ![t] = [op[t] EXCEPT !.do = new, !.first = v]]
      /\ GoWith(t, old, new, "at", v) =>
           op' = [op EXCEPT ![t] = [op[t] EXCEPT !.do = new, !.at = v]]
  BY DEF GoWith, Typed, Frame
<1>3. \A g \in Frame : op' = [op EXCEPT ![t] = g] =>
        op'[t] = g /\ OthersStay(t) /\ op' \in [Thread -> Frame]
  BY DEF Typed, OthersStay
<1>4. \A g : op' = [op EXCEPT ![t] = g] => op'[t] = g /\ OthersStay(t)
  BY DEF Typed, OthersStay
<1>. QED
  BY <1>1, <1>2, <1>3, <1>4 DEF GoWith, At

LEMMA ReturnEffect ==
  ASSUME Typed, NEW t \in Thread, NEW old, Return(t, old)
  PROVE  /\ op[t].do = old /\ op'[t] = Idle /\ OthersStay(t)
         /\ op' \in [Thread -> Frame]
BY DEF Typed, Frame, Return, At, Put, Idle, Steps, OthersStay

LEMMA IncrementEffect ==
  ASSUME Typed, CountOK, NEW t \in Thread, NEW old, NEW r \in Record, Increment(t, old, r)
  PROVE  /\ Return(t, old)
         /\ count' = [count EXCEPT ![r] = @ + 1] /\ held' = [held EXCEPT ![t][r] = @ + 1]
         /\ UNCHANGED <<ring, memory, tracking, bare, calls>>
BY Counted DEF Increment, Put

Lets(t, r, s) ==
  /\ op[t].do = "idle" /\ held[t][r] > 0
  /\ op'[t] = IF count[r] = 1 THEN [Idle EXCEPT !.do = "erase", !.rec = r, !.then = s]
              ELSE IF s = Null THEN Idle
              ELSE [Idle EXCEPT !.do = "copy", !.rec = r, !.then = s]
  /\ count' = [count EXCEPT ![r] = @ - 1] /\ held' = [held EXCEPT ![t][r] = @ - 1]
  /\ UNCHANGED <<ring, memory, tracking, bare, calls>>

LEMMA DecrementEffect ==
  ASSUME Typed, CountOK, NEW t \in Thread, NEW r \in Record, NEW s \in Record \cup {Null},
         held[t][r] > 0, Decrement(t, r, s)
  PROVE  Lets(t, r, s) /\ OthersStay(t) /\ op' \in [Thread -> Frame]
<1>1. count[r] \in Nat /\ count[r] # 0
  BY Counted DEF Typed
<1>2. AfterDecrement(count[r]) = IF count[r] = 1 THEN "erase" ELSE "copy"
  BY <1>1 DEF AfterDecrement, IsLast
<1>3. op' = [op EXCEPT ![t] = IF count[r] = 1 THEN [Idle EXCEPT !.do = "erase", !.rec = r, !.then = s]
                               ELSE IF s = Null THEN Idle
                               ELSE [Idle EXCEPT !.do = "copy", !.rec = r, !.then = s]]
  BY <1>2 DEF Decrement, Put
<1>4. /\ [Idle EXCEPT !.do = "erase", !.rec = r, !.then = s] \in Frame
      /\ [Idle EXCEPT !.do = "copy", !.rec = r, !.then = s] \in Frame
      /\ Idle \in Frame
  BY DEF Idle, Frame, Steps
<1>5. OthersStay(t) /\ op' \in [Thread -> Frame]
  BY <1>3, <1>4 DEF Typed, OthersStay
<1>. QED
  BY <1>1, <1>3, <1>5 DEF Decrement, At, Put, Typed, Lets

(* The lock is where its owner left it, so no unlocking throws.            *)
LEMMA UnlockedEffect ==
  ASSUME LockOK, NEW t \in Thread, op[t].do \in Locking, NEW new
  PROVE  Unlocked(new) = new
BY OwnerFindsNull DEF Unlocked

LEMMA TraverseEndsEffect ==
  ASSUME LockOK, NEW t \in Thread, NEW old \in Locking, TraverseEnds(t, old)
  PROVE  Return(t, old) /\ Unlocks(op[t].first) /\ Same
BY OwnerFindsNull DEF TraverseEnds, Go, At
-----------------------------------------------------------------------------
(* Types                                                                   *)

(* The frame of the thread that takes a step keeps its type, and no step   *)
(* throws or finds a record insane.                                        *)
LEMMA OpTyped ==
  ASSUME SharedInv, NEW t \in Thread, Begins(t) \/ Goes(t)
  PROVE  op' \in [Thread -> Frame] /\ OthersStay(t)
<1>0. /\ Typed /\ OwnOK /\ ThenOK /\ CountOK /\ TrackOK /\ LockOK /\ RingOK
      /\ op \in [Thread -> Frame] /\ op[t] \in Frame
  BY DEF SharedInv, Typed
<1>1. CASE Allocate(t)
  BY <1>0, <1>1, GoWithEffect, StepNames DEF Allocate
<1>2. CASE Insert(t) \/ Link(t)
  BY <1>0, <1>2, GoEffect, StepNames DEF Insert, Link
<1>3. CASE Publish(t) \/ Erased(t)
  <2>1. op[t].do \in Locking
    BY <1>3 DEF Publish, Erased, Locking, Go, At
  <2>2. Go(t, "publish", "assign") \/ Go(t, "erased", "dealloc")
    BY <1>0, <1>3, <2>1, UnlockedEffect DEF Publish, Erased
  <2>. QED
    BY <1>0, <2>2, GoEffect, StepNames
<1>4. CASE AssignAllocated(t)
  <2>1. op[t].rec \in Record
    BY <1>0, <1>4 DEF AssignAllocated, OwnOK, Born, Increment, At
  <2>. QED
    BY <1>0, <1>4, <2>1, IncrementEffect, ReturnEffect DEF AssignAllocated
<1>5. CASE AssignCopies(t)
  <2>1. op[t].then \in Record
    BY <1>0, <1>5 DEF AssignCopies, ThenOK, Increment, At, Frame
  <2>. QED
    BY <1>0, <1>5, <2>1, IncrementEffect, ReturnEffect DEF AssignCopies
<1>6. CASE Copy(t)
  BY <1>0, <1>6, IncrementEffect, ReturnEffect DEF Copy
<1>7. CASE Drop(t) \/ Assign(t)
  BY <1>0, <1>7, DecrementEffect DEF Drop, Assign
<1>8. CASE Erase(t)
  <2>1. next[Root] \in Node \cup {Null} /\ GoWith(t, "erase", "unlink", "first", next[Root])
    BY <1>0, <1>8 DEF Erase, Typed, Node
  <2>2. "unlink" \in Steps \ {"insane"}
    BY StepNames
  <2>. QED
    BY <1>0, <2>1, <2>2, GoWithEffect
<1>9. CASE Unlink(t)
  BY <1>0, <1>9, GoEffect, StepNames DEF Unlink
<1>10. CASE Bypass(t)
  <2>1. op[t].rec \in Record
    BY <1>0, <1>10 DEF OwnOK, Dying, Bypass, Go, GoWith, At
  <2>2. next[op[t].rec] \in Node \cup {Null}
    BY <1>0, <2>1 DEF Typed, Node
  <2>3. "erased" \in Steps \ {"insane"}
    BY StepNames
  <2>4. CASE GoWith(t, "bypass", "erased", "first", next[op[t].rec])
    BY <1>0, <2>2, <2>3, <2>4, GoWithEffect
  <2>5. CASE Go(t, "bypass", "erased")
    BY <1>0, <2>3, <2>5, GoEffect
  <2>. QED
    BY <1>10, <2>4, <2>5 DEF Bypass
<1>11. CASE Deallocate(t) \/ LaunchEnds(t)
  BY <1>0, <1>11, GoEffect, ReturnEffect, StepNames DEF Deallocate, LaunchEnds
<1>12. CASE Find(t) \/ IsSane(t) \/ Launch(t)
  <2>1. "find" \in Steps \ {"insane"} /\ "sane" \in Steps \ {"insane"} /\ "claim" \in Steps \ {"insane"}
    BY StepNames
  <2>2. ASSUME NEW r \in Record, GoWith(t, "idle", "find", "rec", r)
        PROVE  op' \in [Thread -> Frame] /\ OthersStay(t)
    BY <1>0, <2>1, <2>2, GoWithEffect
  <2>3. CASE Go(t, "idle", "sane") \/ Go(t, "idle", "claim")
    BY <1>0, <2>1, <2>3, GoEffect
  <2>. QED
    BY <1>12, <2>2, <2>3 DEF Find, IsSane, Launch
<1>13. CASE Traverse(t, "find", "walk") \/ Traverse(t, "sane", "check")
  <2>1. PICK new \in {"walk", "check"} :
          op' = [op EXCEPT ![t].do = new, ![t].first = next[Root], ![t].at = next[Root]]
    BY <1>13 DEF Traverse
  <2>2. next[Root] \in Node \cup {Null}
    BY <1>0 DEF Typed, Node
  <2>3. [op[t] EXCEPT !.do = new, !.first = next[Root]] \in Frame
    BY <1>0, <2>2, FrameFields, StepNames
  <2>4. [op[t] EXCEPT !.do = new, !.first = next[Root], !.at = next[Root]] \in Frame
    BY <2>2, <2>3, FrameFields DEF Frame
  <2>. QED
    BY <1>0, <2>1, <2>4 DEF OthersStay
<1>14. CASE Walk(t) \/ Check(t)
  <2>1. op[t].do \in {"walk", "check"}
    BY <1>14 DEF Walk, Check, GoWith, At
  <2>2. op[t].at \in Node /\ (At(t, "check") /\ op[t].at # Root => IsConsistent(t, op[t].at))
    BY <1>0, <2>1, Traversing, NodeFacts DEF At
  <2>3. next[op[t].at] \in Node \cup {Null}
    BY <1>0, <2>2 DEF Typed
  <2>4. "walk" \in Steps \ {"insane"} /\ "check" \in Steps \ {"insane"}
    BY StepNames
  <2>5. ASSUME NEW s \in Steps \ {"insane"}, GoWith(t, s, s, "at", next[op[t].at])
        PROVE  op' \in [Thread -> Frame] /\ OthersStay(t)
    BY <1>0, <2>3, <2>5, GoWithEffect
  <2>6. Walk(t) => GoWith(t, "walk", "walk", "at", next[op[t].at])
    BY DEF Walk
  <2>7. Check(t) => GoWith(t, "check", "check", "at", next[op[t].at])
    BY <2>2 DEF Check, GoWith
  <2>. QED
    BY <1>14, <2>4, <2>5, <2>6, <2>7
<1>15. CASE Found(t) \/ Checked(t)
  BY <1>0, <1>15, GoEffect, StepNames DEF Found, Checked
<1>16. CASE TraverseEnds(t, "found") \/ TraverseEnds(t, "checked")
  <2>1. op[t].do \in Locking /\ op[t].do \in {"found", "checked"}
    BY <1>16 DEF TraverseEnds, Return, Go, At, Locking
  <2>. QED
    BY <1>0, <1>16, <2>1, TraverseEndsEffect, ReturnEffect DEF Locking
<1>17. ~TraverseEnds(t, "insane")
  BY <1>0 DEF TraverseEnds, Go, Return, At, Frame
<1>18. CASE Claim(t) \/ Capture(t)
  BY <1>0, <1>18, GoEffect, StepNames DEF Claim, Capture
<1>19. CASE Release(t)
  <2>1. tracking = 0
    BY <1>0, <1>19 DEF TrackOK, Release, Go, At
  <2>. QED
    BY <1>0, <1>19, <2>1, GoEffect, StepNames DEF Release
<1>. QED
  BY <1>1, <1>2, <1>3, <1>4, <1>5, <1>6, <1>7, <1>8, <1>9, <1>10, <1>11, <1>12, <1>13, <1>14,
     <1>15, <1>16, <1>17, <1>18, <1>19
     DEF Begins, Goes
-----------------------------------------------------------------------------
(* The steps that neither count, nor create or free a record               *)

Turn(t, old, new) ==
  /\ op[t].do = old /\ op'[t].do = new /\ op'[t].rec = op[t].rec /\ op'[t].then = op[t].then
  /\ UNCHANGED <<count, memory, held>>

LEMMA TurnGo ==
  ASSUME Typed, NEW t \in Thread, NEW old, NEW new,
         Go(t, old, new) \/ (\E v : GoWith(t, old, new, "first", v) \/ GoWith(t, old, new, "at", v)),
         UNCHANGED <<count, memory, held>>
  PROVE  Turn(t, old, new)
<1>1. op[t] \in Frame
  BY DEF Typed
<1>2. CASE Go(t, old, new)
  <2>1. op[t].do = old /\ op'[t] = [op[t] EXCEPT !.do = new]
    BY <1>2, GoEffect
  <2>. QED
    BY <1>1, <2>1 DEF Turn, Frame
<1>3. ASSUME NEW v, GoWith(t, old, new, "first", v) \/ GoWith(t, old, new, "at", v)
      PROVE  Turn(t, old, new)
  <2>1. op[t].do = old /\ (\/ op'[t] = [op[t] EXCEPT !.do = new, !.first = v]
                           \/ op'[t] = [op[t] EXCEPT !.do = new, !.at = v])
    <3>1. CASE GoWith(t, old, new, "first", v)
      BY <1>1, <3>1 DEF GoWith, At, Typed, Frame
    <3>2. CASE GoWith(t, old, new, "at", v)
      BY <1>1, <3>2 DEF GoWith, At, Typed, Frame
    <3>. QED
      BY <1>3, <3>1, <3>2
  <2>. QED
    BY <1>1, <2>1 DEF Turn, Frame
<1>. QED
  BY <1>2, <1>3

LEMMA Turns ==
  ASSUME SharedInv, NEW t \in Thread
  PROVE  /\ Insert(t) => Turn(t, "insert", "link")
         /\ Link(t) => Turn(t, "link", "publish")
         /\ Publish(t) => Turn(t, "publish", "assign")
         /\ Erase(t) => Turn(t, "erase", "unlink")
         /\ Unlink(t) => Turn(t, "unlink", "bypass")
         /\ Bypass(t) => Turn(t, "bypass", "erased")
         /\ Erased(t) => Turn(t, "erased", "dealloc")
         /\ IsSane(t) => Turn(t, "idle", "sane")
         /\ Walk(t) => Turn(t, "walk", "walk")
         /\ Found(t) => Turn(t, "walk", "found")
         /\ Check(t) => Turn(t, "check", "check")
         /\ Checked(t) => Turn(t, "check", "checked")
         /\ Launch(t) => Turn(t, "idle", "claim")
         /\ Claim(t) => Turn(t, "claim", "capture")
         /\ Capture(t) => Turn(t, "capture", "release")
         /\ Release(t) => Turn(t, "release", "run")
<1>0. Typed /\ CountOK /\ RingOK /\ LockOK /\ TrackOK
  BY DEF SharedInv
<1>1. Insert(t) => Turn(t, "insert", "link")
  BY <1>0, TurnGo DEF Insert, Same
<1>2. Link(t) => Turn(t, "link", "publish")
  BY <1>0, TurnGo DEF Link, Same
<1>3. Publish(t) => Turn(t, "publish", "assign")
  <2>1. Publish(t) => op[t].do \in Locking
    BY DEF Publish, Locking, Go, At
  <2>2. Publish(t) => Go(t, "publish", "assign")
    BY <1>0, <2>1, UnlockedEffect DEF Publish
  <2>. QED
    BY <1>0, <2>2, TurnGo DEF Publish, Same
<1>4. Erase(t) => Turn(t, "erase", "unlink")
  BY <1>0, TurnGo DEF Erase, Same
<1>5. Unlink(t) => Turn(t, "unlink", "bypass")
  BY <1>0, TurnGo DEF Unlink, Same
<1>6. Bypass(t) => Turn(t, "bypass", "erased")
  BY <1>0, TurnGo DEF Bypass, Same
<1>7. Erased(t) => Turn(t, "erased", "dealloc")
  <2>1. Erased(t) => op[t].do \in Locking
    BY DEF Erased, Locking, Go, At
  <2>2. Erased(t) => Go(t, "erased", "dealloc")
    BY <1>0, <2>1, UnlockedEffect DEF Erased
  <2>. QED
    BY <1>0, <2>2, TurnGo DEF Erased, Same
<1>8. IsSane(t) => Turn(t, "idle", "sane")
  BY <1>0, TurnGo DEF IsSane
<1>9. Walk(t) => Turn(t, "walk", "walk")
  BY <1>0, TurnGo DEF Walk, Same
<1>10. Found(t) => Turn(t, "walk", "found")
  BY <1>0, TurnGo DEF Found, Same
<1>11. Check(t) => Turn(t, "check", "check")
  <2>1. Check(t) => op[t].do = "check" /\ op[t].at # Root
    BY DEF Check, GoWith, At
  <2>2. Check(t) => GoWith(t, "check", "check", "at", next[op[t].at])
    BY <1>0, <2>1, Traversing DEF Check
  <2>. QED
    BY <1>0, <2>2, TurnGo DEF Check, Same
<1>12. Checked(t) => Turn(t, "check", "checked")
  BY <1>0, TurnGo DEF Checked, Same
<1>13. Launch(t) => Turn(t, "idle", "claim")
  BY <1>0, TurnGo DEF Launch
<1>14. Claim(t) => Turn(t, "claim", "capture")
  BY <1>0, TurnGo DEF Claim
<1>15. Capture(t) => Turn(t, "capture", "release")
  BY <1>0, TurnGo DEF Capture
<1>16. Release(t) => Turn(t, "release", "run")
  <2>1. Release(t) => tracking = 0
    BY <1>0 DEF TrackOK, Release, Go, At
  <2>. QED
    BY <1>0, <2>1, TurnGo DEF Release
<1>. QED
  BY <1>1, <1>2, <1>3, <1>4, <1>5, <1>6, <1>7, <1>8, <1>9, <1>10, <1>11, <1>12, <1>13, <1>14,
     <1>15, <1>16

LEMMA OtherTurns ==
  ASSUME SharedInv, NEW t \in Thread
  PROVE  /\ Find(t) => /\ op[t].do = "idle" /\ op'[t].do = "find"
                       /\ op'[t].rec \in Record /\ UNCHANGED <<count, memory, held>>
         /\ Traverse(t, "find", "walk") => Turn(t, "find", "walk")
         /\ Traverse(t, "sane", "check") => Turn(t, "sane", "check")
         /\ \A old \in {"found", "checked"} : TraverseEnds(t, old) =>
              /\ op[t].do = old /\ op'[t] = Idle /\ UNCHANGED <<count, memory, held>>
              /\ next' = [next EXCEPT ![Root] = op[t].first] /\ prev' = prev
         /\ ~TraverseEnds(t, "insane")
         /\ LaunchEnds(t) => op[t].do = "run" /\ op'[t] = Idle /\ UNCHANGED <<count, memory, held>>
<1>0. Typed /\ CountOK /\ RingOK /\ LockOK /\ TrackOK /\ op[t] \in Frame
  BY DEF SharedInv, Typed
<1>1. ASSUME Find(t)
      PROVE  /\ op[t].do = "idle" /\ op'[t].do = "find"
             /\ op'[t].rec \in Record /\ UNCHANGED <<count, memory, held>>
  <2>1. PICK r \in Record : GoWith(t, "idle", "find", "rec", r)
    BY <1>1 DEF Find
  <2>2. op[t].do = "idle" /\ op'[t] = [op[t] EXCEPT !.do = "find", !.rec = r]
    BY <1>0, <2>1 DEF GoWith, At, Typed, Frame
  <2>. QED
    BY <1>0, <1>1, <2>2 DEF Find, Frame
<1>2. ASSUME NEW old, NEW new, Traverse(t, old, new) PROVE Turn(t, old, new)
  <2>1. op'[t] = [op[t] EXCEPT !.do = new, !.first = next[Root], !.at = next[Root]]
    BY <1>0, <1>2 DEF Traverse, Typed
  <2>2. op'[t].do = new /\ op'[t].rec = op[t].rec /\ op'[t].then = op[t].then
    BY <1>0, <2>1 DEF Frame
  <2>. QED
    BY <1>2, <2>2 DEF Traverse, At, Same, Turn
<1>3. ASSUME NEW old \in {"found", "checked"}, TraverseEnds(t, old)
      PROVE  /\ op[t].do = old /\ op'[t] = Idle /\ UNCHANGED <<count, memory, held>>
             /\ next' = [next EXCEPT ![Root] = op[t].first] /\ prev' = prev
  <2>1. old \in Locking
    BY DEF Locking
  <2>2. Return(t, old) /\ Unlocks(op[t].first) /\ Same
    BY <1>0, <1>3, <2>1, TraverseEndsEffect
  <2>. QED
    BY <1>0, <2>2, ReturnEffect DEF Unlocks, Same, Put
<1>4. ~TraverseEnds(t, "insane")
  BY <1>0 DEF TraverseEnds, Go, Return, At, Frame
<1>5. LaunchEnds(t) => op[t].do = "run" /\ op'[t] = Idle /\ UNCHANGED <<count, memory, held>>
  BY <1>0, ReturnEffect DEF LaunchEnds
<1>. QED
  BY <1>1, <1>2, <1>3, <1>4, <1>5
-----------------------------------------------------------------------------
(* Counts                                                                  *)

More(h, t, r) == [h EXCEPT ![t][r] = @ + 1]
Fewer(h, t, r) == [h EXCEPT ![t][r] = @ - 1]

LEMMA OneMoreToken ==
  ASSUME NEW h \in [Thread -> [Record -> 0..MaxRefs]], NEW t \in Thread, NEW r \in Record,
         h[t][r] < MaxRefs, NEW x \in Record, IsFiniteSet(Tokens(h, x))
  PROVE  /\ More(h, t, r) \in [Thread -> [Record -> 0..MaxRefs]]
         /\ IsFiniteSet(Tokens(More(h, t, r), x))
         /\ Cardinality(Tokens(More(h, t, r), x))
              = Cardinality(Tokens(h, x)) + (IF x = r THEN 1 ELSE 0)
<1>. DEFINE g == More(h, t, r)
<1>1. /\ g \in [Thread -> [Record -> 0..MaxRefs]]
      /\ \A u \in Thread : \A y \in Record :
           g[u][y] = h[u][y] + (IF u = t /\ y = r THEN 1 ELSE 0)
  BY DEF More
<1>. HIDE DEF g
<1>2. CASE x # r
  <2>1. Tokens(g, x) = Tokens(h, x)
    BY <1>1, <1>2 DEF Tokens
  <2>2. Cardinality(Tokens(h, x)) \in Nat
    BY FS_CardinalityType
  <2>. QED
    BY <1>1, <1>2, <2>1, <2>2 DEF g
<1>3. CASE x = r
  <2>. DEFINE p == <<t, h[t][r] + 1>>
  <2>1. p \notin Tokens(h, x)
    BY <1>3 DEF Tokens
  <2>2. ASSUME NEW q \in Thread \X (1..MaxRefs) PROVE q \in Tokens(g, x) <=> q \in Tokens(h, x) \cup {p}
    <3>1. PICK u \in Thread, i \in 1..MaxRefs : q = <<u, i>>
      OBVIOUS
    <3>2. g[u][x] \in Nat /\ h[u][x] \in Nat /\ g[u][x] = h[u][x] + (IF u = t THEN 1 ELSE 0)
      BY <1>1, <1>3
    <3>3. q \in Tokens(g, x) <=> i <= g[u][x]
      BY <3>1 DEF Tokens
    <3>4. q \in Tokens(h, x) <=> i <= h[u][x]
      BY <3>1 DEF Tokens
    <3>5. q = p <=> u = t /\ i = h[t][x] + 1
      BY <1>3, <3>1
    <3>6. i <= g[u][x] <=> i <= h[u][x] \/ (u = t /\ i = h[t][x] + 1)
      BY <3>2
    <3>. QED
      BY <3>3, <3>4, <3>5, <3>6
  <2>3. Tokens(g, x) \subseteq Thread \X (1..MaxRefs) /\ Tokens(h, x) \cup {p} \subseteq Thread \X (1..MaxRefs)
    BY <1>3 DEF Tokens
  <2>4. Tokens(g, x) = Tokens(h, x) \cup {p}
    BY <2>2, <2>3
  <2>5. IsFiniteSet(Tokens(g, x)) /\ Cardinality(Tokens(g, x)) = Cardinality(Tokens(h, x)) + 1
    <3>. HIDE DEF g, p
    <3>. QED
      BY <2>1, <2>4, FS_AddElement
  <2>. QED
    BY <1>1, <1>3, <2>5 DEF g
<1>. QED
  BY <1>2, <1>3

LEMMA OneTokenLess ==
  ASSUME NEW h \in [Thread -> [Record -> 0..MaxRefs]], NEW t \in Thread, NEW r \in Record,
         h[t][r] > 0, NEW x \in Record, IsFiniteSet(Tokens(h, x))
  PROVE  /\ Fewer(h, t, r) \in [Thread -> [Record -> 0..MaxRefs]]
         /\ IsFiniteSet(Tokens(Fewer(h, t, r), x))
         /\ Cardinality(Tokens(h, x))
              = Cardinality(Tokens(Fewer(h, t, r), x)) + (IF x = r THEN 1 ELSE 0)
<1>. DEFINE g == Fewer(h, t, r)
<1>. DEFINE k == More(g, t, r)
<1>0. g \in [Thread -> [Record -> 0..MaxRefs]] /\ g[t][r] < MaxRefs
  BY DEF Fewer
<1>1. k = h
  <2>1. k \in [Thread -> [Record -> Int]] /\ h \in [Thread -> [Record -> Int]]
    BY <1>0 DEF More
  <2>2. ASSUME NEW u \in Thread PROVE k[u] = h[u]
    <3>1. \A y \in Record : k[u][y] = h[u][y]
      BY <1>0 DEF More, Fewer
    <3>. QED
      BY <2>1, <3>1
  <2>. QED
    BY <2>1, <2>2
<1>. HIDE DEF g
<1>2. Tokens(g, x) \subseteq Tokens(h, x)
  <2>1. \A u \in Thread : \A y \in Record : g[u][y] <= h[u][y] /\ g[u][y] \in Nat /\ h[u][y] \in Nat
    BY DEF g, Fewer
  <2>. QED
    BY <2>1 DEF Tokens
<1>3. IsFiniteSet(Tokens(g, x))
  BY <1>2, FS_Subset
<1>. QED
  BY <1>0, <1>1, <1>3, OneMoreToken DEF g
-----------------------------------------------------------------------------
(* The steps by what they do to records and trackers                       *)

Quiet(t) ==
  /\ UNCHANGED <<count, memory, held>>
  /\ op'[t].do \in Born \cup Dying =>
       op[t].do \in Born \cup Dying /\ op'[t].rec = op[t].rec /\ op'[t].then = op[t].then
  /\ op'[t].do \in Born <=> op[t].do \in Born
  /\ op'[t].do \in Dying => op[t].do \in Dying
  /\ op'[t].do # "copy"
  /\ op'[t].do \in Finding =>
       op'[t].rec \in Record \/ (op[t].do \in Finding /\ op'[t].rec = op[t].rec)

LEMMA QuietSteps ==
  ASSUME SharedInv, NEW t \in Thread,
         \/ Insert(t) \/ Link(t) \/ Publish(t) \/ Erase(t) \/ Unlink(t) \/ Bypass(t) \/ Erased(t)
         \/ Traverse(t, "find", "walk") \/ Walk(t) \/ Found(t) \/ TraverseEnds(t, "found")
         \/ Traverse(t, "sane", "check") \/ Check(t) \/ Checked(t) \/ TraverseEnds(t, "checked")
         \/ TraverseEnds(t, "insane") \/ Claim(t) \/ Capture(t) \/ Release(t) \/ LaunchEnds(t)
         \/ Find(t) \/ IsSane(t) \/ Launch(t)
  PROVE  Quiet(t)
<1>1. CASE Insert(t) \/ Link(t) \/ Publish(t)
  BY <1>1, Turns DEF Quiet, Turn, Born, Dying, Finding
<1>2. CASE Erase(t) \/ Unlink(t) \/ Bypass(t) \/ Erased(t)
  BY <1>2, Turns DEF Quiet, Turn, Born, Dying, Finding
<1>3. CASE IsSane(t) \/ Walk(t) \/ Found(t) \/ Check(t) \/ Checked(t)
  BY <1>3, Turns DEF Quiet, Turn, Born, Dying, Finding
<1>4. CASE Launch(t) \/ Claim(t) \/ Capture(t) \/ Release(t)
  BY <1>4, Turns DEF Quiet, Turn, Born, Dying, Finding
<1>5. CASE Traverse(t, "find", "walk") \/ Traverse(t, "sane", "check") \/ Find(t)
  BY <1>5, OtherTurns DEF Quiet, Turn, Born, Dying, Finding
<1>6. CASE \/ TraverseEnds(t, "found") \/ TraverseEnds(t, "checked") \/ TraverseEnds(t, "insane")
           \/ LaunchEnds(t)
  BY <1>6, OtherTurns DEF Quiet, Born, Dying, Finding, Idle
<1>. QED
  BY <1>1, <1>2, <1>3, <1>4, <1>5, <1>6

(* One reference more                                                      *)
Takes(t, r) ==
  /\ op[t].do \in {"idle", "assign", "copy"} /\ op'[t] = Idle /\ held[t][r] < MaxRefs
  /\ memory[r] = "live"
  /\ \A u \in Thread \ {t} : op[u].do \in Born \cup Dying => op[u].rec # r
  /\ count' = [count EXCEPT ![r] = @ + 1] /\ held' = [held EXCEPT ![t][r] = @ + 1]
  /\ UNCHANGED <<ring, memory, tracking, bare, calls>>

LEMMA TakingSteps ==
  ASSUME SharedInv, NEW t \in Thread, AssignAllocated(t) \/ AssignCopies(t) \/ Copy(t)
  PROVE  \E r \in Record : Takes(t, r)
<1>0. Typed /\ OwnOK /\ ThenOK /\ CountOK /\ op[t] \in Frame
  BY DEF SharedInv, Typed
<1>1. CASE AssignAllocated(t)
  <2>1. op[t].do = "assign" /\ Increment(t, "assign", op[t].rec)
    BY <1>1 DEF AssignAllocated, Increment, At
  <2>2. /\ op[t].rec \in Record /\ memory[op[t].rec] = "live" /\ held[t][op[t].rec] = 0
        /\ \A u \in Thread : op[u].do \in Born \cup Dying /\ op[u].rec = op[t].rec => u = t
    BY <1>0, <2>1 DEF OwnOK, Born
  <2>3. Return(t, "assign") /\ op'[t] = Idle
    BY <1>0, <2>1, <2>2, IncrementEffect, ReturnEffect
  <2>4. Takes(t, op[t].rec)
    BY <1>0, <2>1, <2>2, <2>3, IncrementEffect DEF Takes
  <2>. QED
    BY <2>2, <2>4
<1>2. ASSUME NEW r \in Record, NEW u \in Thread, held[u][r] > 0, held[t][r] < MaxRefs,
             NEW old \in {"idle", "copy"}, Increment(t, old, r)
      PROVE  Takes(t, r)
  <2>1. Return(t, old) /\ op'[t] = Idle /\ op[t].do = old
    BY <1>0, <1>2, IncrementEffect, ReturnEffect
  <2>2. memory[r] = "live" /\ \A w \in Thread : op[w].do \in Born \cup Dying => op[w].rec # r
    BY <1>0, <1>2 DEF OwnOK
  <2>. QED
    BY <1>0, <1>2, <2>1, <2>2, IncrementEffect DEF Takes
<1>3. CASE AssignCopies(t)
  <2>1. op[t].do = "copy" /\ Increment(t, "copy", op[t].then)
    BY <1>3 DEF AssignCopies, Increment, At
  <2>2. op[t].then \in Record /\ held[t][op[t].then] > 0 /\ held[t][op[t].then] < MaxRefs
    BY <1>0, <2>1 DEF ThenOK, Frame
  <2>. QED
    BY <1>2, <2>1, <2>2
<1>4. CASE Copy(t)
  BY <1>2, <1>4 DEF Copy, Reachable
<1>. QED
  BY <1>1, <1>3, <1>4

(* One reference less                                                      *)
Spares(t, r, s) ==
  Lets(t, r, s) /\ (s # Null => held[t][s] - (IF s = r THEN 1 ELSE 0) \in 1..(MaxRefs - 1))

LEMMA LettingSteps ==
  ASSUME SharedInv, NEW t \in Thread, Drop(t) \/ Assign(t)
  PROVE  \E r \in Record, s \in Record \cup {Null} : Spares(t, r, s)
<1>0. Typed /\ CountOK
  BY DEF SharedInv
<1>1. CASE Drop(t)
  <2>1. PICK r \in Record : held[t][r] > 0 /\ Decrement(t, r, Null)
    BY <1>1 DEF Drop
  <2>2. Spares(t, r, Null)
    BY <1>0, <2>1, DecrementEffect DEF Spares
  <2>. QED
    BY <2>2
<1>2. CASE Assign(t)
  <2>1. PICK r \in Record, s \in Record :
          /\ held[t][r] > 0 /\ AnotherOf(t, r, s) /\ (s # r => held[t][s] < MaxRefs)
          /\ Decrement(t, r, s)
    BY <1>2 DEF Assign
  <2>2. held[t][s] - (IF s = r THEN 1 ELSE 0) \in 1..(MaxRefs - 1)
    <3>1. held[t][s] \in 0..MaxRefs
      BY <1>0 DEF Typed
    <3>. QED
      BY <2>1, <3>1 DEF AnotherOf
  <2>3. Lets(t, r, s)
    BY <1>0, <2>1, DecrementEffect
  <2>. QED
    BY <2>2, <2>3 DEF Spares
<1>. QED
  BY <1>1, <1>2

Creates(t, r) ==
  /\ op[t].do = "idle" /\ op'[t].do = "insert" /\ op'[t].rec = r
  /\ memory[r] = "fresh" /\ memory' = [memory EXCEPT ![r] = "live"]
  /\ prev' = [prev EXCEPT ![r] = Root] /\ UNCHANGED <<next, count, tracking, held, bare, calls>>

LEMMA AllocateEffect ==
  ASSUME SharedInv, NEW t \in Thread, Allocate(t)
  PROVE  \E r \in Record : Creates(t, r)
<1>0. Typed /\ op[t] \in Frame
  BY DEF SharedInv, Typed
<1>1. PICK r \in Record :
        /\ memory[r] = "fresh" /\ memory' = Put(memory, r, "live")
        /\ GoWith(t, "idle", "insert", "rec", r) /\ prev' = Put(prev, r, Root)
        /\ UNCHANGED <<next, count, tracking, held, bare, calls>>
  BY DEF Allocate
<1>2. op[t].do = "idle" /\ op'[t] = [op[t] EXCEPT !.do = "insert", !.rec = r]
  BY <1>0, <1>1 DEF GoWith, At, Typed, Frame
<1>3. op'[t].do = "insert" /\ op'[t].rec = r
  BY <1>0, <1>2 DEF Frame
<1>4. Creates(t, r)
  BY <1>1, <1>2, <1>3 DEF Creates, Put
<1>. QED
  BY <1>4

Frees(t) ==
  /\ op[t].do = "dealloc" /\ memory' = [memory EXCEPT ![op[t].rec] = "freed"]
  /\ \/ op[t].then = Null /\ op'[t] = Idle
     \/ op[t].then # Null /\ op'[t].do = "copy" /\ op'[t].then = op[t].then
  /\ next' = [next EXCEPT ![op[t].rec] = Null] /\ prev' = [prev EXCEPT ![op[t].rec] = Null]
  /\ UNCHANGED <<count, tracking, held, bare, calls>>

LEMMA DeallocateEffect ==
  ASSUME SharedInv, NEW t \in Thread, Deallocate(t)
  PROVE  Frees(t)
<1>0. Typed /\ op[t] \in Frame
  BY DEF SharedInv, Typed
<1>1. op[t].then = Null => op[t].do = "dealloc" /\ op'[t] = Idle
  BY <1>0, ReturnEffect DEF Deallocate
<1>2. op[t].then # Null => op[t].do = "dealloc" /\ op'[t] = [op[t] EXCEPT !.do = "copy"]
  BY <1>0 DEF Deallocate, Go, At, Typed
<1>3. op[t].then # Null => op'[t].do = "copy" /\ op'[t].then = op[t].then
  BY <1>0, <1>2 DEF Frame
<1>. QED
  BY <1>1, <1>2, <1>3 DEF Deallocate, Put, Frees

(* Every step is one of these.                                             *)
Sorted(t) ==
  \/ Quiet(t) \/ Frees(t)
  \/ \E r \in Record : Takes(t, r) \/ Creates(t, r)
  \/ \E r \in Record, s \in Record \cup {Null} : Spares(t, r, s)

LEMMA StepsSorted ==
  ASSUME SharedInv, NEW t \in Thread, Begins(t) \/ Goes(t)
  PROVE  Sorted(t)
BY QuietSteps, TakingSteps, LettingSteps, AllocateEffect, DeallocateEffect
   DEF Sorted, Begins, Goes

LEMMA CountKept ==
  ASSUME SharedInv, NEW t \in Thread, Sorted(t)
  PROVE  CountOK' /\ held' \in [Thread -> [Record -> 0..MaxRefs]] /\ count' \in [Record -> Int]
<1>0. Typed /\ CountOK /\ held \in [Thread -> [Record -> 0..MaxRefs]] /\ count \in [Record -> Int]
  BY DEF SharedInv, Typed
<1>1. CASE Quiet(t) \/ Frees(t) \/ \E r \in Record : Creates(t, r)
  <2>1. UNCHANGED <<held, count>>
    BY <1>1 DEF Quiet, Frees, Creates
  <2>. QED
    BY <1>0, <2>1 DEF CountOK
<1>2. ASSUME NEW r \in Record, Takes(t, r)
      PROVE  CountOK' /\ held' \in [Thread -> [Record -> 0..MaxRefs]] /\ count' \in [Record -> Int]
  <2>1. /\ held' = More(held, t, r) /\ count' = [count EXCEPT ![r] = @ + 1]
        /\ held[t][r] < MaxRefs
    BY <1>2 DEF Takes, More
  <2>2. ASSUME NEW x \in Record
        PROVE  /\ IsFiniteSet(Tokens(held', x)) /\ count'[x] = Cardinality(Tokens(held', x))
               /\ held' \in [Thread -> [Record -> 0..MaxRefs]]
    <3>1. IsFiniteSet(Tokens(held, x)) /\ count[x] = Cardinality(Tokens(held, x))
      BY <1>0 DEF CountOK
    <3>2. /\ held' \in [Thread -> [Record -> 0..MaxRefs]] /\ IsFiniteSet(Tokens(held', x))
          /\ Cardinality(Tokens(held', x))
               = Cardinality(Tokens(held, x)) + (IF x = r THEN 1 ELSE 0)
      BY <1>0, <2>1, <3>1, OneMoreToken
    <3>3. count'[x] = count[x] + (IF x = r THEN 1 ELSE 0)
      BY <1>0, <2>1
    <3>. QED
      BY <3>1, <3>2, <3>3
  <2>3. count' \in [Record -> Int] /\ held' \in [Thread -> [Record -> 0..MaxRefs]]
    BY <1>0, <2>1, <2>2
  <2>. QED
    BY <2>2, <2>3 DEF CountOK
<1>3. ASSUME NEW r \in Record, NEW s \in Record \cup {Null}, Lets(t, r, s)
      PROVE  CountOK' /\ held' \in [Thread -> [Record -> 0..MaxRefs]] /\ count' \in [Record -> Int]
  <2>1. /\ held' = Fewer(held, t, r) /\ count' = [count EXCEPT ![r] = @ - 1]
        /\ held[t][r] > 0
    BY <1>3 DEF Lets, Fewer
  <2>2. ASSUME NEW x \in Record
        PROVE  /\ IsFiniteSet(Tokens(held', x)) /\ count'[x] = Cardinality(Tokens(held', x))
               /\ held' \in [Thread -> [Record -> 0..MaxRefs]]
    <3>1. IsFiniteSet(Tokens(held, x)) /\ count[x] = Cardinality(Tokens(held, x))
      BY <1>0 DEF CountOK
    <3>2. /\ held' \in [Thread -> [Record -> 0..MaxRefs]] /\ IsFiniteSet(Tokens(held', x))
          /\ Cardinality(Tokens(held, x))
               = Cardinality(Tokens(held', x)) + (IF x = r THEN 1 ELSE 0)
      BY <1>0, <2>1, <3>1, OneTokenLess
    <3>3. count'[x] = count[x] - (IF x = r THEN 1 ELSE 0)
      BY <1>0, <2>1
    <3>4. Cardinality(Tokens(held', x)) \in Nat
      BY <3>2, FS_CardinalityType
    <3>. QED
      BY <3>1, <3>2, <3>3, <3>4
  <2>3. count' \in [Record -> Int] /\ held' \in [Thread -> [Record -> 0..MaxRefs]]
    BY <1>0, <2>1, <2>2
  <2>. QED
    BY <2>2, <2>3 DEF CountOK
<1>. QED
  BY <1>1, <1>2, <1>3 DEF Sorted, Spares

(* A record that has lost its last reference has no trackers.              *)
LEMMA LastTaken ==
  ASSUME SharedInv, NEW t \in Thread, NEW r \in Record, NEW s \in Record \cup {Null},
         Lets(t, r, s), Sorted(t), count[r] = 1
  PROVE  \A u \in Thread : held'[u][r] = 0
<1>1. count[r] \in Nat /\ count'[r] = 0
  BY Counted DEF SharedInv, Lets, Typed
<1>2. IsFiniteSet(Tokens(held', r)) /\ Cardinality(Tokens(held', r)) = 0
      /\ held' \in [Thread -> [Record -> 0..MaxRefs]]
  BY <1>1, CountKept DEF CountOK
<1>. QED
  BY <1>2, TokensCounted

LEMMA OwnKept ==
  ASSUME SharedInv, NEW t \in Thread, Sorted(t), OthersStay(t), op' \in [Thread -> Frame]
  PROVE  OwnOK'
<1>. DEFINE Mine(x) == op[x].do \in Born \cup Dying
<1>0. Typed /\ OwnOK
  BY DEF SharedInv
<1>1. CASE Quiet(t)
  <2>1. held' = held /\ memory' = memory
    BY <1>1 DEF Quiet
  <2>2. \A u \in Thread : op'[u].do \in Born \cup Dying =>
          op[u].do \in Born \cup Dying /\ op'[u].rec = op[u].rec
    BY <1>1 DEF Quiet, OthersStay
  <2>. QED
    BY <1>0, <2>1, <2>2 DEF OwnOK
<1>2. CASE Frees(t)
  <2>1. /\ held' = held /\ memory' = [memory EXCEPT ![op[t].rec] = "freed"]
        /\ op[t].do \in Born \cup Dying /\ op'[t].do \notin Born \cup Dying
    BY <1>2 DEF Frees, Born, Dying, Idle
  <2>2. op[t].rec \in Record /\ \A u \in Thread : held[u][op[t].rec] = 0
    BY <1>0, <2>1 DEF OwnOK
  <2>3. \A u \in Thread : op'[u].do \in Born \cup Dying =>
          op[u].do \in Born \cup Dying /\ op'[u].rec = op[u].rec /\ op[u].rec # op[t].rec
    BY <1>0, <2>1 DEF OwnOK, OthersStay
  <2>4. \A r \in Record \ {op[t].rec} : memory'[r] = memory[r]
    BY <1>0, <2>1 DEF Typed
  <2>. QED
    BY <1>0, <2>1, <2>2, <2>3, <2>4 DEF OwnOK
<1>3. ASSUME NEW r \in Record, Takes(t, r) PROVE OwnOK'
  <2>1. /\ memory[r] = "live" /\ memory' = memory /\ op'[t].do \notin Born \cup Dying
        /\ \A u \in Thread \ {t} : op[u].do \in Born \cup Dying => op[u].rec # r
    BY <1>3 DEF Takes, Idle, Born, Dying
  <2>2. \A u \in Thread : \A x \in Record \ {r} : held'[u][x] = held[u][x]
    BY <1>0, <1>3 DEF Takes, Typed
  <2>3. \A u \in Thread : op'[u].do \in Born \cup Dying =>
          op[u].do \in Born \cup Dying /\ op'[u].rec = op[u].rec /\ op[u].rec # r
    BY <2>1 DEF OthersStay
  <2>. QED
    BY <1>0, <2>1, <2>2, <2>3 DEF OwnOK
<1>4. ASSUME NEW r \in Record, Creates(t, r) PROVE OwnOK'
  <2>1. /\ op'[t].do = "insert" /\ op'[t].rec = r /\ held' = held
        /\ memory[r] = "fresh" /\ memory'[r] = "live"
        /\ \A x \in Record \ {r} : memory'[x] = memory[x]
    BY <1>0, <1>4 DEF Creates, Typed
  <2>2. \A u \in Thread : held[u][r] = 0
    <3>1. \A u \in Thread : held[u][r] \in 0..MaxRefs
      BY <1>0 DEF Typed
    <3>. QED
      BY <1>0, <2>1, <3>1 DEF OwnOK
  <2>3. \A u \in Thread \ {t} : op'[u] = op[u] /\
          (op[u].do \in Born \cup Dying => op[u].rec # r)
    BY <1>0, <2>1 DEF OwnOK, OthersStay
  <2>. QED
    BY <1>0, <2>1, <2>2, <2>3 DEF OwnOK
<1>5. ASSUME NEW r \in Record, NEW s \in Record \cup {Null}, Lets(t, r, s) PROVE OwnOK'
  <2>1. held[t][r] > 0 /\ memory' = memory /\ memory[r] = "live"
    BY <1>0, <1>5 DEF Lets, OwnOK
  <2>2. \A u \in Thread : \A x \in Record :
          held[u][x] \in 0..MaxRefs /\ (x # r => held'[u][x] = held[u][x])
            /\ (held'[u][x] > 0 => held[u][x] > 0)
    BY <1>0, <1>5 DEF Lets, Typed
  <2>3. \A u \in Thread \ {t} : op'[u] = op[u] /\
          (op[u].do \in Born \cup Dying => op[u].rec # r)
    BY <1>0, <2>1 DEF OwnOK, OthersStay
  <2>4. op'[t].do \in Born \cup Dying =>
          op'[t].rec = r /\ \A u \in Thread : held'[u][r] = 0
    <3>1. CASE count[r] = 1
      BY <1>5, <3>1, LastTaken DEF Lets, Idle
    <3>2. CASE count[r] # 1
      BY <1>5, <3>2 DEF Lets, Idle, Born, Dying
    <3>. QED
      BY <3>1, <3>2
  <2>5. \A u \in Thread : op[u].do \in Born \cup Dying /\ u # t =>
          op[u].rec \in Record /\ held'[u][op[u].rec] = held[u][op[u].rec]
    BY <1>0, <2>2, <2>3 DEF OwnOK
  <2>. QED
    BY <1>0, <2>1, <2>2, <2>3, <2>4, <2>5 DEF OwnOK
<1>. QED
  BY <1>1, <1>2, <1>3, <1>4, <1>5 DEF Sorted, Spares

LEMMA ThenKept ==
  ASSUME SharedInv, NEW t \in Thread, Sorted(t), OthersStay(t), op' \in [Thread -> Frame]
  PROVE  ThenOK'
<1>0. Typed /\ ThenOK
  BY DEF SharedInv
<1>1. \A u \in Thread \ {t} : held'[u] = held[u] /\ op'[u] = op[u]
  BY <1>0 DEF Sorted, Spares, Quiet, Frees, Takes, Creates, Lets, Typed, OthersStay
<1>2. /\ op'[t].do = "copy" => op'[t].then # Null
      /\ op'[t].do \in Dying \cup {"copy"} /\ op'[t].then # Null =>
           held'[t][op'[t].then] \in 1..(MaxRefs - 1)
      /\ op'[t].do \in Finding => op'[t].rec \in Record
  <2>1. CASE Quiet(t)
    BY <1>0, <2>1 DEF Quiet, ThenOK
  <2>2. CASE Frees(t)
    <3>1. op[t].do = "dealloc" /\ held' = held
      BY <2>2 DEF Frees
    <3>2. op[t].then # Null => held[t][op[t].then] \in 1..(MaxRefs - 1)
      BY <1>0, <3>1 DEF ThenOK, Dying
    <3>. QED
      BY <2>2, <3>1, <3>2 DEF Frees, Idle, Dying, Finding
  <2>3. CASE \E r \in Record : Takes(t, r) \/ Creates(t, r)
    BY <2>3 DEF Takes, Creates, Idle, Dying, Finding
  <2>4. ASSUME NEW r \in Record, NEW s \in Record \cup {Null}, Spares(t, r, s)
        PROVE  /\ op'[t].do = "copy" => op'[t].then # Null
               /\ op'[t].do \in Dying \cup {"copy"} /\ op'[t].then # Null =>
                    held'[t][op'[t].then] \in 1..(MaxRefs - 1)
               /\ op'[t].do \notin Finding
    <3>1. s # Null => held'[t][s] \in 1..(MaxRefs - 1)
      BY <1>0, <2>4 DEF Spares, Lets, Typed
    <3>2. op'[t].do \in Dying \cup {"copy"} => op'[t].then = s /\ (op'[t].do = "copy" => s # Null)
      BY <2>4 DEF Spares, Lets, Idle, Dying
    <3>3. op'[t].do \in {"idle", "erase", "copy"}
      BY <2>4 DEF Spares, Lets, Idle
    <3>. QED
      BY <3>1, <3>2, <3>3 DEF Finding
  <2>. QED
    BY <2>1, <2>2, <2>3, <2>4 DEF Sorted
<1>. QED
  BY <1>0, <1>1, <1>2 DEF ThenOK

(* No step that does not launch touches the flag or the copies it made.    *)
Aside(t) ==
  /\ {op[t].do, op'[t].do} \cap {"capture", "release", "run"} = {} /\ UNCHANGED <<tracking, bare>>

LEMMA AsideSteps ==
  ASSUME SharedInv, NEW t \in Thread, Begins(t) \/ Goes(t)
  PROVE  Aside(t) \/ Claim(t) \/ Capture(t) \/ Release(t) \/ LaunchEnds(t)
<1>1. CASE AssignAllocated(t) \/ AssignCopies(t) \/ Copy(t)
  BY <1>1, TakingSteps DEF Takes, Idle, Aside
<1>2. CASE Drop(t) \/ Assign(t)
  <2>1. PICK r \in Record, s \in Record \cup {Null} : Lets(t, r, s)
    BY <1>2, LettingSteps DEF Spares
  <2>2. op[t].do = "idle" /\ op'[t].do \in {"erase", "idle", "copy"} /\ UNCHANGED <<tracking, bare>>
    BY <2>1 DEF Lets, Idle
  <2>. QED
    BY <2>2 DEF Aside
<1>3. CASE Allocate(t) \/ Deallocate(t)
  BY <1>3, AllocateEffect, DeallocateEffect DEF Creates, Frees, Idle, Aside
<1>4. CASE Insert(t) \/ Link(t) \/ Publish(t) \/ Erase(t)
  BY <1>4, Turns DEF Turn, Aside, Insert, Link, Publish, Erase, Same
<1>5. CASE Unlink(t) \/ Bypass(t) \/ Erased(t) \/ Walk(t)
  BY <1>5, Turns DEF Turn, Aside, Unlink, Bypass, Erased, Walk, Same
<1>6. CASE Found(t) \/ Check(t) \/ Checked(t)
  BY <1>6, Turns DEF Turn, Aside, Found, Check, Checked, Same
<1>7. CASE IsSane(t) \/ Launch(t) \/ Find(t)
  BY <1>7, Turns, OtherTurns DEF Turn, Aside, IsSane, Launch, Find
<1>8. CASE Traverse(t, "find", "walk") \/ Traverse(t, "sane", "check")
  BY <1>8, OtherTurns DEF Turn, Aside, Traverse, Same
<1>9. CASE TraverseEnds(t, "found") \/ TraverseEnds(t, "checked") \/ TraverseEnds(t, "insane")
  BY <1>9, OtherTurns DEF Aside, Idle, TraverseEnds, Same
<1>. QED
  BY <1>1, <1>2, <1>3, <1>4, <1>5, <1>6, <1>7, <1>8, <1>9 DEF Begins, Goes

LEMMA TrackKept ==
  ASSUME SharedInv, NEW t \in Thread, Begins(t) \/ Goes(t), OthersStay(t),
         \A u \in Thread \ {t} : held'[u] = held[u]
  PROVE  TrackOK' /\ tracking' \in 0..1 /\ bare' \in [Thread -> SUBSET Record]
<1>0. Typed /\ TrackOK /\ tracking \in 0..1 /\ bare \in [Thread -> SUBSET Record]
  BY DEF SharedInv, Typed
<1>1. CASE Aside(t)
  <2>1. tracking' = tracking /\ bare' = bare
    BY <1>1 DEF Aside
  <2>2. bare[t] = {}
    BY <1>0, <1>1 DEF Aside, TrackOK
  <2>3. \A u \in Thread : op'[u].do \in {"capture", "release"} => op'[u] = op[u]
    BY <1>1 DEF Aside, OthersStay
  <2>. QED
    BY <1>0, <2>1, <2>2, <2>3 DEF TrackOK, OthersStay
<1>2. CASE Claim(t)
  <2>1. tracking = 1 /\ tracking' = 0 /\ bare' = bare /\ op[t].do = "claim" /\ op'[t].do = "capture"
    BY <1>2, Turns DEF Claim, IsTracking, Turn
  <2>2. \A u \in Thread : op[u].do \notin {"capture", "release"}
    BY <1>0, <2>1 DEF TrackOK
  <2>3. bare[t] = {}
    BY <1>0, <2>1 DEF TrackOK
  <2>. QED
    BY <1>0, <2>1, <2>2, <2>3 DEF TrackOK, OthersStay
<1>3. CASE Capture(t)
  <2>1. /\ tracking' = tracking /\ op[t].do = "capture" /\ op'[t].do = "release" /\ held' = held
        /\ bare' = [bare EXCEPT ![t] = {r \in Record : held[t][r] > 0}]
    BY <1>3, Turns DEF Capture, Turn, Put
  <2>2. bare'[t] = {r \in Record : held[t][r] > 0} /\ \A u \in Thread \ {t} : bare'[u] = bare[u]
    BY <1>0, <2>1
  <2>3. bare' \in [Thread -> SUBSET Record]
    BY <1>0, <2>1
  <2>. QED
    BY <1>0, <2>1, <2>2, <2>3 DEF TrackOK, OthersStay
<1>4. CASE Release(t)
  <2>1. /\ tracking' = 1 /\ bare' = bare /\ op[t].do = "release" /\ op'[t].do = "run"
        /\ held' = held
    BY <1>4, Turns DEF Release, Turn
  <2>2. \A u \in Thread \ {t} : op[u].do \notin {"capture", "release"}
    BY <1>0, <2>1 DEF TrackOK
  <2>. QED
    BY <1>0, <2>1, <2>2 DEF TrackOK, OthersStay
<1>5. CASE LaunchEnds(t)
  <2>1. /\ tracking' = tracking /\ op[t].do = "run" /\ op'[t].do = "idle" /\ held' = held
        /\ bare' = [bare EXCEPT ![t] = {}]
    <3>1. op[t].do = "run" /\ op'[t] = Idle /\ held' = held
      BY <1>5, OtherTurns
    <3>. QED
      BY <1>5, <3>1 DEF LaunchEnds, Put, Idle
  <2>2. bare'[t] = {} /\ (\A u \in Thread \ {t} : bare'[u] = bare[u])
        /\ bare' \in [Thread -> SUBSET Record]
    BY <1>0, <2>1
  <2>. QED
    BY <1>0, <2>1, <2>2 DEF TrackOK, OthersStay
<1>. QED
  BY <1>1, <1>2, <1>3, <1>4, <1>5, AsideSteps

LEMMA OthersKeepTheirs ==
  ASSUME SharedInv, NEW t \in Thread, Sorted(t)
  PROVE  \A u \in Thread \ {t} : held'[u] = held[u]
BY DEF SharedInv, Sorted, Spares, Quiet, Frees, Takes, Creates, Lets, Typed

LEMMA TypesKept ==
  ASSUME SharedInv, NEW t \in Thread, Begins(t) \/ Goes(t)
  PROVE  Typed'
<1>0. Typed /\ OwnOK /\ op[t] \in Frame
  BY DEF SharedInv, Typed
<1>1. Sorted(t) /\ OthersStay(t) /\ op' \in [Thread -> Frame]
  BY StepsSorted, OpTyped
<1>2. held' \in [Thread -> [Record -> 0..MaxRefs]] /\ count' \in [Record -> Int]
  BY <1>1, CountKept
<1>3. tracking' \in 0..1 /\ bare' \in [Thread -> SUBSET Record]
  BY <1>1, TrackKept, OthersKeepTheirs
<1>4. memory' \in [Record -> {"fresh", "live", "freed"}]
  BY <1>0, <1>1 DEF Typed, Sorted, Spares, Quiet, Frees, Takes, Creates, Lets
<1>5. calls' \in [Thread -> 0..MaxCalls]
  <2>1. calls' = calls \/ Call(t)
    BY DEF Begins, Goes, Insert, Link, Publish, AssignAllocated, AssignCopies, Increment, Erase,
           Unlink, Bypass, Erased, Deallocate, Traverse, Walk, Found, TraverseEnds, Check, Checked,
           Claim, Capture, Release, LaunchEnds, Allocate, Copy, Drop, Assign, Decrement, Find,
           IsSane, Launch, Same
  <2>. QED
    BY <1>0, <2>1 DEF Call, Put, Typed
<1>6. next' \in [Node -> Node \cup {Null}] /\ prev' \in [Node -> Node \cup {Null}]
  <2>0. /\ next \in [Node -> Node \cup {Null}] /\ prev \in [Node -> Node \cup {Null}]
        /\ op[t].rec \in Node \cup {Null} /\ op[t].first \in Node \cup {Null}
        /\ Root \in Node /\ Record \subseteq Node
    BY <1>0, NodeFacts DEF Typed, Frame
  <2>1. CASE UNCHANGED ring
    BY <2>0, <2>1 DEF ring
  <2>2. CASE Allocate(t) \/ Deallocate(t)
    BY <2>0, <2>2 DEF Allocate, Deallocate, Put
  <2>3. CASE Insert(t) \/ Link(t) \/ Publish(t) \/ Erased(t)
    BY <2>0, <2>3 DEF Insert, Link, Publish, Erased, Unlocks, Put
  <2>4. CASE \/ Erase(t) \/ Traverse(t, "find", "walk") \/ Traverse(t, "sane", "check")
             \/ \E old : TraverseEnds(t, old)
    BY <2>0, <2>4 DEF Erase, Traverse, TraverseEnds, Unlocks, Put
  <2>5. CASE Unlink(t) \/ Bypass(t)
    <3>1. op[t].rec \in Record
      BY <1>0, <2>5, Turns DEF OwnOK, Turn, Dying
    <3>2. next[op[t].rec] \in Node \cup {Null} /\ prev[op[t].rec] \in Node \cup {Null}
      BY <2>0, <3>1
    <3>. QED
      BY <2>0, <2>5, <3>2 DEF Unlink, Bypass, Put
  <2>. QED
    BY <2>1, <2>2, <2>3, <2>4, <2>5
       DEF Begins, Goes, AssignAllocated, AssignCopies, Increment, Walk, Found, Check, Checked,
           Claim, Capture, Release, LaunchEnds, Copy, Drop, Assign, Decrement, Find, IsSane, Launch
<1>. QED
  BY <1>1, <1>2, <1>3, <1>4, <1>5, <1>6 DEF Typed
-----------------------------------------------------------------------------
(* The ring, as a list                                                     *)

Outside == {"insert", "link", "publish", "erased", "dealloc"}

ChainAt(f, n) ==
  /\ n \in Nat /\ IsFiniteSet(Linked) /\ n = Cardinality(Linked)
  /\ f \in [0..(n + 1) -> Node] /\ Lists(f, n, Linked, next)
  /\ next[Root] # Null => f[1] = next[Root] /\ Back(f, 0..n, prev)
  /\ \A u \in Thread : Owner(op[u], f, n, next, prev)

LEMMA Chain ==
  ASSUME RingOK
  PROVE  \E n : \E f : ChainAt(f, n)
<1>0. PICK n \in Nat : \E f \in [0..(n + 1) -> Node] : n = Cardinality(Linked) /\ Listed(f)
  BY ChainExists
<1>1. PICK f \in [0..(n + 1) -> Node] : n = Cardinality(Linked) /\ Listed(f)
  BY <1>0
<1>2. ChainAt(f, n)
  BY <1>1 DEF ChainAt, Listed, RingOK, LockIsFree
<1>. QED
  BY <1>2

LEMMA ChainFacts ==
  ASSUME NEW n, NEW f, ChainAt(f, n)
  PROVE  /\ f[0] = Root /\ f[n + 1] = Root /\ f[1] \in Node
         /\ \A i \in 1..n : f[i] \in Linked /\ f[i] # Root /\ next[f[i]] = f[i + 1]
         /\ \A i \in 0..n : f[i + 1] \in Linked \cup {Root}
         /\ \A i, j \in 1..(n + 1) : f[i] = f[j] => i = j
         /\ \A r \in Linked : \E i \in 1..n : f[i] = r
<1>1. n \in Nat /\ f \in [0..(n + 1) -> Node] /\ Lists(f, n, Linked, next)
  BY DEF ChainAt
<1>2. f[0] = Root /\ f[n + 1] = Root /\ f[1] \in Node
  BY <1>1 DEF Lists
<1>3. \A i \in 1..n : f[i] \in Linked /\ f[i] # Root /\ next[f[i]] = f[i + 1]
  BY <1>1, NodeFacts DEF Lists
<1>4. \A i \in 0..n : f[i + 1] \in Linked \cup {Root}
  <2>1. ASSUME NEW i \in 0..n PROVE f[i + 1] \in Linked \cup {Root}
    <3>1. i + 1 \in 1..n \/ i + 1 = n + 1
      BY <1>1
    <3>. QED
      BY <1>2, <1>3, <3>1
  <2>. QED
    BY <2>1
<1>5. \A i, j \in 1..(n + 1) : f[i] = f[j] => i = j
  <2>1. ASSUME NEW i \in 1..(n + 1), NEW j \in 1..(n + 1), f[i] = f[j] PROVE i = j
    <3>1. (i \in 1..n \/ i = n + 1) /\ (j \in 1..n \/ j = n + 1)
      BY <1>1
    <3>. QED
      BY <1>1, <1>2, <1>3, <2>1, <3>1 DEF Lists
  <2>. QED
    BY <2>1
<1>. QED
  BY <1>1, <1>2, <1>3, <1>4, <1>5 DEF Lists

(* To show that the ring is whole after a step                             *)
LEMMA RingIntro ==
  ASSUME NEW S, NEW n \in Nat, NEW f \in [0..(n + 1) -> Node],
         IsFiniteSet(S), Cardinality(S) = n, Linked' = S, Lists(f, n, S, next'),
         next'[Root] # Null => f[1] = next'[Root] /\ Back(f, 0..n, prev'),
         \A u \in Thread : Owner(op'[u], f, n, next', prev'),
         \A u \in Thread : op'[u].do \in {"insert", "link", "publish"} => prev'[op'[u].rec] = Root
  PROVE  RingOK'
<1>1. Listed(f)'
  BY DEF Listed, LockIsFree
<1>. QED
  BY <1>1 DEF RingOK

LEMMA NotOwner ==
  ASSUME NEW o, o.do \notin Locking, NEW f, NEW n, NEW nxt, NEW prv
  PROVE  Owner(o, f, n, nxt, prv)
BY DEF Owner, Locking

LEMMA LinkedStays ==
  ASSUME NEW t \in Thread, OthersStay(t), memory' = memory,
         op'[t].do \in Outside <=> op[t].do \in Outside,
         op'[t].do \in Outside => op'[t].rec = op[t].rec
  PROVE  Linked' = Linked
<1>1. \A r \in Record : (\E u \in Thread : op'[u].do \in Outside /\ op'[u].rec = r)
                          <=> (\E u \in Thread : op[u].do \in Outside /\ op[u].rec = r)
  BY DEF OthersStay
<1>. QED
  BY <1>1 DEF Linked, Passing, Outside

(* A record in the hands of a thread is in the ring or is not.             *)
LEMMA InHand ==
  ASSUME SharedInv, NEW t \in Thread, op[t].do \in Born \cup Dying
  PROVE  /\ op[t].rec \in Record
         /\ op[t].rec \in Linked <=> op[t].do \notin Outside
         /\ \A u \in Thread \ {t} : op[u].do \in Born \cup Dying => op[u].rec # op[t].rec
<1>1. /\ op[t].rec \in Record /\ memory[op[t].rec] = "live"
      /\ \A u \in Thread : op[u].do \in Born \cup Dying /\ op[u].rec = op[t].rec => u = t
  BY DEF SharedInv, OwnOK
<1>2. \A u \in Thread : op[u].do \in Outside => op[u].do \in Born \cup Dying
  BY DEF Outside, Born, Dying
<1>. QED
  BY <1>1, <1>2 DEF Linked, Passing, Outside

(* The frame: the ring is whole after a step that leaves alone what is     *)
(* linked, by the same list.                                               *)
LEMMA OwnerFramed ==
  ASSUME NEW o, NEW n, NEW f, ChainAt(f, n), NEW nxt, NEW prv,
         Owner(o, f, n, next, prev),
         o.do \in {"link", "publish"} => nxt[o.rec] = next[o.rec],
         \A x \in Linked \cup {Root} : prv[x] = prev[x]
  PROVE  Owner(o, f, n, nxt, prv)
<1>1. \A i \in 0..n : prv[f[i + 1]] = prev[f[i + 1]]
  BY ChainFacts
<1>2. \A I \in SUBSET (0..n) : Back(f, I, prev) => Back(f, I, prv)
  BY <1>1 DEF Back
<1>3. n \in Nat
  BY DEF ChainAt
<1>4. Back(f, 0..n, prev) => Back(f, 0..n, prv)
  BY <1>2
<1>5. Back(f, 1..n, prev) => Back(f, 1..n, prv)
  BY <1>2, <1>3
<1>6. \A k \in 1..n : Back(f, (0..n) \ {k}, prev) => Back(f, (0..n) \ {k}, prv)
  BY <1>2
<1>7. prv[f[1]] = prev[f[1]] /\ \A k \in 1..n : prv[f[k + 1]] = prev[f[k + 1]]
  <2>1. 0 \in 0..n /\ 0 + 1 = 1 /\ \A k \in 1..n : k \in 0..n
    BY <1>3
  <2>. QED
    BY <1>1, <2>1
<1>. HIDE DEF Back
<1>. QED
  BY <1>4, <1>5, <1>6, <1>7 DEF Owner

LEMMA ListFramed ==
  ASSUME NEW n, NEW f, ChainAt(f, n), NEW nxt, \A x \in Linked : nxt[x] = next[x]
  PROVE  Lists(f, n, Linked, nxt)
BY DEF ChainAt, Lists

(* The steps of a thread that does not own the lock and does not take it   *)
LEMMA Elsewhere ==
  ASSUME SharedInv, NEW t \in Thread, OthersStay(t), NEW n, NEW f, ChainAt(f, n),
         Linked' = Linked, op[t].do \notin Locking, op'[t].do \notin Locking,
         \A x \in Linked \cup {Root} : next'[x] = next[x] /\ prev'[x] = prev[x],
         \A u \in Thread \ {t} : op[u].do \in {"insert", "link", "publish"} =>
           next'[op[u].rec] = next[op[u].rec] /\ prev'[op[u].rec] = prev[op[u].rec],
         op'[t].do = "insert" => prev'[op'[t].rec] = Root
  PROVE  LockOK' /\ RingOK'
<1>0. LockOK /\ RingOK /\ n \in Nat /\ f \in [0..(n + 1) -> Node]
      /\ IsFiniteSet(Linked) /\ n = Cardinality(Linked)
  BY DEF SharedInv, ChainAt
<1>1. LockOK'
  <2>1. \A u \in Thread : op'[u].do \in Locking <=> op[u].do \in Locking
    BY DEF OthersStay
  <2>. QED
    BY <1>0, <2>1 DEF LockOK
<1>2. Lists(f, n, Linked, next')
  BY ListFramed
<1>3. next'[Root] # Null => f[1] = next'[Root] /\ Back(f, 0..n, prev')
  <2>1. \A i \in 0..n : prev'[f[i + 1]] = prev[f[i + 1]]
    BY ChainFacts
  <2>. QED
    BY <2>1 DEF ChainAt, Back
<1>4. ASSUME NEW u \in Thread PROVE Owner(op'[u], f, n, next', prev')
  <2>1. CASE u = t
    BY <2>1, NotOwner
  <2>2. CASE u # t
    <3>1. Owner(op[u], f, n, next, prev)
      BY DEF ChainAt
    <3>2. Owner(op[u], f, n, next', prev')
      BY <2>2, <3>1, OwnerFramed
    <3>. QED
      BY <2>2, <3>2 DEF OthersStay
  <2>. QED
    BY <2>1, <2>2
<1>5. \A u \in Thread : op'[u].do \in {"insert", "link", "publish"} => prev'[op'[u].rec] = Root
  <2>1. \A u \in Thread \ {t} : op'[u] = op[u]
    BY DEF OthersStay
  <2>2. op'[t].do \in {"insert", "link", "publish"} => op'[t].do = "insert"
    BY DEF Locking
  <2>. QED
    BY <1>0, <2>1, <2>2 DEF RingOK
<1>. QED
  BY <1>0, <1>1, <1>2, <1>3, <1>4, <1>5, RingIntro

(* The steps that take the lock, which leave what is linked alone          *)
LEMMA Locks ==
  ASSUME SharedInv, NEW t \in Thread, OthersStay(t), NEW n, NEW f, ChainAt(f, n),
         Linked' = Linked, next[Root] # Null, next'[Root] = Null, prev' = prev,
         op'[t].do \in Locking,
         \A x \in Linked : next'[x] = next[x],
         f[1] = next[Root] /\ Back(f, 0..n, prev) => Owner(op'[t], f, n, next', prev),
         op'[t].do \in {"link", "publish"} => prev[op'[t].rec] = Root
  PROVE  LockOK' /\ RingOK'
<1>0. LockOK /\ RingOK /\ n \in Nat /\ f \in [0..(n + 1) -> Node]
      /\ IsFiniteSet(Linked) /\ n = Cardinality(Linked)
  BY DEF SharedInv, ChainAt
<1>1. \A u \in Thread : op[u].do \notin Locking
  BY <1>0 DEF LockOK
<1>2. LockOK'
  BY <1>1 DEF LockOK, OthersStay
<1>3. Lists(f, n, Linked, next')
  BY ListFramed
<1>4. ASSUME NEW u \in Thread PROVE Owner(op'[u], f, n, next', prev')
  <2>1. CASE u = t
    BY <2>1 DEF ChainAt
  <2>2. CASE u # t
    BY <1>1, <2>2, NotOwner DEF OthersStay
  <2>. QED
    BY <2>1, <2>2
<1>5. \A u \in Thread : op'[u].do \in {"insert", "link", "publish"} => prev'[op'[u].rec] = Root
  <2>1. op'[t].do # "insert"
    BY DEF Locking
  <2>. QED
    BY <1>0, <2>1 DEF RingOK, OthersStay
<1>. QED
  BY <1>0, <1>2, <1>3, <1>4, <1>5, RingIntro

(* The steps of the owner that keep the lock and what is linked            *)
LEMMA Owns ==
  ASSUME SharedInv, NEW t \in Thread, OthersStay(t), NEW n, NEW f, ChainAt(f, n),
         Linked' = Linked, op[t].do \in Locking, op'[t].do \in Locking, next' = next,
         Owner(op'[t], f, n, next, prev'),
         \A u \in Thread : op'[u].do \in {"insert", "link", "publish"} => prev'[op'[u].rec] = Root
  PROVE  LockOK' /\ RingOK'
<1>0. LockOK /\ n \in Nat /\ f \in [0..(n + 1) -> Node]
      /\ IsFiniteSet(Linked) /\ n = Cardinality(Linked) /\ Lists(f, n, Linked, next)
  BY DEF SharedInv, ChainAt
<1>1. next[Root] = Null /\ \A u \in Thread \ {t} : op[u].do \notin Locking
  BY <1>0, OwnerFindsNull
<1>2. LockOK'
  BY <1>1 DEF LockOK, OthersStay
<1>3. ASSUME NEW u \in Thread PROVE Owner(op'[u], f, n, next', prev')
  <2>1. CASE u # t
    BY <1>1, <2>1, NotOwner DEF OthersStay
  <2>. QED
    BY <2>1
<1>. QED
  BY <1>0, <1>1, <1>2, <1>3, RingIntro

(* The steps that put the lock back                                        *)
LEMMA Releases ==
  ASSUME SharedInv, NEW t \in Thread, OthersStay(t), op[t].do \in Locking, op'[t].do \notin Locking,
         op'[t].do # "insert", prev' = prev,
         NEW n \in Nat, NEW f \in [0..(n + 1) -> Node], NEW S, IsFiniteSet(S),
         Cardinality(S) = n, Linked' = S, Lists(f, n, S, next'), Back(f, 0..n, prev),
         f[1] = next'[Root]
  PROVE  LockOK' /\ RingOK'
<1>0. LockOK /\ RingOK
  BY DEF SharedInv
<1>1. \A u \in Thread : op'[u].do \notin Locking
  BY <1>0, OwnerFindsNull DEF OthersStay
<1>2. next'[Root] # Null
  BY NodeFacts
<1>3. LockOK'
  BY <1>1, <1>2 DEF LockOK
<1>4. \A u \in Thread : Owner(op'[u], f, n, next', prev')
  BY <1>1, NotOwner
<1>5. \A u \in Thread : op'[u].do \in {"insert", "link", "publish"} => prev'[op'[u].rec] = Root
  BY <1>0, <1>1 DEF RingOK, OthersStay, Locking
<1>. QED
  BY <1>2, <1>3, <1>4, <1>5, RingIntro

LEMMA GoKeeps ==
  ASSUME Typed, NEW t \in Thread, NEW old, NEW new, Go(t, old, new)
  PROVE  op'[t].first = op[t].first /\ op'[t].at = op[t].at
BY DEF Typed, Frame, Go, At

LEMMA FirstAndAt ==
  ASSUME SharedInv, NEW t \in Thread
  PROVE  /\ Erase(t) => op'[t].first = next[Root]
         /\ Unlink(t) \/ Found(t) \/ Checked(t) =>
              op'[t].first = op[t].first /\ op'[t].at = op[t].at
         /\ Bypass(t) => op'[t].first = IF IsFirst(t) THEN next[op[t].rec] ELSE op[t].first
         /\ Walk(t) \/ Check(t) => op'[t].first = op[t].first /\ op'[t].at = next[op[t].at]
         /\ \A old, new : Traverse(t, old, new) =>
              op'[t].first = next[Root] /\ op'[t].at = next[Root]
<1>0. Typed /\ op \in [Thread -> Frame] /\ op[t] \in Frame
  BY DEF SharedInv, Typed
<1>1. Erase(t) => op'[t].first = next[Root]
  BY <1>0 DEF Erase, GoWith, At, Frame
<1>2. Unlink(t) \/ Found(t) \/ Checked(t) =>
        op'[t].first = op[t].first /\ op'[t].at = op[t].at
  BY <1>0, GoKeeps DEF Unlink, Found, Checked
<1>3. Bypass(t) => op'[t].first = IF IsFirst(t) THEN next[op[t].rec] ELSE op[t].first
  <2>1. GoWith(t, "bypass", "erased", "first", next[op[t].rec]) =>
          op'[t].first = next[op[t].rec]
    BY <1>0 DEF GoWith, At, Frame
  <2>. QED
    BY <1>0, <2>1, GoKeeps DEF Bypass
<1>4. Walk(t) \/ Check(t) => op'[t].first = op[t].first /\ op'[t].at = next[op[t].at]
  <2>1. ASSUME NEW old, NEW new, GoWith(t, old, new, "at", next[op[t].at])
        PROVE  op'[t].first = op[t].first /\ op'[t].at = next[op[t].at]
    BY <1>0, <2>1 DEF GoWith, At, Frame
  <2>2. Walk(t) \/ Check(t) => \E old, new : GoWith(t, old, new, "at", next[op[t].at])
    BY DEF Walk, Check
  <2>. QED
    BY <2>1, <2>2
<1>5. ASSUME NEW old, NEW new, Traverse(t, old, new)
      PROVE  op'[t].first = next[Root] /\ op'[t].at = next[Root]
  BY <1>0, <1>5 DEF Traverse, At, Frame
<1>. QED
  BY <1>1, <1>2, <1>3, <1>4, <1>5


LEMMA RingTaking ==
  ASSUME SharedInv, NEW t \in Thread, OthersStay(t), NEW n, NEW f, ChainAt(f, n),
         \/ \E r \in Record : Takes(t, r)
         \/ \E r \in Record, s \in Record \cup {Null} : Lets(t, r, s)
  PROVE  LockOK' /\ RingOK'
<1>1. /\ next' = next /\ prev' = prev /\ memory' = memory
      /\ op[t].do \in {"idle", "assign", "copy"} /\ op'[t].do \in {"idle", "erase", "copy"}
  <2>1. CASE \E r \in Record : Takes(t, r)
    BY <2>1 DEF Takes, ring, Idle
  <2>2. ASSUME NEW r \in Record, NEW s \in Record \cup {Null}, Lets(t, r, s)
        PROVE  /\ next' = next /\ prev' = prev /\ memory' = memory
               /\ op[t].do = "idle" /\ op'[t].do \in {"idle", "erase", "copy"}
    <3>1. op[t].do = "idle" /\ op'[t].do \in {"idle", "erase", "copy"}
      <4>1. /\ op[t].do = "idle"
            /\ op'[t] = IF count[r] = 1 THEN [Idle EXCEPT !.do = "erase", !.rec = r, !.then = s]
                        ELSE IF s = Null THEN Idle
                        ELSE [Idle EXCEPT !.do = "copy", !.rec = r, !.then = s]
        BY <2>2 DEF Lets
      <4>. QED
        BY <4>1 DEF Idle
    <3>. QED
      BY <2>2, <3>1 DEF Lets, ring
  <2>. QED
    BY <2>1, <2>2
<1>2. Linked' = Linked
  BY <1>1, LinkedStays DEF Outside
<1>3. op[t].do \notin Locking /\ op'[t].do \notin Locking /\ op'[t].do # "insert"
  BY <1>1 DEF Locking
<1>. QED
  BY <1>1, <1>2, <1>3, Elsewhere

LEMMA RingAside ==
  ASSUME SharedInv, NEW t \in Thread, OthersStay(t), NEW n, NEW f, ChainAt(f, n),
         \/ Find(t) \/ IsSane(t) \/ Launch(t)
         \/ Claim(t) \/ Capture(t) \/ Release(t) \/ LaunchEnds(t)
  PROVE  LockOK' /\ RingOK'
<1>1. op[t].do \in {"idle", "claim", "capture", "release", "run"} /\ memory' = memory
      /\ op'[t].do \in {"find", "sane", "claim", "capture", "release", "run", "idle"}
  BY Turns, OtherTurns DEF Turn, Idle
<1>2. next' = next /\ prev' = prev
  BY DEF Find, IsSane, Launch, Claim, Capture, Release, LaunchEnds, ring
<1>3. Linked' = Linked
  BY <1>1, LinkedStays DEF Outside
<1>4. op[t].do \notin Locking /\ op'[t].do \notin Locking /\ op'[t].do # "insert"
  BY <1>1 DEF Locking
<1>. QED
  BY <1>2, <1>3, <1>4, Elsewhere

LEMMA RingAllocate ==
  ASSUME SharedInv, NEW t \in Thread, OthersStay(t), NEW n, NEW f, ChainAt(f, n), Allocate(t)
  PROVE  LockOK' /\ RingOK'
<1>0. Typed /\ OwnOK
  BY DEF SharedInv
<1>1. PICK r \in Record : Creates(t, r)
  BY AllocateEffect
<1>2. /\ op[t].do = "idle" /\ op'[t].do = "insert" /\ op'[t].rec = r /\ next' = next
      /\ memory[r] = "fresh" /\ memory' = [memory EXCEPT ![r] = "live"]
      /\ prev' = [prev EXCEPT ![r] = Root]
  BY <1>1 DEF Creates
<1>3. \A u \in Thread : op[u].do \in Born \cup Dying => op[u].rec \in Record \ {r}
  BY <1>0, <1>2 DEF OwnOK
<1>4. \A x \in Node \ {r} : prev'[x] = prev[x]
  BY <1>0, <1>2 DEF Typed
<1>5. r \notin Linked /\ prev'[r] = Root
  BY <1>0, <1>2 DEF Linked, Typed, Node
<1>6. Linked' = Linked
  <2>1. ASSUME NEW x \in Record \ {r} PROVE x \in Linked' <=> x \in Linked
    <3>1. memory'[x] = memory[x]
      BY <1>0, <1>2 DEF Typed
    <3>2. (\E u \in Thread : op'[u].do \in Outside /\ op'[u].rec = x)
            <=> (\E u \in Thread : op[u].do \in Outside /\ op[u].rec = x)
      BY <1>2 DEF OthersStay, Outside
    <3>. QED
      BY <3>1, <3>2 DEF Linked, Passing, Outside
  <2>2. r \notin Linked'
    BY <1>2 DEF Linked, Passing
  <2>3. Linked' \subseteq Record /\ Linked \subseteq Record
    BY DEF Linked
  <2>. QED
    BY <1>5, <2>1, <2>2, <2>3
<1>7. /\ op[t].do \notin Locking /\ op'[t].do \notin Locking
      /\ \A x \in Linked \cup {Root} : next'[x] = next[x] /\ prev'[x] = prev[x]
  BY <1>2, <1>4, <1>5, NodeFacts DEF Locking
<1>8. \A u \in Thread \ {t} : op[u].do \in {"insert", "link", "publish"} =>
        next'[op[u].rec] = next[op[u].rec] /\ prev'[op[u].rec] = prev[op[u].rec]
  BY <1>2, <1>3, <1>4, NodeFacts DEF Born
<1>. QED
  BY <1>2, <1>5, <1>6, <1>7, <1>8, Elsewhere

LEMMA RingDeallocate ==
  ASSUME SharedInv, NEW t \in Thread, OthersStay(t), NEW n, NEW f, ChainAt(f, n), Deallocate(t)
  PROVE  LockOK' /\ RingOK'
<1>0. Typed /\ OwnOK
  BY DEF SharedInv
<1>1. Frees(t)
  BY DeallocateEffect
<1>r. PICK r : r = op[t].rec
  OBVIOUS
<1>2. /\ op[t].do = "dealloc" /\ op'[t].do \in {"idle", "copy"}
      /\ memory' = [memory EXCEPT ![r] = "freed"]
      /\ next' = [next EXCEPT ![r] = Null] /\ prev' = [prev EXCEPT ![r] = Null]
  BY <1>1, <1>r DEF Frees, Idle
<1>3. /\ r \in Record /\ r \notin Linked
      /\ \A u \in Thread \ {t} : op[u].do \in Born \cup Dying => op[u].rec \in Record \ {r}
  BY <1>0, <1>2, <1>r, InHand DEF OwnOK, Dying, Outside
<1>4. \A x \in Node \ {r} : prev'[x] = prev[x] /\ next'[x] = next[x]
  BY <1>0, <1>2 DEF Typed
<1>6. Linked' = Linked
  <2>1. ASSUME NEW x \in Record \ {r} PROVE x \in Linked' <=> x \in Linked
    <3>1. memory'[x] = memory[x]
      BY <1>0, <1>2 DEF Typed
    <3>2. (\E u \in Thread : op'[u].do \in Outside /\ op'[u].rec = x)
            <=> (\E u \in Thread : op[u].do \in Outside /\ op[u].rec = x)
      BY <1>2, <1>r DEF OthersStay, Outside
    <3>. QED
      BY <3>1, <3>2 DEF Linked, Passing, Outside
  <2>2. r \notin Linked'
    BY <1>0, <1>2, <1>3 DEF Linked, Typed
  <2>3. Linked' \subseteq Record /\ Linked \subseteq Record
    BY DEF Linked
  <2>4. \A x \in Record : x \in Linked' <=> x \in Linked
    BY <1>3, <2>1, <2>2
  <2>. QED
    BY <2>3, <2>4
<1>7. /\ op[t].do \notin Locking /\ op'[t].do \notin Locking /\ op'[t].do # "insert"
      /\ \A x \in Linked \cup {Root} : next'[x] = next[x] /\ prev'[x] = prev[x]
  BY <1>2, <1>3, <1>4, NodeFacts DEF Locking
<1>8. \A u \in Thread \ {t} : op[u].do \in {"insert", "link", "publish"} =>
        next'[op[u].rec] = next[op[u].rec] /\ prev'[op[u].rec] = prev[op[u].rec]
  BY <1>3, <1>4, NodeFacts DEF Born
<1>. QED
  BY <1>2, <1>6, <1>7, <1>8, Elsewhere

LEMMA RingLocks ==
  ASSUME SharedInv, NEW t \in Thread, OthersStay(t), NEW n, NEW f, ChainAt(f, n),
         Insert(t) \/ Erase(t) \/ Traverse(t, "find", "walk") \/ Traverse(t, "sane", "check")
  PROVE  LockOK' /\ RingOK'
<1>0. Typed /\ OwnOK /\ RingOK /\ n \in Nat
  BY DEF SharedInv, ChainAt
<1>1. CASE Insert(t)
  <2>1. /\ op[t].do = "insert" /\ op'[t].do = "link" /\ op'[t].rec = op[t].rec
        /\ memory' = memory /\ next[Root] # Null /\ prev' = prev
        /\ next' = [next EXCEPT ![op[t].rec] = next[Root], ![Root] = Null]
    BY <1>1, Turns DEF Turn, Insert, LockIsFree
  <2>2. op[t].rec \in Record /\ op[t].rec \notin Linked /\ prev[op[t].rec] = Root
    <3>1. op[t].do \in Born \cup Dying /\ op[t].do \in Outside
      BY <2>1 DEF Born, Outside
    <3>2. prev[op[t].rec] = Root
      BY <1>0, <2>1 DEF RingOK
    <3>. QED
      BY <3>1, <3>2, InHand
  <2>3. /\ next'[op[t].rec] = next[Root] /\ next'[Root] = Null
        /\ \A x \in Linked : next'[x] = next[x]
    BY <1>0, <2>1, <2>2, NodeFacts DEF Typed
  <2>4. Linked' = Linked
    BY <2>1, LinkedStays DEF Outside
  <2>5. f[1] = next[Root] /\ Back(f, 0..n, prev) => Owner(op'[t], f, n, next', prev)
    BY <2>1, <2>3 DEF Owner
  <2>. QED
    BY <2>1, <2>2, <2>3, <2>4, <2>5, Locks DEF Locking
<1>2. CASE Erase(t)
  <2>1. /\ op[t].do = "erase" /\ op'[t].do = "unlink" /\ op'[t].rec = op[t].rec
        /\ memory' = memory /\ next[Root] # Null /\ prev' = prev
        /\ next' = [next EXCEPT ![Root] = Null]
    BY <1>2, Turns DEF Turn, Erase, LockIsFree, Put
  <2>2. next'[Root] = Null /\ \A x \in Linked : next'[x] = next[x]
    BY <1>0, <2>1, NodeFacts DEF Typed
  <2>3. Linked' = Linked
    BY <2>1, LinkedStays DEF Outside
  <2>4. f[1] = next[Root] /\ Back(f, 0..n, prev) => Owner(op'[t], f, n, next', prev)
    BY <1>2, <2>1, FirstAndAt DEF Owner
  <2>. QED
    BY <2>1, <2>2, <2>3, <2>4, Locks DEF Locking
<1>3. CASE Traverse(t, "find", "walk") \/ Traverse(t, "sane", "check")
  <2>1. /\ op[t].do \in {"find", "sane"} /\ op'[t].do \in {"walk", "check"}
        /\ memory' = memory /\ next[Root] # Null /\ prev' = prev
        /\ next' = [next EXCEPT ![Root] = Null]
    BY <1>3, OtherTurns DEF Turn, Traverse, LockIsFree, Put
  <2>2. next'[Root] = Null /\ \A x \in Linked : next'[x] = next[x]
    BY <1>0, <2>1, NodeFacts DEF Typed
  <2>3. Linked' = Linked
    BY <2>1, LinkedStays DEF Outside
  <2>4. op'[t].first = next[Root] /\ op'[t].at = next[Root]
    BY <1>3, FirstAndAt
  <2>5. 1 \in 1..(n + 1) /\ 1..(1 - 1) = {}
    BY <1>0
  <2>6. f[1] = next[Root] /\ Back(f, 0..n, prev) => Owner(op'[t], f, n, next', prev)
    BY <2>1, <2>4, <2>5 DEF Owner
  <2>. QED
    BY <2>1, <2>2, <2>3, <2>6, Locks DEF Locking
<1>. QED
  BY <1>1, <1>2, <1>3

(* The owner works on the ring.                                            *)
LEMMA RingLink ==
  ASSUME SharedInv, NEW t \in Thread, OthersStay(t), NEW n, NEW f, ChainAt(f, n), Link(t)
  PROVE  LockOK' /\ RingOK'
<1>0. Typed /\ RingOK /\ n \in Nat /\ Owner(op[t], f, n, next, prev)
  BY DEF SharedInv, ChainAt
<1>1. /\ op[t].do = "link" /\ op'[t].do = "publish" /\ op'[t].rec = op[t].rec
      /\ memory' = memory /\ next' = next /\ prev' = [prev EXCEPT ![next[op[t].rec]] = op[t].rec]
  BY Turns DEF Turn, Link, Put
<1>2. /\ op[t].rec \in Record /\ op[t].rec \notin Linked
      /\ next[op[t].rec] = f[1] /\ Back(f, 0..n, prev) /\ f[1] \in Linked \cup {Root} /\ f[1] \in Node
  <2>1. op[t].rec \in Record /\ op[t].rec \notin Linked
    BY <1>1, InHand DEF Born, Outside
  <2>2. next[op[t].rec] = f[1] /\ Back(f, 0..n, prev)
    BY <1>0, <1>1 DEF Owner
  <2>3. 0 \in 0..n /\ 0 + 1 = 1
    BY <1>0
  <2>. QED
    BY <2>1, <2>2, <2>3, ChainFacts
<1>3. prev'[f[1]] = op[t].rec /\ \A x \in Node \ {f[1]} : prev'[x] = prev[x]
  BY <1>0, <1>1, <1>2 DEF Typed
<1>4. Back(f, 1..n, prev')
  <2>1. ASSUME NEW i \in 1..n PROVE prev'[f[i + 1]] = f[i]
    <3>1. i + 1 \in 1..(n + 1) /\ 1 \in 1..(n + 1) /\ i + 1 # 1 /\ i \in 0..n
      BY <1>0
    <3>2. f[i + 1] # f[1] /\ f[i + 1] \in Node
      BY <3>1, ChainFacts, NodeFacts
    <3>. QED
      BY <1>2, <1>3, <3>1, <3>2 DEF Back
  <2>. QED
    BY <2>1 DEF Back
<1>5. Owner(op'[t], f, n, next, prev')
  BY <1>1, <1>2, <1>3, <1>4 DEF Owner
<1>6. ASSUME NEW u \in Thread, op'[u].do \in {"insert", "link", "publish"}
      PROVE  prev'[op'[u].rec] = Root
  <2>1. op[u].do \in {"insert", "link", "publish"} /\ op'[u].rec = op[u].rec
    BY <1>1, <1>6 DEF OthersStay
  <2>2. op[u].rec \in Record /\ op[u].rec \notin Linked /\ prev[op[u].rec] = Root
    <3>1. op[u].do \in Born \cup Dying /\ op[u].do \in Outside
      BY <2>1 DEF Born, Outside
    <3>2. prev[op[u].rec] = Root
      BY <1>0, <2>1 DEF RingOK
    <3>. QED
      BY <3>1, <3>2, InHand
  <2>. QED
    BY <1>2, <1>3, <2>1, <2>2, NodeFacts
<1>7. Linked' = Linked
  BY <1>1, LinkedStays DEF Outside
<1>. QED
  BY <1>1, <1>5, <1>6, <1>7, Owns DEF Locking

LEMMA RingUnlink ==
  ASSUME SharedInv, NEW t \in Thread, OthersStay(t), NEW n, NEW f, ChainAt(f, n), Unlink(t)
  PROVE  LockOK' /\ RingOK'
<1>0. Typed /\ RingOK /\ n \in Nat /\ Owner(op[t], f, n, next, prev)
  BY DEF SharedInv, ChainAt
<1>1. /\ op[t].do = "unlink" /\ op'[t].do = "bypass" /\ op'[t].rec = op[t].rec
      /\ memory' = memory /\ next' = next
      /\ prev' = [prev EXCEPT ![next[op[t].rec]] = prev[op[t].rec]]
      /\ op'[t].first = op[t].first
  BY Turns, FirstAndAt DEF Turn, Unlink, Put
<1>2. op[t].rec \in Linked /\ Back(f, 0..n, prev) /\ op[t].first = f[1]
  <2>1. op[t].rec \in Linked
    BY <1>1, InHand DEF Dying, Outside
  <2>. QED
    BY <1>0, <1>1, <2>1 DEF Owner, Locking
<1>3. PICK k \in 1..n : f[k] = op[t].rec
  BY <1>2, ChainFacts
<1>4. next[op[t].rec] = f[k + 1] /\ prev[op[t].rec] = f[k - 1] /\ f[k + 1] \in Node
  <2>1. k - 1 \in 0..n /\ (k - 1) + 1 = k /\ k \in 0..n
    BY <1>0
  <2>. QED
    BY <1>2, <1>3, <2>1, ChainFacts, NodeFacts DEF Back
<1>5. prev'[f[k + 1]] = f[k - 1] /\ \A x \in Node \ {f[k + 1]} : prev'[x] = prev[x]
  BY <1>0, <1>1, <1>4 DEF Typed
<1>6. Back(f, (0..n) \ {k}, prev')
  <2>1. ASSUME NEW i \in (0..n) \ {k} PROVE prev'[f[i + 1]] = f[i]
    <3>1. i + 1 \in 1..(n + 1) /\ k + 1 \in 1..(n + 1) /\ i + 1 # k + 1 /\ i \in 0..n
      BY <1>0
    <3>2. f[i + 1] # f[k + 1] /\ f[i + 1] \in Node
      BY <3>1, ChainFacts, NodeFacts
    <3>. QED
      BY <1>2, <1>5, <3>1, <3>2 DEF Back
  <2>. QED
    BY <2>1 DEF Back
<1>7. Owner(op'[t], f, n, next, prev')
  BY <1>1, <1>2, <1>3, <1>5, <1>6 DEF Owner
<1>8. ASSUME NEW u \in Thread, op'[u].do \in {"insert", "link", "publish"}
      PROVE  prev'[op'[u].rec] = Root
  <2>1. op[u].do \in {"insert", "link", "publish"} /\ op'[u].rec = op[u].rec
    BY <1>1, <1>8 DEF OthersStay
  <2>2. op[u].rec \in Record /\ op[u].rec \notin Linked /\ prev[op[u].rec] = Root
    <3>1. op[u].do \in Born \cup Dying /\ op[u].do \in Outside
      BY <2>1 DEF Born, Outside
    <3>2. prev[op[u].rec] = Root
      BY <1>0, <2>1 DEF RingOK
    <3>. QED
      BY <3>1, <3>2, InHand
  <2>3. f[k + 1] \in Linked \cup {Root}
    BY <1>0, ChainFacts
  <2>. QED
    BY <1>5, <2>1, <2>2, <2>3, NodeFacts
<1>9. Linked' = Linked
  BY <1>1, LinkedStays DEF Outside
<1>. QED
  BY <1>1, <1>7, <1>8, <1>9, Owns DEF Locking

LEMMA RingWalks ==
  ASSUME SharedInv, NEW t \in Thread, OthersStay(t), NEW n, NEW f, ChainAt(f, n),
         Walk(t) \/ Found(t) \/ Check(t) \/ Checked(t)
  PROVE  LockOK' /\ RingOK'
<1>0. RingOK /\ n \in Nat /\ Owner(op[t], f, n, next, prev)
  BY DEF SharedInv, ChainAt
<1>1. /\ op[t].do \in {"walk", "check"} /\ op'[t].do \in {"walk", "found", "check", "checked"}
      /\ op'[t].rec = op[t].rec /\ op'[t].first = op[t].first
      /\ memory' = memory /\ next' = next /\ prev' = prev
  BY Turns, FirstAndAt DEF Turn, Walk, Found, Check, Checked, ring
<1>2. Back(f, 0..n, prev) /\ op[t].first = f[1]
  BY <1>0, <1>1 DEF Owner, Locking
<1>3. PICK k \in 1..(n + 1) : op[t].at = f[k] /\ (op[t].do = "walk" => \A j \in 1..(k - 1) : f[j] # op[t].rec)
  BY <1>0, <1>1 DEF Owner
<1>4. f[k] \in Linked \cup {Root} /\ (f[k] = Root <=> k = n + 1)
      /\ (k # n + 1 => k \in 1..n /\ k + 1 \in 1..(n + 1) /\ next[f[k]] = f[k + 1])
  <2>1. k \in 1..n \/ k = n + 1
    BY <1>0
  <2>. QED
    BY <1>0, <2>1, ChainFacts
<1>5. ASSUME Walk(t) PROVE Owner(op'[t], f, n, next, prev')
  <2>1. /\ op[t].at \notin {Root, op[t].rec} /\ op[t].do = "walk" /\ op'[t].do = "walk"
        /\ op'[t].at = next[op[t].at]
    BY <1>5, Turns, FirstAndAt DEF Walk, Turn
  <2>2. k + 1 \in 1..(n + 1) /\ op'[t].at = f[k + 1]
    BY <1>3, <1>4, <2>1
  <2>3. \A j \in 1..((k + 1) - 1) : f[j] # op[t].rec
    <3>1. \A j \in 1..((k + 1) - 1) : j \in 1..(k - 1) \/ j = k
      BY <1>0
    <3>. QED
      BY <1>3, <2>1, <3>1
  <2>. QED
    BY <1>1, <1>2, <2>1, <2>2, <2>3 DEF Owner
<1>6. ASSUME Found(t) PROVE Owner(op'[t], f, n, next, prev')
  <2>1. /\ op[t].at \in {Root, op[t].rec} /\ op[t].do = "walk" /\ op'[t].do = "found"
        /\ op'[t].at = op[t].at
    BY <1>6, Turns, FirstAndAt DEF Found, Turn
  <2>2. \/ op[t].at = Root /\ \A j \in 1..n : f[j] # op[t].rec
        \/ op[t].at = op[t].rec /\ op[t].rec \in Record
    <3>1. CASE k = n + 1
      <4>1. k - 1 = n
        BY <1>0, <3>1
      <4>. QED
        BY <1>3, <1>4, <2>1, <3>1, <4>1
    <3>2. CASE k # n + 1
      BY <1>3, <1>4, <2>1, <3>2, NodeFacts
    <3>. QED
      BY <3>1, <3>2
  <2>. QED
    BY <1>1, <1>2, <2>1, <2>2 DEF Owner
<1>7. ASSUME Check(t) PROVE Owner(op'[t], f, n, next, prev')
  <2>1. /\ op[t].at # Root /\ op'[t].do = "check" /\ op'[t].at = next[op[t].at]
    BY <1>7, Turns, FirstAndAt DEF Check, Turn
  <2>2. k + 1 \in 1..(n + 1) /\ op'[t].at = f[k + 1]
    BY <1>3, <1>4, <2>1
  <2>. QED
    BY <1>1, <1>2, <2>1, <2>2 DEF Owner
<1>8. ASSUME Checked(t) PROVE Owner(op'[t], f, n, next, prev')
  <2>1. op'[t].do = "checked"
    BY <1>8, Turns DEF Turn
  <2>. QED
    BY <1>1, <1>2, <2>1 DEF Owner
<1>9. Linked' = Linked
  BY <1>1, LinkedStays DEF Outside
<1>10. \A u \in Thread : op'[u].do \in {"insert", "link", "publish"} => prev'[op'[u].rec] = Root
  BY <1>0, <1>1 DEF RingOK, OthersStay
<1>. QED
  BY <1>1, <1>5, <1>6, <1>7, <1>8, <1>9, <1>10, Owns DEF Locking

LEMMA RingBypass ==
  ASSUME SharedInv, NEW t \in Thread, OthersStay(t), NEW n, NEW f, ChainAt(f, n), Bypass(t)
  PROVE  LockOK' /\ RingOK'
<1>0. /\ Typed /\ LockOK /\ RingOK /\ n \in Nat /\ Owner(op[t], f, n, next, prev)
      /\ f \in [0..(n + 1) -> Node] /\ IsFiniteSet(Linked) /\ n = Cardinality(Linked)
  BY DEF SharedInv, ChainAt
<1>r. PICK r : r = op[t].rec
  OBVIOUS
<1>1. /\ op[t].do = "bypass" /\ op'[t].do = "erased" /\ op'[t].rec = r
      /\ memory' = memory /\ prev' = prev
      /\ op'[t].first = IF IsFirst(t) THEN next[r] ELSE op[t].first
  BY <1>r, Turns, FirstAndAt DEF Turn, Bypass
<1>2. r \in Linked /\ r \in Record /\ op[t].first = f[1]
  <2>1. op[t].rec \in Linked /\ op[t].rec \in Record
    BY <1>1, InHand DEF Dying, Outside
  <2>. QED
    BY <1>0, <1>1, <1>r, <2>1 DEF Owner, Locking
<1>3. PICK k \in 1..n : f[k] = r /\ prev[f[k + 1]] = f[k - 1] /\ Back(f, (0..n) \ {k}, prev)
  BY <1>0, <1>1, <1>r DEF Owner
<1>k. k \in Nat /\ 1 <= k /\ k <= n
  BY <1>0
<1>4. next[r] = f[k + 1] /\ (IsFirst(t) <=> k = 1)
  <2>1. 1 \in 1..(n + 1) /\ k \in 1..(n + 1)
    BY <1>0, <1>k
  <2>. QED
    BY <1>2, <1>3, <1>r, <2>1, ChainFacts DEF IsFirst
<1>5. /\ next'[Root] = next[Root]
      /\ k # 1 => next'[f[k - 1]] = f[k + 1]
      /\ \A x \in Linked : (k = 1 \/ x # f[k - 1]) => next'[x] = next[x]
  <2>1. CASE k = 1
    <3>1. next' = next
      BY <1>4, <2>1 DEF Bypass
    <3>. QED
      BY <2>1, <3>1
  <2>2. CASE k # 1
    <3>1. k - 1 \in 1..n /\ (k - 1) + 1 = k /\ k - 1 \in (0..n) \ {k}
      BY <1>0, <1>k, <2>2
    <3>2. prev[r] = f[k - 1] /\ f[k - 1] \in Linked /\ f[k - 1] # Root /\ f[k - 1] \in Node
      BY <1>3, <3>1, ChainFacts, NodeFacts DEF Back
    <3>3. next' = [next EXCEPT ![f[k - 1]] = f[k + 1]]
      BY <1>4, <1>r, <2>2, <3>2 DEF Bypass, Put
    <3>. QED
      BY <1>0, <2>2, <3>2, <3>3, NodeFacts DEF Typed
  <2>. QED
    BY <2>1, <2>2
<1>. DEFINE S == Linked \ {r}
<1>. DEFINE m == n - 1
<1>. DEFINE g == [i \in 0..(m + 1) |-> IF i < k THEN f[i] ELSE f[i + 1]]
<1>6. Linked' = S
  <2>1. ASSUME NEW x \in Record PROVE x \in Linked' <=> x \in S
    <3>1. (\E u \in Thread : op'[u].do \in Outside /\ op'[u].rec = x)
            <=> x = r \/ (\E u \in Thread : op[u].do \in Outside /\ op[u].rec = x)
      BY <1>1, <1>r DEF OthersStay, Outside
    <3>. QED
      BY <1>1, <1>2, <3>1 DEF Linked, Passing, Outside
  <2>. QED
    BY <2>1 DEF Linked
<1>7. IsFiniteSet(S) /\ Cardinality(S) = m /\ m \in Nat
  <2>1. IsFiniteSet(S) /\ Cardinality(S) = Cardinality(Linked) - 1
    BY <1>0, <1>2, FS_RemoveElement
  <2>. QED
    BY <1>0, <1>k, <2>1
<1>8. /\ g \in [0..(m + 1) -> Node]
      /\ \A i \in 0..(m + 1) : g[i] = IF i < k THEN f[i] ELSE f[i + 1]
  BY <1>0, <1>k
<1>. HIDE DEF S, m, g
<1>m. m \in Nat /\ n = m + 1 /\ m = n - 1
  BY <1>0, <1>7 DEF m
<1>9. Lists(g, m, S, next')
  <2>1. g[0] = Root /\ g[m + 1] = Root
    <3>1. 0 \in 0..(m + 1) /\ 0 < k /\ m + 1 \in 0..(m + 1) /\ ~(m + 1 < k) /\ (m + 1) + 1 = n + 1
      BY <1>k, <1>m
    <3>. QED
      BY <1>8, <3>1, ChainFacts
  <2>2. ASSUME NEW i \in 1..m PROVE g[i] \in S /\ next'[g[i]] = g[i + 1]
    <3>0. /\ i \in 0..(m + 1) /\ i + 1 \in 0..(m + 1) /\ i \in 1..n /\ i + 1 \in 1..n
          /\ k \in 1..(n + 1) /\ i \in 1..(n + 1) /\ i + 1 \in 1..(n + 1) /\ i \in Nat
      BY <1>k, <1>m
    <3>1. CASE i + 1 < k
      <4>1. i < k /\ i # k /\ i # k - 1 /\ k - 1 \in 1..(n + 1) /\ k # 1
        BY <1>0, <1>k, <3>0, <3>1
      <4>2. g[i] = f[i] /\ g[i + 1] = f[i + 1]
        BY <1>8, <3>0, <3>1, <4>1
      <4>3. f[i] \in Linked /\ f[i] # f[k] /\ f[i] # f[k - 1] /\ next[f[i]] = f[i + 1]
        BY <3>0, <4>1, ChainFacts
      <4>. QED
        BY <1>3, <1>5, <4>2, <4>3 DEF S
    <3>2. CASE i + 1 = k
      <4>1. i < k /\ i # k /\ i = k - 1 /\ k # 1 /\ ~(i + 1 < k) /\ (i + 1) + 1 = k + 1
        BY <1>k, <3>0, <3>2
      <4>2. g[i] = f[i] /\ g[i + 1] = f[k + 1]
        BY <1>8, <3>0, <4>1
      <4>3. f[i] \in Linked /\ f[i] # f[k]
        BY <3>0, <4>1, ChainFacts
      <4>. QED
        BY <1>3, <1>5, <4>1, <4>2, <4>3 DEF S
    <3>3. CASE i >= k
      <4>1. ~(i < k) /\ i + 1 # k /\ ~(i + 1 < k)
        BY <1>k, <3>0, <3>3
      <4>2. g[i] = f[i + 1] /\ g[i + 1] = f[(i + 1) + 1]
        BY <1>8, <3>0, <4>1
      <4>3. f[i + 1] \in Linked /\ f[i + 1] # f[k] /\ next[f[i + 1]] = f[(i + 1) + 1]
        BY <3>0, <4>1, ChainFacts
      <4>4. k # 1 => f[i + 1] # f[k - 1]
        <5>1. k # 1 => k - 1 \in 1..(n + 1) /\ k - 1 # i + 1
          BY <1>0, <1>k, <3>0, <3>3
        <5>. QED
          BY <3>0, <5>1, ChainFacts
      <4>. QED
        BY <1>3, <1>5, <4>2, <4>3, <4>4 DEF S
    <3>. QED
      BY <1>k, <3>0, <3>1, <3>2, <3>3
  <2>3. ASSUME NEW x \in S PROVE \E i \in 1..m : g[i] = x
    <3>1. PICK j \in 1..n : f[j] = x
      BY ChainFacts DEF S
    <3>2. j # k
      BY <1>3, <3>1 DEF S
    <3>3. CASE j < k
      <4>1. j \in 1..m /\ j \in 0..(m + 1)
        BY <1>k, <1>m, <3>3
      <4>. QED
        BY <1>8, <3>1, <3>3, <4>1
    <3>4. CASE j > k
      <4>1. j - 1 \in 1..m /\ j - 1 \in 0..(m + 1) /\ ~(j - 1 < k) /\ (j - 1) + 1 = j
        BY <1>k, <1>m, <3>4
      <4>2. g[j - 1] = f[j]
        BY <1>8, <4>1
      <4>. QED
        BY <3>1, <4>1, <4>2
    <3>. QED
      BY <1>k, <1>m, <3>2, <3>3, <3>4
  <2>4. ASSUME NEW i \in 1..m, NEW j \in 1..m, g[i] = g[j] PROVE i = j
    <3>1. ASSUME NEW x \in 1..m
          PROVE  \E a \in 1..(n + 1) : g[x] = f[a] /\ a = IF x < k THEN x ELSE x + 1
      BY <1>8, <1>k, <1>m
    <3>2. PICK a \in 1..(n + 1) : g[i] = f[a] /\ a = IF i < k THEN i ELSE i + 1
      BY <3>1
    <3>3. PICK b \in 1..(n + 1) : g[j] = f[b] /\ b = IF j < k THEN j ELSE j + 1
      BY <3>1
    <3>4. a = b
      <4>1. f[a] = f[b]
        BY <2>4, <3>2, <3>3
      <4>2. \A c, d \in 1..(n + 1) : f[c] = f[d] => c = d
        BY ChainFacts
      <4>. QED
        BY <4>1, <4>2
    <3>. QED
      BY <1>k, <3>2, <3>3, <3>4
  <2>. QED
    BY <2>1, <2>2, <2>3, <2>4 DEF Lists
<1>10. Back(g, 0..m, prev)
  <2>1. ASSUME NEW i \in 0..m PROVE prev[g[i + 1]] = g[i]
    <3>0. i \in 0..(m + 1) /\ i + 1 \in 0..(m + 1) /\ i \in 0..n /\ i + 1 \in 0..n /\ i \in Nat
      BY <1>m
    <3>1. CASE i + 1 < k
      <4>1. i < k /\ i \in (0..n) \ {k}
        BY <1>0, <1>k, <3>0, <3>1
      <4>2. g[i] = f[i] /\ g[i + 1] = f[i + 1]
        BY <1>8, <3>0, <3>1, <4>1
      <4>. QED
        BY <1>3, <4>1, <4>2 DEF Back
    <3>2. CASE i + 1 = k
      <4>1. i < k /\ ~(i + 1 < k) /\ i = k - 1 /\ (i + 1) + 1 = k + 1
        BY <1>k, <3>0, <3>2
      <4>2. g[i] = f[i] /\ g[i + 1] = f[k + 1]
        BY <1>8, <3>0, <4>1
      <4>. QED
        BY <1>3, <4>1, <4>2
    <3>3. CASE i >= k
      <4>1. ~(i < k) /\ ~(i + 1 < k) /\ i + 1 \in (0..n) \ {k}
        BY <1>k, <3>0, <3>3
      <4>2. g[i] = f[i + 1] /\ g[i + 1] = f[(i + 1) + 1]
        BY <1>8, <3>0, <4>1
      <4>. QED
        BY <1>3, <4>1, <4>2 DEF Back
    <3>. QED
      BY <1>k, <3>0, <3>1, <3>2, <3>3
  <2>. QED
    BY <2>1 DEF Back
<1>11. op'[t].first = g[1]
  <2>1. 1 \in 0..(m + 1) /\ (1 < k <=> k # 1) /\ (k = 1 => k + 1 = 1 + 1)
    BY <1>k, <1>m
  <2>. QED
    BY <1>1, <1>2, <1>4, <1>8, <2>1
<1>12. next[Root] = Null /\ \A u \in Thread \ {t} : op[u].do \notin Locking
  BY <1>0, <1>1, OwnerFindsNull DEF Locking
<1>13. ASSUME NEW u \in Thread PROVE Owner(op'[u], g, m, next', prev')
  <2>1. CASE u = t
    BY <1>1, <1>10, <1>11, <2>1 DEF Owner
  <2>2. CASE u # t
    BY <1>12, <2>2, NotOwner DEF OthersStay
  <2>. QED
    BY <2>1, <2>2
<1>14. LockOK'
  BY <1>1, <1>5, <1>12 DEF LockOK, OthersStay, Locking
<1>15. \A u \in Thread : op'[u].do \in {"insert", "link", "publish"} => prev'[op'[u].rec] = Root
  BY <1>0, <1>1 DEF RingOK, OthersStay
<1>. QED
  BY <1>5, <1>6, <1>7, <1>8, <1>9, <1>12, <1>13, <1>14, <1>15, RingIntro

LEMMA RingErased ==
  ASSUME SharedInv, NEW t \in Thread, OthersStay(t), NEW n, NEW f, ChainAt(f, n),
         Erased(t) \/ TraverseEnds(t, "found") \/ TraverseEnds(t, "checked")
  PROVE  LockOK' /\ RingOK'
<1>0. /\ Typed /\ n \in Nat /\ Owner(op[t], f, n, next, prev)
      /\ f \in [0..(n + 1) -> Node] /\ IsFiniteSet(Linked) /\ n = Cardinality(Linked)
  BY DEF SharedInv, ChainAt
<1>1. /\ op[t].do \in {"erased", "found", "checked"} /\ op'[t].do \in {"dealloc", "idle"}
      /\ op[t].do = "erased" <=> op'[t].do = "dealloc"
      /\ op[t].do = "erased" => op'[t].rec = op[t].rec
      /\ memory' = memory /\ prev' = prev /\ next' = [next EXCEPT ![Root] = op[t].first]
  <2>1. CASE Erased(t)
    BY <2>1, Turns DEF Turn, Erased, Unlocks, Put
  <2>2. CASE TraverseEnds(t, "found") \/ TraverseEnds(t, "checked")
    BY <2>2, OtherTurns DEF Idle
  <2>. QED
    BY <2>1, <2>2
<1>2. Back(f, 0..n, prev) /\ op[t].first = f[1]
  BY <1>0, <1>1 DEF Owner, Locking
<1>3. next'[Root] = f[1] /\ \A x \in Linked : next'[x] = next[x]
  BY <1>0, <1>1, <1>2, NodeFacts DEF Typed
<1>4. Linked' = Linked
  BY <1>1, LinkedStays DEF Outside
<1>5. Lists(f, n, Linked, next')
  BY <1>3, ListFramed
<1>. QED
  BY <1>0, <1>1, <1>2, <1>3, <1>4, <1>5, Releases DEF Locking

LEMMA RingPublish ==
  ASSUME SharedInv, NEW t \in Thread, OthersStay(t), NEW n, NEW f, ChainAt(f, n), Publish(t)
  PROVE  LockOK' /\ RingOK'
<1>0. /\ Typed /\ OwnOK /\ RingOK /\ n \in Nat /\ Owner(op[t], f, n, next, prev)
      /\ f \in [0..(n + 1) -> Node] /\ IsFiniteSet(Linked) /\ n = Cardinality(Linked)
  BY DEF SharedInv, ChainAt
<1>r. PICK r : r = op[t].rec
  OBVIOUS
<1>1. /\ op[t].do = "publish" /\ op'[t].do = "assign" /\ memory' = memory /\ prev' = prev
      /\ next' = [next EXCEPT ![Root] = r]
  BY <1>r, Turns DEF Turn, Publish, Unlocks, Put
<1>2. /\ r \in Record /\ r \notin Linked /\ r # Root
      /\ next[r] = f[1] /\ prev[r] = Root /\ prev[f[1]] = r /\ Back(f, 1..n, prev)
  <2>1. op[t].rec \in Record /\ op[t].rec \notin Linked
    BY <1>1, InHand DEF Born, Outside
  <2>2. prev[op[t].rec] = Root
    BY <1>0, <1>1 DEF RingOK
  <2>. QED
    BY <1>0, <1>1, <1>r, <2>1, <2>2, NodeFacts DEF Owner
<1>3. next'[Root] = r /\ \A x \in Record : next'[x] = next[x]
  BY <1>0, <1>1, NodeFacts DEF Typed
<1>. DEFINE S == Linked \cup {r}
<1>. DEFINE m == n + 1
<1>. DEFINE g == [i \in 0..(m + 1) |-> IF i = 0 THEN Root ELSE IF i = 1 THEN r ELSE f[i - 1]]
<1>4. Linked' = S
  <2>1. ASSUME NEW x \in Record PROVE x \in Linked' <=> x \in S
    <3>0. memory[r] = "live" /\ (\A u \in Thread \ {t} : op[u].do \in Outside => op[u].rec # r)
      BY <1>0, <1>1, <1>r, InHand DEF OwnOK, Born, Dying, Outside
    <3>1. (\E u \in Thread : op'[u].do \in Outside /\ op'[u].rec = x)
            <=> x # r /\ (\E u \in Thread : op[u].do \in Outside /\ op[u].rec = x)
      BY <1>1, <1>r, <3>0 DEF OthersStay, Outside
    <3>. QED
      BY <1>1, <3>0, <3>1 DEF Linked, Passing, Outside
  <2>. QED
    BY <1>2, <2>1 DEF Linked
<1>5. IsFiniteSet(S) /\ Cardinality(S) = m /\ m \in Nat
  <2>1. IsFiniteSet(S) /\ Cardinality(S) = Cardinality(Linked) + 1
    BY <1>0, <1>2, FS_AddElement
  <2>. QED
    BY <1>0, <2>1
<1>6. /\ g \in [0..(m + 1) -> Node]
      /\ g[0] = Root /\ g[1] = r /\ \A i \in 2..(m + 1) : g[i] = f[i - 1]
  BY <1>0, <1>2, NodeFacts
<1>. HIDE DEF S, m, g
<1>m. m \in Nat /\ m = n + 1 /\ n = m - 1
  BY <1>0 DEF m
<1>7. Lists(g, m, S, next')
  <2>1. g[0] = Root /\ g[m + 1] = Root
    <3>1. m + 1 \in 2..(m + 1) /\ (m + 1) - 1 = n + 1
      BY <1>0, <1>m
    <3>. QED
      BY <1>6, <3>1, ChainFacts
  <2>2. ASSUME NEW i \in 1..m PROVE g[i] \in S /\ next'[g[i]] = g[i + 1]
    <3>1. CASE i = 1
      <4>1. 2 \in 2..(m + 1) /\ 2 - 1 = 1 /\ i + 1 = 2
        BY <1>0, <1>m, <3>1
      <4>. QED
        BY <1>2, <1>3, <1>6, <3>1, <4>1 DEF S
    <3>2. CASE i # 1
      <4>1. /\ i \in 2..(m + 1) /\ i + 1 \in 2..(m + 1) /\ i - 1 \in 1..n
            /\ (i + 1) - 1 = (i - 1) + 1
        BY <1>0, <1>m, <3>2
      <4>2. f[i - 1] \in Linked /\ next[f[i - 1]] = f[(i - 1) + 1]
        BY <4>1, ChainFacts
      <4>. QED
        BY <1>3, <1>6, <4>1, <4>2, NodeFacts DEF S
    <3>. QED
      BY <3>1, <3>2
  <2>3. ASSUME NEW x \in S PROVE \E i \in 1..m : g[i] = x
    <3>1. CASE x = r
      BY <1>0, <1>6, <1>m, <3>1
    <3>2. CASE x # r
      <4>1. PICK j \in 1..n : f[j] = x
        BY <3>2, ChainFacts DEF S
      <4>2. j + 1 \in 2..(m + 1) /\ j + 1 \in 1..m /\ (j + 1) - 1 = j
        BY <1>0, <1>m
      <4>3. g[j + 1] = f[j]
        BY <1>6, <4>2
      <4>. QED
        BY <4>1, <4>2, <4>3
    <3>. QED
      BY <3>1, <3>2
  <2>4. ASSUME NEW i \in 1..m, NEW j \in 1..m, g[i] = g[j] PROVE i = j
    <3>1. ASSUME NEW x \in 1..m, x # 1
          PROVE  x - 1 \in 1..n /\ x - 1 \in 1..(n + 1) /\ g[x] = f[x - 1] /\ g[x] # r
      <4>1. x \in 2..(m + 1) /\ x - 1 \in 1..n /\ x - 1 \in 1..(n + 1)
        BY <1>0, <1>m, <3>1
      <4>2. f[x - 1] \in Linked
        BY <4>1, ChainFacts
      <4>. QED
        BY <1>2, <1>6, <4>1, <4>2
    <3>2. i = 1 <=> j = 1
      BY <1>6, <2>4, <3>1
    <3>3. CASE i # 1
      <4>1. f[i - 1] = f[j - 1] /\ i - 1 \in 1..(n + 1) /\ j - 1 \in 1..(n + 1)
        BY <2>4, <3>1, <3>2, <3>3
      <4>2. i - 1 = j - 1
        BY <4>1, ChainFacts
      <4>. QED
        BY <4>2
    <3>. QED
      BY <3>2, <3>3
  <2>. QED
    BY <2>1, <2>2, <2>3, <2>4 DEF Lists
<1>8. Back(g, 0..m, prev)
  <2>1. ASSUME NEW i \in 0..m PROVE prev[g[i + 1]] = g[i]
    <3>1. CASE i = 0
      BY <1>2, <1>6, <3>1
    <3>2. CASE i = 1
      <4>1. 2 \in 2..(m + 1) /\ 2 - 1 = 1 /\ i + 1 = 2
        BY <1>0, <1>m, <3>2
      <4>. QED
        BY <1>2, <1>6, <3>2, <4>1
    <3>3. CASE i > 1
      <4>1. /\ i \in 2..(m + 1) /\ i + 1 \in 2..(m + 1) /\ i - 1 \in 1..n
            /\ (i + 1) - 1 = (i - 1) + 1
        BY <1>0, <1>m, <3>3
      <4>. QED
        BY <1>2, <1>6, <4>1 DEF Back
    <3>. QED
      BY <1>m, <3>1, <3>2, <3>3
  <2>. QED
    BY <2>1 DEF Back
<1>. QED
  BY <1>1, <1>3, <1>4, <1>5, <1>6, <1>7, <1>8, Releases DEF Locking

LEMMA RingKept ==
  ASSUME SharedInv, NEW t \in Thread, Begins(t) \/ Goes(t)
  PROVE  LockOK' /\ RingOK'
<1>1. OthersStay(t)
  BY OpTyped
<1>2. PICK n : \E f : ChainAt(f, n)
  BY Chain DEF SharedInv
<1>3. PICK f : ChainAt(f, n)
  BY <1>2
<1>4. CASE AssignAllocated(t) \/ AssignCopies(t) \/ Copy(t) \/ Drop(t) \/ Assign(t)
  <2>1. \/ \E r \in Record : Takes(t, r)
        \/ \E r \in Record, s \in Record \cup {Null} : Lets(t, r, s)
    BY <1>4, TakingSteps, LettingSteps DEF Spares
  <2>. QED
    BY <1>1, <1>3, <2>1, RingTaking
<1>5. CASE \/ Find(t) \/ IsSane(t) \/ Launch(t)
           \/ Claim(t) \/ Capture(t) \/ Release(t) \/ LaunchEnds(t)
  BY <1>1, <1>3, <1>5, RingAside
<1>6. CASE Allocate(t) \/ Deallocate(t)
  BY <1>1, <1>3, <1>6, RingAllocate, RingDeallocate
<1>7. CASE Insert(t) \/ Erase(t) \/ Traverse(t, "find", "walk") \/ Traverse(t, "sane", "check")
  BY <1>1, <1>3, <1>7, RingLocks
<1>8. CASE Link(t) \/ Unlink(t) \/ Bypass(t)
  BY <1>1, <1>3, <1>8, RingLink, RingUnlink, RingBypass
<1>9. CASE Walk(t) \/ Found(t) \/ Check(t) \/ Checked(t)
  BY <1>1, <1>3, <1>9, RingWalks
<1>10. CASE Erased(t) \/ TraverseEnds(t, "found") \/ TraverseEnds(t, "checked") \/ Publish(t)
  BY <1>1, <1>3, <1>10, RingErased, RingPublish
<1>11. ~TraverseEnds(t, "insane")
  BY OtherTurns
<1>. QED
  BY <1>4, <1>5, <1>6, <1>7, <1>8, <1>9, <1>10, <1>11 DEF Begins, Goes
-----------------------------------------------------------------------------
(* The invariant holds                                                     *)

LEMMA SharedInit ==
  ASSUME Init
  PROVE  SharedInv
<1>1. /\ next[Root] = Root /\ prev = next /\ \A t \in Thread : op[t] = Idle
      /\ \A t \in Thread : bare[t] = {} /\ \A r \in Record : held[t][r] = 0
  BY DEF Init, Each, Node
<1>2. Typed
  BY DEF Init, Each, Typed, Frame, Idle, Steps, Node
<1>3. OwnOK /\ ThenOK /\ TrackOK
  BY <1>1 DEF OwnOK, ThenOK, TrackOK, Idle, Born, Dying, Finding
<1>4. CountOK
  <2>1. ASSUME NEW r \in Record PROVE Tokens(held, r) = {} /\ count[r] = 0
    BY <1>1 DEF Tokens, Init
  <2>. QED
    BY <2>1, FS_EmptySet DEF CountOK
<1>5. LockOK
  BY <1>1, NodeFacts DEF LockOK, Idle, Locking
<1>6. RingOK
  <2>1. Linked = {} /\ IsFiniteSet(Linked) /\ Cardinality(Linked) = 0
    <3>1. Linked = {}
      BY DEF Linked, Init
    <3>. QED
      BY <3>1, FS_EmptySet
  <2>. DEFINE f == [i \in 0..1 |-> Root]
  <2>2. f \in [0..(0 + 1) -> Node] /\ f[0] = Root /\ f[1] = Root
    BY NodeFacts
  <2>. HIDE DEF f
  <2>3. Lists(f, 0, {}, next) /\ Back(f, 0..0, prev)
    BY <1>1, <2>2 DEF Lists, Back
  <2>4. \A t \in Thread : Owner(op[t], f, 0, next, prev)
    BY <1>1, NotOwner DEF Idle, Locking
  <2>5. Listed(f)
    BY <1>1, <2>1, <2>2, <2>3, <2>4 DEF Listed
  <2>6. f \in [0..(Cardinality(Linked) + 1) -> Node]
    BY <2>1, <2>2
  <2>. QED
    BY <1>1, <2>1, <2>5, <2>6 DEF RingOK, Idle
<1>. QED
  BY <1>2, <1>3, <1>4, <1>5, <1>6 DEF SharedInv

LEMMA SharedKept ==
  ASSUME SharedInv, [Next]_vars
  PROVE  SharedInv'
<1>1. ASSUME NEW t \in Thread, Begins(t) \/ Goes(t) PROVE SharedInv'
  <2>1. Sorted(t) /\ OthersStay(t) /\ op' \in [Thread -> Frame]
    BY <1>1, StepsSorted, OpTyped
  <2>2. Typed'
    BY <1>1, TypesKept
  <2>3. OwnOK' /\ ThenOK' /\ CountOK'
    BY <2>1, OwnKept, ThenKept, CountKept
  <2>4. TrackOK'
    BY <1>1, <2>1, TrackKept, OthersKeepTheirs
  <2>5. LockOK' /\ RingOK'
    BY <1>1, RingKept
  <2>. QED
    BY <2>2, <2>3, <2>4, <2>5 DEF SharedInv
<1>2. CASE UNCHANGED vars
  <2>1. /\ UNCHANGED <<next, prev, count, memory, tracking, op, held, bare, calls>>
    BY <1>2 DEF vars, ring
  <2>2. Typed'
    BY <2>1 DEF SharedInv, Typed
  <2>3. OwnOK' /\ ThenOK' /\ CountOK' /\ TrackOK' /\ LockOK'
    BY <2>1 DEF SharedInv, OwnOK, ThenOK, CountOK, TrackOK, LockOK
  <2>4. Linked' = Linked
    BY <2>1 DEF Linked, Passing
  <2>5. RingOK'
    BY <2>1, <2>4 DEF SharedInv, RingOK, Listed, LockIsFree
  <2>. QED
    BY <2>2, <2>3, <2>5 DEF SharedInv
<1>. QED
  BY <1>1, <1>2 DEF Next

(* In every state the records are owned, counted and linked as they must   *)
(* be: the inductive invariant of the shared allocations.                  *)
THEOREM SharedInvariant == Spec => []SharedInv
<1>1. Init => SharedInv
  BY SharedInit
<1>2. SharedInv /\ [Next]_vars => SharedInv'
  BY SharedKept
<1>. QED
  BY <1>1, <1>2, PTL DEF Spec
-----------------------------------------------------------------------------
(* What it means                                                           *)

(* The counts that are possible                                            *)
LEMMA CountsBounded ==
  ASSUME Typed, CountOK, NEW r \in Record
  PROVE  count[r] \in 0..(MaxRefs * Cardinality(Thread))
<1>1. /\ IsFiniteSet(Thread \X (1..MaxRefs))
      /\ Cardinality(Thread \X (1..MaxRefs)) = Cardinality(Thread) * Cardinality(1..MaxRefs)
      /\ Cardinality(1..MaxRefs) = MaxRefs /\ Cardinality(Thread) \in Nat
  <2>1. IsFiniteSet(1..MaxRefs) /\ Cardinality(1..MaxRefs) = MaxRefs
    BY FS_Interval
  <2>. QED
    BY <2>1, FS_Product, FS_CardinalityType
<1>2. Cardinality(Tokens(held, r)) <= Cardinality(Thread \X (1..MaxRefs))
  BY <1>1, FS_Subset DEF Tokens
<1>3. Cardinality(Thread) * MaxRefs = MaxRefs * Cardinality(Thread)
  BY <1>1
<1>. QED
  BY <1>1, <1>2, <1>3, Counted DEF CountOK

LEMMA TypesHold ==
  ASSUME SharedInv
  PROVE  TypeOK
<1>1. Typed /\ CountOK
  BY DEF SharedInv
<1>2. count \in [Record -> 0..(MaxRefs * Cardinality(Thread))]
  BY <1>1, CountsBounded DEF Typed
<1>3. op \in [Thread -> [do : Steps, rec : Record \cup {Null}, first : Node \cup {Null},
                          at : Node \cup {Null}, then : Record \cup {Null}]]
  BY <1>1 DEF Typed, Frame
<1>. QED
  BY <1>1, <1>2, <1>3 DEF Typed, TypeOK

(* A set of numbers has a least element, from which induction follows.     *)
LEMMA Least ==
  ASSUME NEW S \in SUBSET Nat, S # {}
  PROVE  \E m \in S : \A k \in S : m <= k
<1>. DEFINE Upto == {0..k : k \in S}
<1>1. Upto \subseteq FiniteSubsetsOf(Nat) /\ Upto # {}
  <2>1. ASSUME NEW k \in S PROVE 0..k \in FiniteSubsetsOf(Nat)
    BY FS_Interval DEF FiniteSubsetsOf
  <2>. QED
    BY <2>1
<1>2. PICK x \in Upto : \A y \in Upto : <<y, x>> \notin StrictSubsetOrdering(Nat)
  <2>. HIDE DEF Upto
  <2>. QED
    BY <1>1, FS_StrictSubsetOrderingWellFounded, WFMin
<1>3. PICK m \in S : x = 0..m
  OBVIOUS
<1>4. ASSUME NEW k \in S PROVE m <= k
  <2>1. SUFFICES ASSUME k < m PROVE FALSE
    OBVIOUS
  <2>2. 0..k \subseteq 0..m /\ 0..k # 0..m
    <3>1. m \in 0..m /\ m \notin 0..k
      BY <2>1
    <3>. QED
      BY <2>1, <3>1
  <2>3. <<0..k, 0..m>> \in StrictSubsetOrdering(Nat)
    BY <2>2 DEF StrictSubsetOrdering
  <2>. QED
    BY <1>2, <1>3, <2>3
<1>. QED
  BY <1>4

LEMMA UpTo ==
  ASSUME NEW n \in Nat, NEW S, 0 \in S, \A i \in 0..(n - 1) : i \in S => i + 1 \in S
  PROVE  0..n \subseteq S
<1>1. SUFFICES ASSUME (0..n) \ S # {} PROVE FALSE
  OBVIOUS
<1>2. PICK m \in (0..n) \ S : \A k \in (0..n) \ S : m <= k
  <2>1. (0..n) \ S \in SUBSET Nat
    OBVIOUS
  <2>. QED
    BY <1>1, <2>1, Least
<1>3. m - 1 \in 0..(n - 1) /\ m - 1 \in 0..n /\ ~(m <= m - 1) /\ (m - 1) + 1 = m
  BY <1>2
<1>. QED
  BY <1>2, <1>3

(* The nodes that next leads to, one after the other, are the list.        *)
Follows(g, n, nxt) ==
  g = [i \in 0..n + 1 |->
         IF i = 0 THEN Root ELSE IF g[i - 1] = Null THEN Null ELSE nxt[g[i - 1]]]

LEMMA FollowsAt ==
  ASSUME NEW g, NEW n \in Nat, NEW nxt, Follows(g, n, nxt), NEW i \in 0..(n + 1)
  PROVE  g[i] = IF i = 0 THEN Root ELSE IF g[i - 1] = Null THEN Null ELSE nxt[g[i - 1]]
<1>. DEFINE F(x) == IF x = 0 THEN Root ELSE IF g[x - 1] = Null THEN Null ELSE nxt[g[x - 1]]
<1>1. g = [x \in 0..n + 1 |-> F(x)]
  BY DEF Follows
<1>. HIDE DEF F
<1>2. g[i] = F(i)
  BY <1>1
<1>. QED
  BY <1>2 DEF F

LEMMA NextLists ==
  ASSUME NEW n \in Nat, NEW f \in [0..(n + 1) -> Node], f[0] = Root, NEW nxt,
         \A i \in 0..n : nxt[f[i]] = f[i + 1]
  PROVE  /\ Follows(f, n, nxt)
         /\ \A g : Follows(g, n, nxt) => \A i \in 0..(n + 1) : g[i] = f[i]
<1>1. ASSUME NEW i \in 0..(n + 1)
      PROVE  f[i] = IF i = 0 THEN Root ELSE IF f[i - 1] = Null THEN Null ELSE nxt[f[i - 1]]
  <2>1. CASE i # 0
    <3>1. i - 1 \in 0..n /\ (i - 1) + 1 = i /\ i - 1 \in 0..(n + 1)
      BY <2>1
    <3>2. f[i - 1] # Null
      BY <3>1, NodeFacts
    <3>. QED
      BY <2>1, <3>1, <3>2
  <2>. QED
    BY <2>1
<1>2. Follows(f, n, nxt)
  BY <1>1 DEF Follows
<1>3. ASSUME NEW g, Follows(g, n, nxt) PROVE \A i \in 0..(n + 1) : g[i] = f[i]
  <2>. DEFINE S == {i \in 0..(n + 1) : g[i] = f[i]}
  <2>1. 0 \in S
    BY <1>3, FollowsAt
  <2>2. ASSUME NEW i \in 0..((n + 1) - 1), i \in S PROVE i + 1 \in S
    <3>1. i + 1 \in 0..(n + 1) /\ i + 1 # 0 /\ (i + 1) - 1 = i /\ i \in 0..n
      OBVIOUS
    <3>2. g[i + 1] = IF g[i] = Null THEN Null ELSE nxt[g[i]]
      BY <1>3, <3>1, FollowsAt
    <3>3. g[i] = f[i] /\ f[i] # Null
      BY <2>2, NodeFacts
    <3>. QED
      BY <3>1, <3>2, <3>3
  <2>3. 0..(n + 1) \subseteq S
    <3>. HIDE DEF S
    <3>1. n + 1 \in Nat
      OBVIOUS
    <3>. QED
      BY <2>1, <2>2, <3>1, UpTo
  <2>. QED
    BY <2>3
<1>. QED
  BY <1>2, <1>3

LEMMA RingSound ==
  ASSUME SharedInv
  PROVE  RingIsSound
<1>0. LockOK /\ RingOK
  BY DEF SharedInv
<1>1. SUFFICES ASSUME LockIsFree
      PROVE  LET n == Cardinality(InRing)
                 node[i \in 0..n + 1] ==
                   IF i = 0 THEN Root ELSE IF node[i - 1] = Null THEN Null ELSE next[node[i - 1]]
             IN  /\ {node[i] : i \in 1..n} = InRing /\ node[n + 1] = Root
                 /\ \A i \in 0..n : prev[node[i + 1]] = node[i]
  BY DEF RingIsSound
<1>2. InRing = Linked
  BY <1>0, <1>1 DEF LockOK, LockIsFree, InRing, Linked, Passing, Locking
<1>3. PICK n : \E f : ChainAt(f, n)
  BY <1>0, Chain
<1>4. PICK f : ChainAt(f, n)
  BY <1>3
<1>5. /\ n \in Nat /\ n = Cardinality(InRing) /\ f \in [0..(n + 1) -> Node]
      /\ f[0] = Root /\ f[n + 1] = Root /\ f[1] = next[Root] /\ Back(f, 0..n, prev)
  BY <1>1, <1>2, <1>4, ChainFacts DEF ChainAt, LockIsFree
<1>6. \A i \in 0..n : next[f[i]] = f[i + 1]
  <2>1. ASSUME NEW i \in 0..n PROVE next[f[i]] = f[i + 1]
    <3>1. i = 0 \/ i \in 1..n
      BY <1>5
    <3>. QED
      BY <1>4, <1>5, <3>1, ChainFacts
  <2>. QED
    BY <2>1
<1>7. {f[i] : i \in 1..n} = Linked
  BY <1>4, ChainFacts
<1>. DEFINE node[i \in 0..n + 1] ==
       IF i = 0 THEN Root ELSE IF node[i - 1] = Null THEN Null ELSE next[node[i - 1]]
<1>8. \A i \in 0..(n + 1) : node[i] = f[i]
  <2>1. node = CHOOSE g : Follows(g, n, next)
    BY <1>5 DEF Follows
  <2>. HIDE DEF node
  <2>2. Follows(node, n, next)
    BY <1>5, <1>6, <2>1, NextLists
  <2>. QED
    BY <1>5, <1>6, <2>2, NextLists
<1>. HIDE DEF node
<1>9. {node[i] : i \in 1..n} = InRing
  <2>1. {node[i] : i \in 1..n} = {f[i] : i \in 1..n}
    BY <1>5, <1>8
  <2>. QED
    BY <1>2, <1>7, <2>1
<1>10. node[n + 1] = Root /\ \A i \in 0..n : prev[node[i + 1]] = node[i]
  <2>1. n + 1 \in 0..(n + 1) /\ \A i \in 0..n : i \in 0..(n + 1) /\ i + 1 \in 0..(n + 1)
    BY <1>5
  <2>. QED
    BY <1>5, <1>8, <2>1 DEF Back
<1>. QED
  BY <1>5, <1>9, <1>10 DEF node

LEMMA TraversalsSafe ==
  ASSUME SharedInv
  PROVE  TraversalsAreSafe
<1>0. Typed /\ OwnOK /\ ThenOK /\ CountOK /\ RingOK
  BY DEF SharedInv
<1>1. Linked \subseteq InRing
  BY DEF Linked, InRing, Passing
<1>2. ASSUME NEW t \in Thread PROVE ~At(t, "insane")
  BY <1>0 DEF At, Typed, Frame
<1>3. ASSUME NEW t \in Thread, op[t].do \in {"walk", "check"}
      PROVE  op[t].at \in InRing \cup {Root}
  BY <1>0, <1>1, <1>3, Traversing
<1>4. ASSUME NEW t \in Thread, At(t, "found"), op[t].at # op[t].rec
      PROVE  held[t][op[t].rec] = 0
  <2>1. PICK n : \E f : ChainAt(f, n)
    BY <1>0, Chain
  <2>2. PICK f : ChainAt(f, n)
    BY <2>1
  <2>3. op[t].rec \in Record /\ op[t].rec \notin Linked
    <3>1. op[t].do = "found" /\ op[t].rec \in Record
      BY <1>0, <1>4 DEF At, ThenOK, Finding
    <3>2. \A j \in 1..n : f[j] # op[t].rec
      BY <1>4, <2>2, <3>1 DEF ChainAt, Owner
    <3>. QED
      BY <2>2, <3>1, <3>2, ChainFacts
  <2>4. SUFFICES ASSUME held[t][op[t].rec] > 0 PROVE FALSE
    BY <1>0, <2>3 DEF Typed
  <2>5. memory[op[t].rec] = "live"
    BY <1>0, <2>3, <2>4 DEF OwnOK
  <2>6. \A u \in Thread : op[u].do \in Outside => op[u].rec # op[t].rec
    BY <1>0, <2>4 DEF OwnOK, Born, Dying, Outside
  <2>. QED
    BY <2>3, <2>5, <2>6 DEF Linked, Passing, Outside
<1>. QED
  BY <1>2, <1>3, <1>4 DEF TraversalsAreSafe

(* The ring is whole whenever nobody holds its lock, no traversal leaves   *)
(* it, find returns every record its caller holds and is_sane finds        *)
(* nothing amiss, however the threads interleave.                          *)
THEOREM RingSafe == Spec => []RingIsSafe
<1>1. SharedInv => RingIsSafe
  BY TypesHold, RingSound, TraversalsSafe DEF RingIsSafe
<1>. QED
  BY <1>1, SharedInvariant, PTL
-----------------------------------------------------------------------------
(* The records are shared pointers                                         *)

Seen == [r \in Record |-> IF Passing(r, {"insert", "link", "publish", "assign"}) THEN "fresh"
                          ELSE memory[r]]

LEMMA SeenSame ==
  ASSUME NEW t \in Thread, OthersStay(t), memory' = memory,
         op'[t].do \in Born <=> op[t].do \in Born,
         op'[t].do \in Born => op'[t].rec = op[t].rec
  PROVE  Seen' = Seen
<1>1. \A r \in Record : (\E u \in Thread : op'[u].do \in Born /\ op'[u].rec = r)
                          <=> (\E u \in Thread : op[u].do \in Born /\ op[u].rec = r)
  BY DEF OthersStay
<1>. QED
  BY <1>1 DEF Seen, Passing, Born

LEMMA SeenAt ==
  ASSUME NEW r \in Record
  PROVE  /\ (\E u \in Thread : op[u].do \in Born /\ op[u].rec = r) => Seen[r] = "fresh"
         /\ (\A u \in Thread : op[u].do \in Born => op[u].rec # r) => Seen[r] = memory[r]
BY DEF Seen, Passing, Born

LEMMA MapInit ==
  ASSUME Init
  PROVE  Promised!Init
<1>1. Seen = [r \in Record |-> "fresh"]
  BY DEF Init, Each, Idle, Seen, Passing
<1>2. held = [t \in Thread |-> [r \in Record |-> 0]] /\ bare = [t \in Thread |-> {}]
  BY DEF Init, Each
<1>. QED
  BY <1>1, <1>2 DEF Promised!Init, Seen

MapStep == Promised!Next \/ UNCHANGED <<Seen, held, bare>>

LEMMA MapTakes ==
  ASSUME SharedInv, NEW t \in Thread, OthersStay(t),
         AssignAllocated(t) \/ AssignCopies(t) \/ Copy(t)
  PROVE  MapStep
<1>0. Typed /\ OwnOK /\ ThenOK /\ CountOK /\ op[t] \in Frame
  BY DEF SharedInv, Typed
<1>1. PICK r \in Record : Takes(t, r)
  BY TakingSteps
<1>2. /\ held' = [held EXCEPT ![t][r] = @ + 1] /\ op'[t] = Idle
      /\ UNCHANGED <<memory, bare>>
  BY <1>1 DEF Takes
<1>3. CASE op[t].do = "assign"
  <2>1. PICK x \in Record : x = op[t].rec
    BY <1>0, <1>3 DEF OwnOK, Born
  <2>2. held' = [held EXCEPT ![t][x] = @ + 1]
    <3>1. AssignAllocated(t)
      BY <1>3 DEF AssignCopies, Copy, Increment, At
    <3>. QED
      BY <1>0, <2>1, <3>1, IncrementEffect DEF AssignAllocated
  <2>3. /\ memory[x] = "live"
        /\ \A u \in Thread \ {t} : op[u].do \in Born => op[u].rec # x
    BY <1>0, <1>3, <2>1 DEF OwnOK, Born
  <2>4. Seen[x] = "fresh"
    BY <1>3, <2>1, SeenAt DEF Born
  <2>5. Seen' = [Seen EXCEPT ![x] = "live"]
    <3>1. ASSUME NEW y \in Record
          PROVE  (\E u \in Thread : op'[u].do \in Born /\ op'[u].rec = y)
                   <=> y # x /\ (\E u \in Thread : op[u].do \in Born /\ op[u].rec = y)
      BY <1>2, <1>3, <2>1, <2>3 DEF OthersStay, Idle, Born
    <3>2. ASSUME NEW y \in Record PROVE Seen'[y] = IF y = x THEN "live" ELSE Seen[y]
      BY <1>2, <2>3, <3>1 DEF Seen, Passing, Born
    <3>. QED
      BY <3>2 DEF Seen
  <2>6. Promised!Allocate(t, x)
    BY <1>2, <2>2, <2>4, <2>5 DEF Promised!Allocate, Promised!Add, Seen
  <2>. QED
    BY <2>6 DEF MapStep, Promised!Next
<1>4. CASE op[t].do # "assign"
  <2>1. PICK x \in Record : /\ \E u \in Thread : held[u][x] > 0
                            /\ held' = [held EXCEPT ![t][x] = @ + 1]
    <3>1. CASE AssignCopies(t)
      <4>1. op[t].do = "copy" /\ Increment(t, "copy", op[t].then)
        BY <3>1 DEF AssignCopies, Increment, At
      <4>2. op[t].then \in Record /\ held[t][op[t].then] > 0
        BY <1>0, <4>1 DEF ThenOK, Frame
      <4>. QED
        BY <1>0, <4>1, <4>2, IncrementEffect
    <3>2. CASE Copy(t)
      BY <1>0, <3>2, IncrementEffect DEF Copy, Reachable
    <3>. QED
      BY <1>4, <3>1, <3>2 DEF AssignAllocated, Increment, At
  <2>2. Seen' = Seen
    <3>1. op[t].do \notin Born /\ op'[t].do \notin Born
      BY <1>1, <1>4 DEF Takes, Idle, Born
    <3>. QED
      BY <1>2, <3>1, SeenSame
  <2>3. Promised!Share(t, x)
    BY <1>2, <2>1, <2>2 DEF Promised!Share, Promised!Add, Seen
  <2>. QED
    BY <2>3 DEF MapStep, Promised!Next
<1>. QED
  BY <1>3, <1>4

LEMMA MapLets ==
  ASSUME SharedInv, NEW t \in Thread, OthersStay(t), Drop(t) \/ Assign(t)
  PROVE  MapStep
<1>1. PICK r \in Record, s \in Record \cup {Null} : Lets(t, r, s)
  BY LettingSteps DEF Spares
<1>2. op[t].do \notin Born /\ op'[t].do \notin Born
  <2>1. op[t].do = "idle" /\ op'[t].do \in {"idle", "erase", "copy"}
    BY <1>1 DEF Lets, Idle
  <2>. QED
    BY <2>1 DEF Born
<1>3. Seen' = Seen
  BY <1>1, <1>2, SeenSame DEF Lets
<1>4. held' = [held EXCEPT ![t][r] = @ + (-1)]
  <2>1. held \in [Thread -> [Record -> 0..MaxRefs]]
    BY DEF SharedInv, Typed
  <2>2. held[t][r] - 1 = held[t][r] + (-1)
    BY <2>1
  <2>3. held' = [held EXCEPT ![t] = [held[t] EXCEPT ![r] = held[t][r] - 1]]
    BY <1>1 DEF Lets
  <2>. QED
    BY <2>2, <2>3
<1>5. Promised!Drop(t, r)
  BY <1>1, <1>3, <1>4 DEF Lets, Promised!Drop, Promised!Add, Seen
<1>. QED
  BY <1>5 DEF MapStep, Promised!Next

LEMMA MapMemory ==
  ASSUME SharedInv, NEW t \in Thread, OthersStay(t), Allocate(t) \/ Deallocate(t)
  PROVE  MapStep
<1>0. Typed /\ OwnOK /\ TrackOK
  BY DEF SharedInv
<1>1. CASE Allocate(t)
  <2>1. PICK r \in Record : Creates(t, r)
    BY <1>1, AllocateEffect
  <2>2. /\ op[t].do = "idle" /\ op'[t].do = "insert" /\ op'[t].rec = r /\ memory[r] = "fresh"
        /\ memory' = [memory EXCEPT ![r] = "live"] /\ UNCHANGED <<held, bare>>
    BY <2>1 DEF Creates
  <2>3. ASSUME NEW y \in Record
        PROVE  (\E u \in Thread : op'[u].do \in Born /\ op'[u].rec = y)
                 <=> y = r \/ (\E u \in Thread : op[u].do \in Born /\ op[u].rec = y)
    BY <2>2 DEF OthersStay, Born
  <2>4. ASSUME NEW y \in Record PROVE Seen'[y] = Seen[y]
    <3>1. y # r => memory'[y] = memory[y]
      BY <1>0, <2>2 DEF Typed
    <3>. QED
      BY <2>2, <2>3, <3>1 DEF Seen, Passing, Born
  <2>5. Seen' = Seen
    BY <2>4 DEF Seen
  <2>. QED
    BY <2>2, <2>5 DEF MapStep
<1>2. CASE Deallocate(t)
  <2>1. PICK r : r = op[t].rec
    OBVIOUS
  <2>2. /\ op[t].do = "dealloc" /\ op'[t].do \in {"idle", "copy"}
        /\ memory' = [memory EXCEPT ![r] = "freed"] /\ UNCHANGED <<held, bare>>
    BY <1>2, <2>1, DeallocateEffect DEF Frees, Idle
  <2>3. /\ r \in Record /\ memory[r] = "live" /\ \A u \in Thread : held[u][r] = 0
        /\ \A u \in Thread : op[u].do \in Born => op[u].rec # r
    BY <1>0, <2>1, <2>2 DEF OwnOK, Born, Dying
  <2>4. \A u \in Thread : r \notin bare[u]
    BY <1>0, <2>3 DEF TrackOK
  <2>5. Seen[r] = "live"
    BY <2>3, SeenAt
  <2>6. Seen' = [Seen EXCEPT ![r] = "freed"]
    <3>1. ASSUME NEW y \in Record
          PROVE  (\E u \in Thread : op'[u].do \in Born /\ op'[u].rec = y)
                   <=> (\E u \in Thread : op[u].do \in Born /\ op[u].rec = y)
      BY <2>2 DEF OthersStay, Born
    <3>2. ASSUME NEW y \in Record PROVE Seen'[y] = IF y = r THEN "freed" ELSE Seen[y]
      <4>1. memory'[y] = IF y = r THEN "freed" ELSE memory[y]
        BY <1>0, <2>2 DEF Typed
      <4>. QED
        BY <2>3, <3>1, <4>1 DEF Seen, Passing, Born
    <3>. QED
      BY <3>2 DEF Seen
  <2>7. Promised!Free(r)
    BY <2>2, <2>3, <2>4, <2>5, <2>6 DEF Promised!Free, Seen
  <2>. QED
    BY <2>3, <2>7 DEF MapStep, Promised!Next
<1>. QED
  BY <1>1, <1>2

LEMMA QuietSeen ==
  ASSUME NEW t \in Thread, OthersStay(t), Quiet(t)
  PROVE  Seen' = Seen /\ held' = held
<1>1. Seen' = Seen
  BY SeenSame DEF Quiet, Born, Dying
<1>. QED
  BY <1>1 DEF Quiet

LEMMA MapLaunch ==
  ASSUME SharedInv, NEW t \in Thread, OthersStay(t), Capture(t) \/ LaunchEnds(t)
  PROVE  MapStep
<1>0. Typed /\ OwnOK /\ TrackOK
  BY DEF SharedInv
<1>1. Seen' = Seen /\ held' = held
  BY QuietSeen, QuietSteps
<1>2. CASE Capture(t)
  <2>1. bare[t] = {}
    BY <1>0, <1>2 DEF TrackOK, Capture, Go, At
  <2>2. Promised!Borrow(t)
    BY <1>1, <1>2, <2>1 DEF Promised!Borrow, Capture, Put, Seen
  <2>. QED
    BY <2>2 DEF MapStep, Promised!Next
<1>3. CASE LaunchEnds(t)
  <2>1. ASSUME NEW r \in bare[t] PROVE Seen[r] = "live"
    <3>1. r \in Record /\ held[t][r] > 0
      BY <1>0 DEF TrackOK, Typed
    <3>2. memory[r] = "live" /\ \A u \in Thread : op[u].do \in Born => op[u].rec # r
      BY <1>0, <3>1 DEF OwnOK
    <3>. QED
      BY <3>1, <3>2, SeenAt
  <2>2. Promised!GiveBack(t)
    BY <1>1, <1>3, <2>1 DEF Promised!GiveBack, LaunchEnds, Put, Seen
  <2>. QED
    BY <2>2 DEF MapStep, Promised!Next
<1>. QED
  BY <1>2, <1>3

LEMMA MapNext ==
  ASSUME SharedInv, [Next]_vars
  PROVE  MapStep
<1>1. ASSUME NEW t \in Thread, Begins(t) \/ Goes(t) PROVE MapStep
  <2>1. OthersStay(t)
    BY <1>1, OpTyped
  <2>2. CASE AssignAllocated(t) \/ AssignCopies(t) \/ Copy(t)
    BY <2>1, <2>2, MapTakes
  <2>3. CASE Drop(t) \/ Assign(t)
    BY <2>1, <2>3, MapLets
  <2>4. CASE Allocate(t) \/ Deallocate(t)
    BY <2>1, <2>4, MapMemory
  <2>5. CASE Capture(t) \/ LaunchEnds(t)
    BY <2>1, <2>5, MapLaunch
  <2>6. CASE Quiet(t) /\ bare' = bare
    BY <2>1, <2>6, QuietSeen DEF MapStep
  <2>7. \/ AssignAllocated(t) \/ AssignCopies(t) \/ Copy(t) \/ Drop(t) \/ Assign(t)
        \/ Allocate(t) \/ Deallocate(t) \/ Capture(t) \/ LaunchEnds(t)
        \/ Quiet(t) /\ bare' = bare
    <3>1. Aside(t) => bare' = bare
      BY DEF Aside
    <3>2. Claim(t) \/ Release(t) => bare' = bare
      BY DEF Claim, Release
    <3>3. \/ AssignAllocated(t) \/ AssignCopies(t) \/ Copy(t) \/ Drop(t) \/ Assign(t)
          \/ Allocate(t) \/ Deallocate(t) \/ Quiet(t)
      BY <1>1, QuietSteps DEF Begins, Goes
    <3>. QED
      BY <1>1, <3>1, <3>2, <3>3, AsideSteps
  <2>. QED
    BY <2>2, <2>3, <2>4, <2>5, <2>6, <2>7
<1>2. CASE UNCHANGED vars
  BY <1>2 DEF vars, MapStep, Seen, Passing
<1>. QED
  BY <1>1, <1>2 DEF Next

(* The counted records are shared pointers: a record is freed once, when   *)
(* neither a counting tracker nor a launch refers to it any more, and      *)
(* nobody comes by a reference that was not handed over.                   *)
THEOREM IsASharedPointer == Spec => IsSharedPointer
<1>1. Init => Promised!Init
  BY MapInit
<1>2. SharedInv /\ [Next]_vars => [Promised!Next]_(Promised!vars)
  BY MapNext DEF MapStep, Promised!vars, Seen
<1>. QED
  BY <1>1, <1>2, SharedInvariant, PTL DEF Spec, IsSharedPointer, Promised!Spec
=============================================================================
