------------------------- MODULE WorkStealingProofs -------------------------
(***************************************************************************)
(* The dynamic schedule is exact for every pool, every range and every     *)
(* chunk size: no index runs twice, and none of a range that begins on a   *)
(* chunk is lost.                                                          *)
(*                                                                         *)
(* The argument: the chunks of a thread are a block First..Final-1 of its  *)
(* own, its published pair is a window into the block that is only closed  *)
(* from both ends, and an index has run just if its chunk is in the block  *)
(* but no longer in the window.                                            *)
(***************************************************************************)
EXTENDS WorkStealing, ArithmeticProofs

(* The chunks of entry e when policy p is divided among n threads.         *)
BlockFirst(p, n, e) == FirstChunk(PartBegin(p, n - (e + 1), n), p.chunk)
BlockFinal(p, n, e) ==
  LastChunk(PartBegin(p, n - (e + 1), n), PartEnd(p, n - (e + 1), n), p.chunk)

First(e) == BlockFirst(policy, size, e)
Final(e) == BlockFinal(policy, size, e)

Published(e) == pc[e] \notin {"set_first", "set_second"}
Working(e) == Published(e) /\ pc[e] # "barrier"

(* Nobody passes the barrier before all pairs are published.               *)
GateOK == \A e \in Pool : /\ pc[e] # "none"
                          /\ Working(e) => AllSet

(* The published pair is a window into the block of its thread.            *)
WindowOK == \A e \in Pool :
  /\ pc[e] = "set_second" => range[e].first = First(e)
  /\ Published(e) => /\ First(e) <= range[e].first
                     /\ range[e].first <= range[e].second
                     /\ range[e].second <= Final(e)
                     /\ target[e] \in Pool

(* What a thread has read of a pair.  Only the thread itself changes the   *)
(* first of its pair.                                                      *)
ReadOK == \A e \in Pool :
  /\ pc[e] = "swap" => ~Empty(old[e])
  /\ pc[e] = "read_second" /\ ~stealing[e] => old[e].first = range[e].first

(* A thread turns to others when its own window is closed.                 *)
Leaving(e) == pc[e] \in {"exhausted", "target", "done"} \/ (Working(e) /\ stealing[e])
OwnFirstOK == \A e \in Pool : /\ pc[e] = "barrier" => ~stealing[e]
                              /\ Leaving(e) => Empty(range[e])

(* A chunk is claimed when it is in the block but not in the window.       *)
Outside(e, w, c) == \/ First(e) <= c /\ c < w.first
                    \/ w.second <= c /\ c < Final(e)
Claimed(e, c) == Outside(e, range[e], c)
RanOK == \A i \in Indices(policy) :
  ran[i] = IF \E e \in Pool : Published(e) /\ Claimed(e, i \div policy.chunk)
           THEN 1 ELSE 0

WindowInv == TypeOK /\ GateOK /\ WindowOK /\ ReadOK /\ OwnFirstOK /\ RanOK
-----------------------------------------------------------------------------
(* The policy launched is one of those assumed.                            *)
LEMMA PolicyFacts ==
  ASSUME TypeOK
  PROVE  /\ policy.begin \in Nat /\ policy.end \in Nat /\ policy.chunk \in Nat \ {0}
         /\ policy.begin <= policy.end
         /\ size \in Nat \ {0}
         /\ \A e \in Pool : e \in Entry /\ Rank(e) \in 0..(size - 1)
BY PoliciesAssumption, MaxThreadsAssumption DEF TypeOK, Pool, Entry, Rank

(* The blocks of chunks of the threads of a pool do not meet.              *)
LEMMA BlocksApart ==
  ASSUME TypeOK, NEW e \in Pool
  PROVE  /\ First(e) \in Nat /\ Final(e) \in Nat /\ First(e) <= Final(e)
         /\ \A d \in Pool : d # e => Final(e) <= First(d) \/ Final(d) <= First(e)
<1>. DEFINE p == policy
<1>1. /\ p.begin \in Nat /\ p.end \in Nat /\ p.chunk \in Nat \ {0}
      /\ p.begin <= p.end /\ size \in Nat \ {0}
      /\ \A d \in Pool : Rank(d) \in 0..(size - 1)
  BY PolicyFacts
<1>2. ASSUME NEW d \in Pool
      PROVE  /\ First(d) \in Nat /\ Final(d) \in Nat /\ First(d) <= Final(d)
             /\ \A c \in Pool : Rank(d) < Rank(c) => Final(d) <= First(c)
  <2>1. /\ FirstChunk(PartBegin(p, Rank(d), size), p.chunk) \in Nat
        /\ LastChunk(PartBegin(p, Rank(d), size), PartEnd(p, Rank(d), size), p.chunk) =
             CeilDiv(PartEnd(p, Rank(d), size), p.chunk)
        /\ CeilDiv(PartEnd(p, Rank(d), size), p.chunk) \in Nat
        /\ FirstChunk(PartBegin(p, Rank(d), size), p.chunk) <=
             CeilDiv(PartEnd(p, Rank(d), size), p.chunk)
        /\ \A s \in 0..(size - 1) :
             Rank(d) < s => CeilDiv(PartEnd(p, Rank(d), size), p.chunk) <=
                              FirstChunk(PartBegin(p, s, size), p.chunk)
    BY <1>1, ChunkBounds
  <2>. QED
    BY <1>1, <2>1 DEF First, Final, BlockFirst, BlockFinal, Rank
<1>3. ASSUME NEW d \in Pool, d # e
      PROVE  Rank(e) < Rank(d) \/ Rank(d) < Rank(e)
  BY <1>1, <1>3 DEF Rank, Pool
<1>. QED
  BY <1>2, <1>3

(* They are the chunks it publishes.                                       *)
LEMMA PublishesBlock ==
  ASSUME NEW e
  PROVE  /\ First(e) = FirstChunk(MyBegin(e), policy.chunk)
         /\ Final(e) = LastChunk(MyBegin(e), MyEnd(e), policy.chunk)
BY DEF First, Final, BlockFirst, BlockFinal, MyBegin, MyEnd, Rank

LEMMA InitWindow == Init => WindowInv
<1>. SUFFICES ASSUME Init PROVE WindowInv
  OBVIOUS
<1>. USE MaxThreadsAssumption, LeftoversAssumption
<1>1. TypeOK
  <2>1. range \in [Entry -> Pair]
    BY DEF Init, Pair
  <2>2. old \in [Entry -> Pair]
    BY DEF Init, Pair
  <2>3. 0 \in Entry
    BY DEF Entry
  <2>. QED
    BY <2>1, <2>2, <2>3 DEF Init, TypeOK, ThreadLabel
<1>2. \A e \in Pool : e \in Entry /\ pc[e] = "set_first"
  BY <1>1, PolicyFacts DEF Init
<1>3. GateOK /\ WindowOK /\ ReadOK /\ OwnFirstOK
  BY <1>2 DEF GateOK, WindowOK, ReadOK, OwnFirstOK, Leaving, Published, Working
<1>4. RanOK
  BY <1>2 DEF Init, RanOK, Published
<1>. QED
  BY <1>1, <1>3, <1>4 DEF WindowInv
-----------------------------------------------------------------------------
LEMMA Remainder ==
  ASSUME NEW n \in Nat, NEW d \in Nat \ {0}
  PROVE  n % d \in 0..(d - 1)
  OBVIOUS

(* What a step of a thread starts from.                                    *)
LEMMA ThreadFacts ==
  ASSUME TypeOK, NEW e \in Pool
  PROVE  /\ e \in Entry /\ range[e] \in Pair /\ old[e] \in Pair
         /\ target[e] \in Entry /\ stealing[e] \in BOOLEAN /\ pc[e] \in ThreadLabel
         /\ Victim(e) \in Entry /\ range[Victim(e)] \in Pair
<1>1. e \in Entry
  BY PolicyFacts
<1>2. /\ range[e] \in Pair /\ old[e] \in Pair /\ target[e] \in Entry
      /\ stealing[e] \in BOOLEAN /\ pc[e] \in ThreadLabel
  BY <1>1 DEF TypeOK
<1>3. Victim(e) \in Entry
  BY <1>1, <1>2 DEF Victim
<1>. QED
  BY <1>1, <1>2, <1>3 DEF TypeOK

LEMMA NextTarget ==
  ASSUME TypeOK, NEW n \in Nat
  PROVE  n % size \in Pool /\ n % size \in Entry
<1>1. size \in Nat \ {0} /\ size <= MaxThreads /\ MaxThreads \in Nat
  BY MaxThreadsAssumption DEF TypeOK
<1>2. n % size \in 0..(size - 1)
  BY <1>1, Remainder
<1>. QED
  BY <1>1, <1>2 DEF Pool, Entry

(* A step keeps the types.                                                 *)
LEMMA TypeStep ==
  ASSUME TypeOK, ReadOK, NEW e \in Pool, Thread(e)
  PROVE  TypeOK'
<1>1. /\ e \in Entry /\ range[e] \in Pair /\ old[e] \in Pair
      /\ target[e] \in Entry /\ stealing[e] \in BOOLEAN
      /\ Victim(e) \in Entry /\ range[Victim(e)] \in Pair
  BY ThreadFacts
<1>2. First(e) \in Nat /\ Final(e) \in Nat
  BY BlocksApart
<1>3. ASSUME NEW from, NEW to \in ThreadLabel, Go(e, from, to)
      PROVE  pc' \in [Entry -> ThreadLabel]
  BY <1>1, <1>3 DEF TypeOK, Go
<1>4. \A n \in Nat : n % size \in Entry
  BY NextTarget
<1>5. Rank(e) + 1 \in Nat /\ target[e] + 1 \in Nat
  BY <1>1, PolicyFacts DEF Entry
<1>6. CASE SetFirst(e)
  <2>1. range' \in [Entry -> Pair]
    BY <1>1, <1>2, <1>6, PublishesBlock DEF SetFirst, TypeOK, Pair
  <2>2. pc' \in [Entry -> ThreadLabel]
    BY <1>3, <1>6 DEF SetFirst, ThreadLabel
  <2>. QED
    BY <1>6, <2>1, <2>2 DEF SetFirst, TypeOK, launch, Indices
<1>7. CASE SetSecond(e)
  <2>1. range' \in [Entry -> Pair]
    BY <1>1, <1>2, <1>7, PublishesBlock DEF SetSecond, TypeOK, Pair
  <2>2. pc' \in [Entry -> ThreadLabel]
    BY <1>3, <1>7 DEF SetSecond, ThreadLabel
  <2>3. target' \in [Entry -> Entry] /\ stealing' \in [Entry -> BOOLEAN]
    BY <1>1, <1>4, <1>5, <1>7 DEF SetSecond, TypeOK
  <2>. QED
    BY <1>7, <2>1, <2>2, <2>3 DEF SetSecond, TypeOK, launch, Indices
<1>8. CASE Barrier(e)
  <2>1. pc' \in [Entry -> ThreadLabel]
    BY <1>3, <1>8 DEF Barrier, ThreadLabel
  <2>. QED
    BY <1>8, <2>1 DEF Barrier, TypeOK, launch, Indices
<1>9. CASE NextChunk(e)
  <2>1. pc' \in [Entry -> ThreadLabel]
    BY <1>3, <1>9 DEF NextChunk, ThreadLabel
  <2>. QED
    BY <1>9, <2>1 DEF NextChunk, TypeOK, launch, Indices
<1>10. CASE ReadFirst(e)
  <2>1. pc' \in [Entry -> ThreadLabel]
    BY <1>3, <1>10 DEF ReadFirst, ThreadLabel
  <2>2. old' \in [Entry -> Pair]
    BY <1>1, <1>10 DEF ReadFirst, TypeOK, Pair
  <2>. QED
    BY <1>10, <2>1, <2>2 DEF ReadFirst, TypeOK, launch, Indices
<1>11. CASE ReadSecond(e)
  <2>1. pc' \in [Entry -> ThreadLabel]
    BY <1>3, <1>11 DEF ReadSecond, ThreadLabel
  <2>2. old' \in [Entry -> Pair]
    BY <1>1, <1>11 DEF ReadSecond, TypeOK, Pair
  <2>. QED
    BY <1>11, <2>1, <2>2 DEF ReadSecond, TypeOK, launch, Indices
<1>12. CASE Take(e)
  <2>1. pc' \in [Entry -> ThreadLabel]
    BY <1>3, <1>12 DEF Take, ThreadLabel
  <2>2. old[e].second > 0
    BY <1>1, <1>12 DEF Take, Go, ReadOK, Empty, Pair
  <2>3. Rest(e) \in Pair
    <3>1. [old[e] EXCEPT !.second = @ - 1] \in Pair
      BY <1>1, <2>2 DEF Pair
    <3>2. [old[e] EXCEPT !.first = @ + 1] \in Pair
      BY <1>1 DEF Pair
    <3>. QED
      BY <3>1, <3>2 DEF Rest
  <2>4. range' \in [Entry -> Pair]
    BY <1>1, <1>12, <2>3 DEF Take, TypeOK
  <2>5. ran' \in [Indices(policy) -> Nat]
    BY <1>12 DEF Take, TypeOK
  <2>. QED
    BY <1>12, <2>1, <2>4, <2>5 DEF Take, TypeOK, launch, Indices
<1>13. CASE Retry(e)
  <2>1. pc' \in [Entry -> ThreadLabel]
    BY <1>3, <1>13 DEF Retry, ThreadLabel
  <2>2. old' \in [Entry -> Pair]
    BY <1>1, <1>13 DEF Retry, TypeOK
  <2>. QED
    BY <1>13, <2>1, <2>2 DEF Retry, TypeOK, launch, Indices
<1>14. CASE Exhausted(e)
  <2>1. pc' \in [Entry -> ThreadLabel]
    BY <1>3, <1>14 DEF Exhausted, ThreadLabel
  <2>. QED
    BY <1>14, <2>1 DEF Exhausted, TypeOK, launch, Indices
<1>15. CASE Skip(e)
  <2>1. target' \in [Entry -> Entry]
    BY <1>1, <1>4, <1>5, <1>15 DEF Skip, TypeOK
  <2>. QED
    BY <1>15, <2>1 DEF Skip, TypeOK, launch, Indices
<1>16. CASE Steal(e) \/ GiveUp(e)
  <2>1. pc' \in [Entry -> ThreadLabel]
    BY <1>3, <1>16 DEF Steal, GiveUp, ThreadLabel
  <2>. QED
    BY <1>16, <2>1 DEF Steal, GiveUp, TypeOK, launch, Indices
<1>. QED
  BY <1>6, <1>7, <1>8, <1>9, <1>10, <1>11, <1>12, <1>13, <1>14, <1>15, <1>16
     DEF Thread, Prepare, Claim, FindTarget
-----------------------------------------------------------------------------
(* A thread publishes its pair in two steps, and passes the barrier when   *)
(* everybody has.                                                          *)
LEMMA Moves ==
  ASSUME TypeOK, GateOK, NEW e \in Pool, Thread(e)
  PROVE  /\ UNCHANGED launch /\ policy' = policy /\ size' = size /\ Pool' = Pool
         /\ \A d \in Pool : d # e => pc'[d] = pc[d]
         /\ \/ SetFirst(e) /\ pc[e] = "set_first" /\ pc'[e] = "set_second"
            \/ SetSecond(e) /\ pc[e] = "set_second" /\ pc'[e] = "barrier"
            \/ /\ Published(e) /\ pc'[e] \in ThreadLabel
               /\ pc'[e] \notin {"none", "set_first", "set_second", "barrier"} /\ AllSet
            \/ Skip(e) /\ pc' = pc
<1>1. e \in Entry /\ pc \in [Entry -> ThreadLabel] /\ \A d \in Pool : d \in Entry
  BY PolicyFacts DEF TypeOK
<1>2. UNCHANGED launch /\ policy' = policy /\ size' = size /\ Pool' = Pool
  BY DEF launch, Pool, Thread, Prepare, Claim, FindTarget, SetFirst, SetSecond, Barrier, NextChunk,
         ReadFirst, ReadSecond, Take, Retry, Exhausted, Skip, Steal, GiveUp
<1>3. ASSUME NEW from, NEW to, Go(e, from, to)
      PROVE  /\ pc[e] = from /\ pc'[e] = to
             /\ \A d \in Pool : d # e => pc'[d] = pc[d]
  BY <1>1, <1>3 DEF Go
<1>4. CASE SetFirst(e)
  <2>1. Go(e, "set_first", "set_second")
    BY <1>4 DEF SetFirst
  <2>. QED
    BY <1>2, <1>3, <1>4, <2>1
<1>5. CASE SetSecond(e)
  <2>1. Go(e, "set_second", "barrier")
    BY <1>5 DEF SetSecond
  <2>. QED
    BY <1>2, <1>3, <1>5, <2>1
<1>6. CASE Barrier(e)
  <2>1. Go(e, "barrier", "next") /\ AllSet
    BY <1>6 DEF Barrier
  <2>. QED
    BY <1>2, <1>3, <2>1 DEF Published, ThreadLabel
<1>7. CASE NextChunk(e) \/ Claim(e) \/ Steal(e) \/ GiveUp(e)
  <2>1. /\ pc[e] \in {"next", "read_first", "read_second", "swap", "exhausted", "target"}
        /\ pc'[e] \in {"target", "read_first", "read_second", "exhausted", "swap", "next",
                       "done"}
        /\ \A d \in Pool : d # e => pc'[d] = pc[d]
    BY <1>1, <1>7 DEF NextChunk, Claim, ReadFirst, ReadSecond, Take, Retry, Exhausted,
                      Steal, GiveUp, Go
  <2>2. AllSet
    BY <2>1 DEF GateOK, Working, Published
  <2>. QED
    BY <1>2, <2>1, <2>2 DEF Published, ThreadLabel
<1>8. CASE Skip(e)
  BY <1>2, <1>8 DEF Skip
<1>. QED
  BY <1>4, <1>5, <1>6, <1>7, <1>8 DEF Thread, Prepare, FindTarget

(* Nobody passes the barrier early.                                        *)
LEMMA GateStep ==
  ASSUME TypeOK, GateOK, NEW e \in Pool, Thread(e)
  PROVE  GateOK'
<1>1. /\ Pool' = Pool
      /\ \A d \in Pool : d # e => pc'[d] = pc[d]
  BY Moves
<1>2. CASE (pc[e] = "set_first" /\ pc'[e] = "set_second")
           \/ (pc[e] = "set_second" /\ pc'[e] = "barrier")
  <2>1. ~AllSet
    BY <1>2 DEF AllSet
  <2>2. \A d \in Pool : ~Working(d)
    BY <2>1 DEF GateOK
  <2>. QED
    BY <1>1, <1>2, <2>2 DEF GateOK, Working, Published
<1>3. CASE Published(e) /\ pc'[e] \notin {"none", "set_first", "set_second", "barrier"} /\ AllSet
  BY <1>1, <1>3 DEF GateOK, AllSet, Working, Published
<1>4. CASE pc' = pc
  BY <1>1, <1>4 DEF GateOK, AllSet, Working, Published
<1>. QED
  BY <1>2, <1>3, <1>4, Moves

(* A thread takes a chunk from a published pair that is the one it read    *)
(* and is not empty: its own, from the front, or another's, from the back. *)
LEMMA Takes ==
  ASSUME TypeOK, GateOK, WindowOK, ReadOK, NEW e \in Pool, Take(e)
  PROVE  /\ Victim(e) \in Pool /\ Published(Victim(e)) /\ Published(e) /\ AllSet
         /\ range[Victim(e)].first < range[Victim(e)].second
         /\ \A d \in Pool : d # Victim(e) => range'[d] = range[d]
         /\ \/ /\ stealing[e]
               /\ Chunk(e) = range[Victim(e)].second - 1
               /\ range'[Victim(e)].first = range[Victim(e)].first
               /\ range'[Victim(e)].second = range[Victim(e)].second - 1
            \/ /\ ~stealing[e] /\ Victim(e) = e
               /\ Chunk(e) = range[Victim(e)].first
               /\ range'[Victim(e)].first = range[Victim(e)].first + 1
               /\ range'[Victim(e)].second = range[Victim(e)].second
<1>. DEFINE v == Victim(e)
<1>1. /\ e \in Entry /\ v \in Entry /\ old[e] \in Pair /\ range[v] \in Pair
      /\ stealing[e] \in BOOLEAN /\ range \in [Entry -> Pair]
  BY ThreadFacts DEF TypeOK
<1>2. pc[e] = "swap" /\ range[v] = old[e] /\ range' = [range EXCEPT ![v] = Rest(e)]
  BY DEF Take, Go, Unchanged
<1>3. Published(e) /\ AllSet
  BY <1>2 DEF GateOK, Working, Published
<1>4. v \in Pool
  BY <1>3 DEF Victim, WindowOK
<1>5. Published(v)
  BY <1>3, <1>4 DEF AllSet, Published
<1>6. range[v].first < range[v].second
  BY <1>1, <1>2 DEF ReadOK, Empty, Pair
<1>7. range'[v] = Rest(e) /\ \A d \in Pool : d # v => range'[d] = range[d]
  BY <1>1, <1>2, PolicyFacts
<1>8. CASE stealing[e]
  <2>1. Rest(e) = [range[v] EXCEPT !.second = @ - 1] /\ Chunk(e) = range[v].second - 1
    BY <1>2, <1>8 DEF Rest, Chunk
  <2>. QED
    BY <1>1, <1>3, <1>4, <1>5, <1>6, <1>7, <1>8, <2>1 DEF Pair
<1>9. CASE ~stealing[e]
  <2>1. Rest(e) = [range[v] EXCEPT !.first = @ + 1] /\ Chunk(e) = range[v].first /\ v = e
    BY <1>2, <1>9 DEF Rest, Chunk, Victim
  <2>. QED
    BY <1>1, <1>3, <1>4, <1>5, <1>6, <1>7, <1>9, <2>1 DEF Pair
<1>. QED
  BY <1>8, <1>9

(* Published pairs stay windows into the blocks of their threads.          *)
LEMMA WindowStep ==
  ASSUME TypeOK, GateOK, WindowOK, ReadOK, NEW e \in Pool, Thread(e)
  PROVE  WindowOK'
<1>1. /\ Pool' = Pool /\ policy' = policy /\ size' = size
      /\ \A d \in Pool : d # e => pc'[d] = pc[d]
      /\ \/ pc[e] = "set_first" /\ pc'[e] = "set_second" /\ SetFirst(e)
         \/ pc[e] = "set_second" /\ pc'[e] = "barrier" /\ SetSecond(e)
         \/ Published(e) /\ Published(e)' /\ pc'[e] # "set_second"
         \/ pc' = pc
  BY Moves DEF Published
<1>2. /\ range \in [Entry -> Pair] /\ target \in [Entry -> Entry]
      /\ \A d \in Pool : d \in Entry
      /\ \A d \in Pool : First(d) \in Nat /\ Final(d) \in Nat /\ First(d) <= Final(d)
  BY PolicyFacts, BlocksApart DEF TypeOK
<1>3. CASE SetFirst(e)
  <2>1. /\ range'[e].first = First(e) /\ target' = target /\ pc'[e] = "set_second"
        /\ \A d \in Pool : d # e => range'[d] = range[d]
    BY <1>2, <1>3, PublishesBlock DEF SetFirst, Go, Pair, TypeOK
  <2>. QED
    BY <1>1, <1>2, <2>1 DEF WindowOK, Published, First, Final
<1>4. CASE SetSecond(e)
  <2>1. /\ range'[e].first = range[e].first /\ range'[e].second = Final(e)
        /\ pc[e] = "set_second" /\ pc'[e] = "barrier"
        /\ \A d \in Pool : d # e => range'[d] = range[d] /\ target'[d] = target[d]
    BY <1>2, <1>4, PublishesBlock DEF SetSecond, Go, Pair, TypeOK
  <2>2. target'[e] \in Pool
    <3>1. Rank(e) + 1 \in Nat
      BY PolicyFacts
    <3>. QED
      BY <1>2, <1>4, <3>1, NextTarget DEF SetSecond
  <2>. QED
    BY <1>1, <1>2, <2>1, <2>2 DEF WindowOK, Published, First, Final
<1>5. CASE Take(e)
  <2>1. target' = target
    BY <1>5 DEF Take
  <2>2. Published(e) /\ Published(e)' /\ pc'[e] # "set_second"
    BY <1>2, <1>5 DEF Take, Go, Published, TypeOK
  <2>3. ASSUME NEW d \in Pool
        PROVE  d # Victim(e) \/ /\ First(d) <= range'[d].first
                                /\ range'[d].first <= range'[d].second
                                /\ range'[d].second <= Final(d)
    BY <1>2, <1>5, Takes DEF WindowOK, Pair
  <2>. QED
    BY <1>1, <1>5, <2>1, <2>2, <2>3, Takes DEF WindowOK, Published, First, Final
<1>6. CASE Skip(e)
  <2>1. range' = range /\ pc' = pc /\ \A d \in Pool : d # e => target'[d] = target[d]
    BY <1>2, <1>6 DEF Skip
  <2>2. target'[e] \in Pool
    <3>1. target[e] + 1 \in Nat
      BY <1>2 DEF Entry
    <3>. QED
      BY <1>2, <1>6, <3>1, NextTarget DEF Skip
  <2>. QED
    BY <1>1, <2>1, <2>2 DEF WindowOK, Published, First, Final
<1>7. CASE Barrier(e) \/ NextChunk(e) \/ ReadFirst(e) \/ ReadSecond(e) \/ Retry(e)
             \/ Exhausted(e) \/ Steal(e) \/ GiveUp(e)
  <2>1. range' = range /\ target' = target
    BY <1>7 DEF Barrier, NextChunk, ReadFirst, ReadSecond, Retry, Exhausted, Steal, GiveUp
  <2>2. pc[e] \notin {"set_first", "set_second"}
    BY <1>7 DEF Barrier, NextChunk, ReadFirst, ReadSecond, Retry, Exhausted, Steal,
                GiveUp, Go
  <2>3. pc' = pc \/ (Published(e) /\ Published(e)' /\ pc'[e] # "set_second")
    BY <1>1, <2>2
  <2>. QED
    BY <1>1, <2>1, <2>3 DEF WindowOK, Published, First, Final
<1>. QED
  BY <1>3, <1>4, <1>5, <1>6, <1>7 DEF Thread, Prepare, Claim, FindTarget

(* What a thread has read stays what the invariant says.                   *)
LEMMA ReadStep ==
  ASSUME TypeOK, GateOK, WindowOK, ReadOK, NEW e \in Pool, Thread(e)
  PROVE  ReadOK'
<1>1. /\ Pool' = Pool /\ \A d \in Pool : d \in Entry
      /\ \A d \in Pool : d # e => pc'[d] = pc[d]
  BY Moves, PolicyFacts
<1>2. /\ range \in [Entry -> Pair] /\ old \in [Entry -> Pair]
      /\ stealing \in [Entry -> BOOLEAN] /\ pc \in [Entry -> ThreadLabel] /\ e \in Entry
  BY <1>1 DEF TypeOK
<1>3. ASSUME NEW d \in Pool, d # e
      PROVE  stealing'[d] = stealing[d] /\ old'[d] = old[d]
  BY <1>1, <1>2, <1>3
     DEF Thread, Prepare, Claim, FindTarget, SetFirst, SetSecond, Barrier, NextChunk,
         ReadFirst, ReadSecond, Take, Retry, Exhausted, Skip, Steal, GiveUp, Pair
<1>4. ASSUME NEW d \in Pool, d # e
      PROVE  range'[d].first = range[d].first
  <2>1. CASE SetFirst(e) \/ SetSecond(e)
    BY <1>1, <1>2, <1>4, <2>1 DEF SetFirst, SetSecond, Pair
  <2>2. CASE Take(e)
    BY <1>2, <1>4, <2>2, Takes
  <2>3. CASE Barrier(e) \/ NextChunk(e) \/ ReadFirst(e) \/ ReadSecond(e) \/ Retry(e)
               \/ Exhausted(e) \/ FindTarget(e)
    BY <2>3 DEF Barrier, NextChunk, ReadFirst, ReadSecond, Retry, Exhausted, FindTarget,
                Skip, Steal, GiveUp
  <2>. QED
    BY <2>1, <2>2, <2>3 DEF Thread, Prepare, Claim
<1>5. ASSUME pc'[e] = "swap" PROVE ~Empty(old'[e])
  <2>1. CASE ReadSecond(e) \/ Retry(e)
    BY <1>2, <1>5, <2>1 DEF ReadSecond, Retry, Go
  <2>2. CASE Prepare(e) \/ NextChunk(e) \/ ReadFirst(e) \/ Take(e) \/ Exhausted(e)
               \/ Steal(e) \/ GiveUp(e)
    BY <1>2, <1>5, <2>2 DEF Prepare, SetFirst, SetSecond, Barrier, NextChunk, ReadFirst,
                            Take, Exhausted, Steal, GiveUp, Go
  <2>3. CASE Skip(e)
    BY <1>5, <2>3 DEF Skip
  <2>. QED
    BY <2>1, <2>2, <2>3 DEF Thread, Claim, FindTarget
<1>6. ASSUME pc'[e] = "read_second", ~stealing'[e]
      PROVE  old'[e].first = range'[e].first
  <2>1. CASE ReadFirst(e)
    BY <1>2, <1>6, <2>1 DEF ReadFirst, Victim, Pair
  <2>2. CASE Prepare(e) \/ NextChunk(e) \/ ReadSecond(e) \/ Take(e) \/ Retry(e)
               \/ Exhausted(e) \/ Steal(e) \/ GiveUp(e)
    BY <1>2, <1>6, <2>2 DEF Prepare, SetFirst, SetSecond, Barrier, NextChunk, ReadSecond,
                            Take, Retry, Exhausted, Steal, GiveUp, Go
  <2>3. CASE Skip(e)
    BY <1>6, <2>3 DEF Skip
  <2>. QED
    BY <2>1, <2>2, <2>3 DEF Thread, Claim, FindTarget
<1>7. ASSUME NEW d \in Pool
      PROVE  /\ pc'[d] = "swap" => ~Empty(old'[d])
             /\ pc'[d] = "read_second" /\ ~stealing'[d] => old'[d].first = range'[d].first
  BY <1>1, <1>3, <1>4, <1>5, <1>6, <1>7 DEF ReadOK
<1>. QED
  BY <1>1, <1>7 DEF ReadOK, Empty

(* A thread that leaves its own pair leaves it empty, and it stays empty.  *)
LEMMA OwnFirstStep ==
  ASSUME TypeOK, GateOK, WindowOK, ReadOK, OwnFirstOK, NEW e \in Pool, Thread(e)
  PROVE  OwnFirstOK'
<1>1. /\ Pool' = Pool /\ \A d \in Pool : d \in Entry
      /\ \A d \in Pool : d # e => pc'[d] = pc[d]
  BY Moves, PolicyFacts
<1>2. /\ range \in [Entry -> Pair] /\ old \in [Entry -> Pair]
      /\ stealing \in [Entry -> BOOLEAN] /\ pc \in [Entry -> ThreadLabel] /\ e \in Entry
  BY <1>1 DEF TypeOK
<1>3. ASSUME NEW d \in Pool, d # e
      PROVE  stealing'[d] = stealing[d]
  BY <1>1, <1>2, <1>3
     DEF Thread, Prepare, Claim, FindTarget, SetFirst, SetSecond, Barrier, NextChunk,
         ReadFirst, ReadSecond, Take, Retry, Exhausted, Skip, Steal, GiveUp
<1>4. ASSUME NEW d \in Pool, Empty(range[d]), d # e \/ ~Prepare(e)
      PROVE  Empty(range'[d])
  <2>1. CASE SetFirst(e) \/ SetSecond(e)
    BY <1>1, <1>2, <1>4, <2>1 DEF SetFirst, SetSecond, Prepare
  <2>2. CASE Take(e)
    <3>1. range[d] \in Pair /\ range[Victim(e)] \in Pair
      BY <1>1, <1>2, ThreadFacts
    <3>2. d # Victim(e)
      BY <1>4, <2>2, <3>1, Takes DEF Empty, Pair
    <3>. QED
      BY <1>4, <2>2, <3>2, Takes
  <2>3. CASE Barrier(e) \/ NextChunk(e) \/ ReadFirst(e) \/ ReadSecond(e) \/ Retry(e)
               \/ Exhausted(e) \/ FindTarget(e)
    BY <1>4, <2>3 DEF Barrier, NextChunk, ReadFirst, ReadSecond, Retry, Exhausted,
                      FindTarget, Skip, Steal, GiveUp
  <2>. QED
    BY <2>1, <2>2, <2>3 DEF Thread, Prepare, Claim
<1>5. CASE Prepare(e)
  <2>1. /\ pc'[e] \in {"set_second", "barrier", "next"}
        /\ pc'[e] # "set_second" => ~stealing'[e]
    BY <1>2, <1>5 DEF Prepare, SetFirst, SetSecond, Barrier, Go, OwnFirstOK
  <2>2. /\ pc'[e] \notin {"exhausted", "target", "done"}
        /\ pc'[e] = "barrier" => ~stealing'[e]
        /\ pc'[e] \notin {"set_first", "set_second", "barrier"} => ~stealing'[e]
    BY <2>1
  <2>. QED
    BY <1>1, <1>3, <1>4, <2>2 DEF OwnFirstOK, Leaving, Working, Published
<1>6. CASE Leaving(e) /\ ~Prepare(e)
  <2>1. Empty(range'[e])
    BY <1>4, <1>6 DEF OwnFirstOK
  <2>2. pc'[e] # "barrier"
    BY <1>2, <1>6 DEF Thread, Claim, FindTarget, NextChunk, ReadFirst, ReadSecond, Take,
       Retry, Exhausted, Skip, Steal, GiveUp, Go, Leaving, Working
  <2>. QED
    BY <1>1, <1>3, <1>4, <1>6, <2>1, <2>2 DEF OwnFirstOK, Leaving, Working, Published
<1>7. CASE ~Leaving(e) /\ ~Prepare(e)
  <2>1. /\ NextChunk(e) \/ ReadFirst(e) \/ ReadSecond(e) \/ Take(e) \/ Retry(e)
        /\ ~stealing[e] /\ ~stealing'[e] /\ pc'[e] # "barrier"
    <3>1. ~(Exhausted(e) \/ FindTarget(e))
      BY <1>7 DEF Exhausted, FindTarget, Skip, Steal, GiveUp, Go, Leaving
    <3>2. NextChunk(e) \/ ReadFirst(e) \/ ReadSecond(e) \/ Take(e) \/ Retry(e)
      BY <1>7, <3>1 DEF Thread, Claim
    <3>3. /\ pc[e] \in {"next", "read_first", "read_second", "swap"}
          /\ stealing' = stealing /\ pc'[e] # "barrier"
      BY <1>2, <3>2 DEF NextChunk, ReadFirst, ReadSecond, Take, Retry, Go
    <3>. QED
      BY <1>7, <3>2, <3>3 DEF Leaving, Working, Published
  <2>2. ASSUME Leaving(e)' PROVE Empty(range'[e])
    <3>1. pc'[e] \in {"exhausted", "target", "done"}
      BY <2>1, <2>2 DEF Leaving, Working
    <3>2. CASE ReadSecond(e)
      <4>1. Empty(old'[e]) /\ old'[e].first = range[e].first /\ old'[e].second = range[e].second
        BY <1>2, <2>1, <3>1, <3>2 DEF ReadSecond, Go, Victim, ReadOK, Pair
      <4>. QED
        BY <3>2, <4>1 DEF ReadSecond, Empty
    <3>3. CASE Retry(e)
      BY <1>2, <2>1, <3>1, <3>3 DEF Retry, Go, Victim
    <3>4. CASE NextChunk(e) \/ ReadFirst(e) \/ Take(e)
      BY <1>2, <2>1, <3>1, <3>4 DEF NextChunk, ReadFirst, Take, Go
    <3>. QED
      BY <2>1, <3>2, <3>3, <3>4
  <2>. QED
    BY <1>1, <1>3, <1>4, <1>7, <2>1, <2>2 DEF OwnFirstOK, Leaving, Working, Published
<1>. QED
  BY <1>5, <1>6, <1>7
-----------------------------------------------------------------------------
(* Taking a chunk adds it to what its thread's block has had claimed, and  *)
(* nothing else.                                                           *)
LEMMA TakeClaims ==
  ASSUME TypeOK, GateOK, WindowOK, ReadOK, NEW e \in Pool, Take(e), NEW c \in Nat
  PROVE  /\ Outside(Victim(e), range'[Victim(e)], c) <=>
              Claimed(Victim(e), c) \/ c = Chunk(e)
         /\ c = Chunk(e) => \A d \in Pool : Published(d) => ~Claimed(d, c)
         /\ \A d \in Pool : d # Victim(e) => (Outside(d, range'[d], c) <=> Claimed(d, c))
<1>. DEFINE v == Victim(e)
<1>1. v \in Pool /\ Published(v) /\ range[v] \in Pair
  BY Takes, ThreadFacts
<1>2. /\ First(v) \in Nat /\ Final(v) \in Nat
      /\ \A d \in Pool : d # v => Final(v) <= First(d) \/ Final(d) <= First(v)
      /\ \A d \in Pool : /\ First(d) \in Nat /\ Final(d) \in Nat
                        /\ d \in Entry /\ range[d] \in Pair
  BY <1>1, BlocksApart, PolicyFacts DEF TypeOK
<1>3. /\ First(v) <= range[v].first /\ range[v].first < range[v].second
      /\ range[v].second <= Final(v)
  BY <1>1, Takes DEF WindowOK
<1>4. \/ /\ Chunk(e) = range[v].second - 1
         /\ range'[v].first = range[v].first /\ range'[v].second = range[v].second - 1
      \/ /\ Chunk(e) = range[v].first
         /\ range'[v].first = range[v].first + 1 /\ range'[v].second = range[v].second
  BY Takes
<1>5. \A d \in Pool : d # v => range'[d] = range[d]
  BY Takes
<1>. HIDE DEF v
<1>6. Outside(v, range'[v], c) <=> Claimed(v, c) \/ c = Chunk(e)
  BY <1>1, <1>2, <1>3, <1>4 DEF Claimed, Outside, Pair
<1>7. ASSUME c = Chunk(e), NEW d \in Pool, Published(d) PROVE ~Claimed(d, c)
  <2>1. First(v) <= c /\ c < Final(v)
    BY <1>1, <1>2, <1>3, <1>4, <1>7 DEF Pair
  <2>2. CASE d = v
    BY <1>1, <1>2, <1>3, <1>4, <1>7, <2>2 DEF Claimed, Outside, Pair
  <2>3. CASE d # v
    <3>1. /\ First(d) <= range[d].first /\ range[d].first <= range[d].second
          /\ range[d].second <= Final(d)
      BY <1>7 DEF WindowOK
    <3>2. c < First(d) \/ Final(d) <= c
      BY <1>2, <2>1, <2>3
    <3>. QED
      BY <1>2, <3>1, <3>2 DEF Claimed, Outside, Pair
  <2>. QED
    BY <2>2, <2>3
<1>8. ASSUME NEW d \in Pool, d # v PROVE Outside(d, range'[d], c) <=> Claimed(d, c)
  BY <1>5, <1>8 DEF Claimed
<1>. QED
  BY <1>6, <1>7, <1>8 DEF v

(* An index has run just if its chunk has been claimed.                    *)
LEMMA RanStep ==
  ASSUME TypeOK, GateOK, WindowOK, ReadOK, RanOK, NEW e \in Pool, Thread(e)
  PROVE  RanOK'
<1>1. /\ Pool' = Pool /\ policy' = policy /\ size' = size
      /\ \A d \in Pool : d # e => pc'[d] = pc[d]
  BY Moves
<1>2. /\ policy.chunk \in Nat \ {0} /\ policy.begin \in Nat /\ policy.end \in Nat
      /\ \A i \in Indices(policy) : i \div policy.chunk \in Nat
  <2>1. policy.chunk \in Nat \ {0} /\ policy.begin \in Nat /\ policy.end \in Nat
    BY PolicyFacts
  <2>2. ASSUME NEW i \in Indices(policy) PROVE i \div policy.chunk \in Nat
    <3>1. i \in Int /\ i >= 0
      BY <2>1 DEF Indices
    <3>2. i \div policy.chunk \in Int /\ i \div policy.chunk >= 0
      BY <2>1, <3>1, Division
    <3>. QED
      BY <3>2
  <2>. QED
    BY <2>1, <2>2
<1>3. /\ range \in [Entry -> Pair] /\ pc \in [Entry -> ThreadLabel] /\ e \in Entry
      /\ \A d \in Pool : d \in Entry
  BY PolicyFacts DEF TypeOK
<1>. DEFINE open(d) == pc'[d] \notin {"set_first", "set_second"}
            gone(d, c) == Outside(d, range'[d], c)
<1>4. SUFFICES ASSUME NEW i \in Indices(policy)
               PROVE  ran'[i] = IF \E d \in Pool : open(d) /\ gone(d, i \div policy.chunk)
                                THEN 1 ELSE 0
  BY <1>1 DEF RanOK, Published, Claimed, Outside, First, Final, Indices
<1>. DEFINE q == i \div policy.chunk
<1>5. q \in Nat
  BY <1>2
<1>6. ran[i] = IF \E d \in Pool : Published(d) /\ Claimed(d, q) THEN 1 ELSE 0
  BY DEF RanOK
<1>7. SUFFICES ran'[i] = IF \E d \in Pool : open(d) /\ gone(d, q) THEN 1 ELSE 0
  OBVIOUS
<1>8. CASE Take(e)
  <2>. DEFINE c == Chunk(e)
              v == Victim(e)
  <2>1. v \in Pool /\ Published(v) /\ c \in Nat
    <3>1. v \in Pool /\ Published(v) /\ range[v] \in Pair
      BY <1>8, Takes, ThreadFacts
    <3>. QED
      BY <1>8, <3>1, Takes DEF Pair
  <2>2. \A d \in Pool : Published(d) /\ open(d)
    BY <1>1, <1>3, <1>8, Takes DEF Take, Go, Published, AllSet
  <2>3. ran'[i] = IF q = c THEN ran[i] + 1 ELSE ran[i]
    <3>1. ran'[i] = IF i \in ChunkIndices(policy, c) THEN ran[i] + 1 ELSE ran[i]
      BY <1>8 DEF Take
    <3>2. i \in ChunkIndices(policy, c) <=> q = c
      BY <1>2, <2>1, ChunkOfIndex
    <3>. QED
      BY <3>1, <3>2
  <2>4. /\ gone(v, q) <=> Claimed(v, q) \/ q = c
        /\ q = c => \A d \in Pool : Published(d) => ~Claimed(d, q)
        /\ \A d \in Pool : d # v => (gone(d, q) <=> Claimed(d, q))
    BY <1>5, <1>8, TakeClaims
  <2>. HIDE DEF c, v, q, open, gone
  <2>5. CASE q = c
    <3>1. ran'[i] = 1
      BY <1>6, <2>3, <2>4, <2>5
    <3>. QED
      BY <2>1, <2>2, <2>4, <2>5, <3>1
  <2>6. CASE q # c
    <3>1. \A d \in Pool : open(d) /\ gone(d, q) <=> Published(d) /\ Claimed(d, q)
      BY <2>2, <2>4, <2>6
    <3>2. ran'[i] = ran[i]
      BY <2>3, <2>6
    <3>. QED
      BY <1>6, <3>1, <3>2
  <2>. QED
    BY <2>5, <2>6
<1>9. CASE ~Take(e)
  <2>1. ran' = ran
    BY <1>9 DEF Thread, Prepare, Claim, FindTarget, SetFirst, SetSecond, Barrier,
                NextChunk, ReadFirst, ReadSecond, Retry, Exhausted, Skip, Steal, GiveUp
  <2>2. ASSUME NEW d \in Pool
        PROVE  open(d) /\ gone(d, q) <=> Published(d) /\ Claimed(d, q)
    <3>1. CASE SetFirst(e)
      <4>1. ~Published(e) /\ ~open(e)
        BY <1>3, <3>1 DEF SetFirst, Go, Published
      <4>2. d # e => range'[d] = range[d]
        BY <1>3, <3>1 DEF SetFirst
      <4>. QED
        BY <1>1, <4>1, <4>2 DEF Published, Claimed
    <3>2. CASE SetSecond(e)
      <4>1. ~Published(e)
        BY <3>2 DEF SetSecond, Go, Published
      <4>2. d # e => range'[d] = range[d]
        BY <1>3, <3>2 DEF SetSecond
      <4>3. range'[e].first = First(e) /\ range'[e].second = Final(e)
        BY <1>3, <3>2, PublishesBlock DEF SetSecond, Go, WindowOK, Pair
      <4>4. ~gone(e, q)
        <5>1. First(e) \in Nat /\ Final(e) \in Nat
          BY BlocksApart
        <5>. HIDE DEF q
        <5>. QED
          BY <1>5, <4>3, <5>1 DEF Outside
      <4>. HIDE DEF q
      <4>. QED
        BY <1>1, <4>1, <4>2, <4>4 DEF Published, Claimed
    <3>3. CASE Barrier(e) \/ NextChunk(e) \/ ReadFirst(e) \/ ReadSecond(e) \/ Retry(e)
                 \/ Exhausted(e) \/ Steal(e) \/ GiveUp(e)
      <4>1. range' = range /\ Published(e) /\ open(e)
        BY <1>3, <3>3 DEF Barrier, NextChunk, ReadFirst, ReadSecond, Retry, Exhausted,
                          Steal, GiveUp, Go, Published
      <4>. QED
        BY <1>1, <4>1 DEF Published, Claimed
    <3>4. CASE Skip(e)
      <4>1. range' = range /\ pc' = pc
        BY <3>4 DEF Skip
      <4>. QED
        BY <1>1, <4>1 DEF Published, Claimed
    <3>. QED
      BY <1>9, <3>1, <3>2, <3>3, <3>4 DEF Thread, Prepare, Claim, FindTarget
  <2>. HIDE DEF q, open, gone
  <2>. QED
    BY <1>6, <2>1, <2>2
<1>. QED
  BY <1>8, <1>9
-----------------------------------------------------------------------------
LEMMA WindowInvariant == Spec => []WindowInv
<1>1. ASSUME WindowInv, [Next]_vars PROVE WindowInv'
  <2>1. CASE UNCHANGED vars
    BY <1>1, <2>1 DEF vars, WindowInv, TypeOK, GateOK, WindowOK, ReadOK, OwnFirstOK, RanOK,
       AllSet, Published, Working, Leaving, Claimed, Outside, First, Final, Empty, Pool,
       Indices
  <2>2. ASSUME NEW e \in Pool, Thread(e) PROVE WindowInv'
    BY <1>1, <2>2, TypeStep, GateStep, WindowStep, ReadStep, OwnFirstStep, RanStep
       DEF WindowInv
  <2>. QED
    BY <1>1, <2>1, <2>2 DEF Next
<1>. QED
  BY InitWindow, <1>1, PTL DEF Spec

(* No index runs twice, whoever claims its chunk from whom, for any number *)
(* of threads: the compare-and-swap of get_work_index_begin and _end is    *)
(* enough although the pair is read, and first set, half by half.          *)
THEOREM ClaimsSound == Spec => []ClaimsAreSound
<1>1. WindowInv => ClaimsAreSound
  BY DEF WindowInv, ClaimsAreSound, AtMostOnce, RanOK
<1>. QED
  BY <1>1, WindowInvariant, PTL

(* Ranges that begin on a chunk.  Of others the chunk before the first     *)
(* part's is nobody's.                                                     *)
BeginOnChunk == \A p \in Policies : p.begin % p.chunk = 0

(* No index of such a range is lost: a thread leaves the loop of           *)
(* exec_schedule with its own pair empty, and when all have left, every    *)
(* index has run.                                                          *)
THEOREM NoIndexIsLost ==
  ASSUME BeginOnChunk
  PROVE  Spec => []NothingLost
<1>1. ASSUME WindowInv PROVE NoneLeftBehind
  BY <1>1 DEF WindowInv, OwnFirstOK, Leaving, NoneLeftBehind
<1>2. ASSUME WindowInv, Finished, NEW i \in Indices(policy)
      PROVE  ran[i] = 1
  <2>. DEFINE q == i \div policy.chunk
  <2>1. TypeOK /\ policy \in Policies
    BY <1>2 DEF WindowInv, TypeOK
  <2>2. /\ policy.begin \in Nat /\ policy.end \in Nat /\ policy.chunk \in Nat \ {0}
        /\ policy.begin <= policy.end /\ policy.begin % policy.chunk = 0
        /\ size \in Nat \ {0}
    BY <2>1, PolicyFacts DEF BeginOnChunk
  <2>3. PICK r \in 0..(size - 1) : i \in Part(policy, r, size)
    <3>1. PartsCover(policy, size)
      BY <2>2, PartsOfPolicy
    <3>. QED
      BY <3>1 DEF PartsCover
  <2>. DEFINE e == size - (r + 1)
  <2>4. e \in Pool /\ size - (e + 1) = r
    BY <2>2 DEF Pool
  <2>5. q \in Nat /\ First(e) <= q /\ q < Final(e)
    <3>1. /\ q \in Nat /\ FirstChunk(PartBegin(policy, r, size), policy.chunk) <= q
          /\ q < CeilDiv(PartEnd(policy, r, size), policy.chunk)
      BY <2>2, <2>3, ChunksReachIndices
    <3>2. LastChunk(PartBegin(policy, r, size), PartEnd(policy, r, size), policy.chunk) =
            CeilDiv(PartEnd(policy, r, size), policy.chunk)
      BY <2>2, ChunkBounds
    <3>. QED
      BY <2>4, <3>1, <3>2 DEF First, Final, BlockFirst, BlockFinal
  <2>6. ran[i] = IF \E d \in Pool : Published(d) /\ Claimed(d, q) THEN 1 ELSE 0
    BY <1>2 DEF WindowInv, RanOK
  <2>. HIDE DEF e, q
  <2>7. Published(e) /\ Empty(range[e]) /\ range[e] \in Pair
    <3>1. range[e] \in Pair
      BY <2>1, <2>4, ThreadFacts
    <3>. QED
      BY <1>2, <2>4, <3>1 DEF Finished, WindowInv, OwnFirstOK, Leaving, Published
  <2>8. Claimed(e, q)
    <3>1. First(e) \in Nat /\ Final(e) \in Nat
      BY <2>1, <2>4, BlocksApart
    <3>. QED
      BY <2>5, <2>7, <3>1 DEF Claimed, Outside, Empty, Pair
  <2>. QED
    BY <2>4, <2>6, <2>7, <2>8
<1>3. WindowInv => NothingLost
  BY <1>1, <1>2 DEF NothingLost, EveryIndexRan
<1>. QED
  BY <1>3, WindowInvariant, PTL

(* A published range only shrinks, at its front by its owner and at its    *)
(* back by thieves: no compare-and-swap mistakes a later pair for the one  *)
(* it read.                                                                *)
THEOREM PublishedRangesShrink == Spec => RangesShrink
<1>. DEFINE Shrinks == \A e \in Pool : pc[e] \notin {"set_first", "set_second"} =>
              /\ range'[e].first >= range[e].first
              /\ range'[e].second <= range[e].second
              /\ range[e].first <= range[e].second => range'[e].first <= range'[e].second
<1>1. ASSUME WindowInv, NEW e \in Pool, Thread(e) PROVE Shrinks
  <2>1. TypeOK /\ GateOK /\ WindowOK /\ ReadOK
    BY <1>1 DEF WindowInv
  <2>2. /\ \A d \in Pool : d \in Entry /\ range[d] \in Pair
        /\ range \in [Entry -> Pair]
    BY <2>1, PolicyFacts DEF TypeOK
  <2>3. CASE SetFirst(e) \/ SetSecond(e)
    <3>1. ~Published(e)
      BY <2>3 DEF SetFirst, SetSecond, Go, Published
    <3>2. \A d \in Pool : d # e => range'[d] = range[d]
      BY <2>2, <2>3 DEF SetFirst, SetSecond
    <3>. QED
      BY <2>2, <3>1, <3>2 DEF Published, Pair
  <2>4. CASE Take(e)
    <3>1. ASSUME NEW d \in Pool
          PROVE  /\ range'[d].first >= range[d].first
                 /\ range'[d].second <= range[d].second
                 /\ range[d].first <= range[d].second => range'[d].first <= range'[d].second
      BY <2>1, <2>2, <2>4, Takes DEF Pair
    <3>. QED
      BY <3>1
  <2>5. CASE Barrier(e) \/ NextChunk(e) \/ ReadFirst(e) \/ ReadSecond(e) \/ Retry(e)
               \/ Exhausted(e) \/ FindTarget(e)
    <3>1. range' = range
      BY <2>5 DEF Barrier, NextChunk, ReadFirst, ReadSecond, Retry, Exhausted, FindTarget,
                  Skip, Steal, GiveUp
    <3>. QED
      BY <2>2, <3>1 DEF Pair
  <2>. QED
    BY <1>1, <2>3, <2>4, <2>5 DEF Thread, Prepare, Claim
<1>2. WindowInv /\ [Next]_vars => [Shrinks]_vars
  BY <1>1 DEF Next
<1>. QED
  BY <1>2, WindowInvariant, PTL DEF Spec, RangesShrink
=============================================================================
