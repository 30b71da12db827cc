------------------------- MODULE ThreadsTeamProofs -------------------------
(***************************************************************************)
(* Proofs about ThreadsTeam, for every pool and all launches of teams:     *)
(* a team works on one item at a time, every item is run once by every     *)
(* member of one team, what the collectives of the teams return and leave  *)
(* is exact, and the launch is joined.                                     *)
(***************************************************************************)
EXTENDS ThreadsTeam, ArithmeticProofs

USE MaxThreadsAssumption
USE DEF Entry
-----------------------------------------------------------------------------
(* The pool and its teams                                                  *)

Teamed == {e \in Pool : ~Idle(e)}
TeamFans(e) == FanCount(Place(e), launch.team)
PoolFans(e) == FanCount(e, launch.pool)
TeamFan(e) == 0..(TeamFans(e) - 1)
PoolFan(e) == 0..(PoolFans(e) - 1)

(* A launch's numbers                                                      *)
LEMMA LaunchFacts ==
  ASSUME launch \in Launches
  PROVE  /\ launch.pool \in Nat \ {0} /\ launch.pool <= MaxThreads
         /\ launch.team \in Nat \ {0} /\ launch.league \in Nat /\ launch.chunk \in Nat \ {0}
         /\ launch.dynamic \in BOOLEAN /\ launch.program \in Seq(TeamCall)
         /\ launch.source \in Nat /\ launch.left \in Nat
         /\ Teams(launch) \in Nat \ {0} /\ Alloc(launch) \in Nat \ {0}
         /\ launch.team <= Alloc(launch)
         /\ Teams(launch) * Alloc(launch) <= launch.pool
         /\ Alloc(launch) = launch.team \/ Teams(launch) * Alloc(launch) = launch.pool
<1>1. launch \in Launch /\ Teams(launch) > 0 /\ IsDivided(launch)
  BY LaunchesAssumption
<1>2. /\ launch.pool \in Nat \ {0} /\ launch.pool <= MaxThreads /\ launch.grain \in Nat \ {0}
      /\ launch.team \in Nat \ {0} /\ launch.league \in Nat /\ launch.chunk \in Nat \ {0}
      /\ launch.dynamic \in BOOLEAN /\ launch.program \in Seq(TeamCall)
      /\ launch.source \in Nat /\ launch.left \in Nat
  BY <1>1 DEF Launch
<1>. DEFINE g == GrainSize(launch)
            t == Teams(launch)
            a == Alloc(launch)
            p == launch.pool
<1>3. g \in Nat \ {0} /\ launch.team <= g
  <2>1. /\ CeilDiv(launch.team, launch.grain) \in Nat
        /\ launch.grain * CeilDiv(launch.team, launch.grain) >= launch.team
    BY <1>2, RoundsUp
  <2>2. GrainSize(launch) = CeilDiv(launch.team, launch.grain) * launch.grain
    BY DEF GrainSize
  <2>. QED
    BY <1>2, <2>1, <2>2
<1>. HIDE DEF g
<1>4. t \in Nat \ {0} /\ g * t <= p
  <2>1. Teams(launch) = launch.pool \div g
    BY DEF Teams, g
  <2>2. p \in Int /\ g \in Nat \ {0}
    BY <1>2, <1>3
  <2>. HIDE DEF p
  <2>3. p \div g \in Int /\ g * (p \div g) <= p
    BY <2>2, Division
  <2>. QED
    BY <1>1, <1>3, <2>1, <2>2, <2>3 DEF p
<1>. HIDE DEF t, p
<1>5. a \in Int /\ a >= 0 /\ t * a <= p /\ p < t * a + t
  <2>1. Alloc(launch) = p \div t
    BY DEF Alloc, t, p
  <2>2. p \in Int /\ p >= 0
    BY <1>2 DEF p
  <2>3. /\ p \div t \in Int /\ t * (p \div t) <= p /\ p < t * (p \div t) + t
        /\ p \div t >= 0
    BY <1>4, <2>2, Division
  <2>. QED
    BY <2>1, <2>3
<1>. HIDE DEF a
<1>6. g <= a
  <2>1. SUFFICES ASSUME a + 1 <= g PROVE FALSE
    BY <1>3, <1>5
  <2>2. (a + 1) * t <= g * t
    BY <1>3, <1>4, <1>5, <2>1, Grows
  <2>3. (a + 1) * t = t * a + t
    BY <1>4, <1>5
  <2>4. p \in Int /\ g * t \in Int /\ t * a + t \in Int
    BY <1>2, <1>3, <1>4, <1>5 DEF p
  <2>. QED
    BY <1>4, <1>5, <2>2, <2>3, <2>4
<1>7. a = launch.team \/ t * a = p
  <2>1. launch.pool = Alloc(launch) * Teams(launch) \/ Alloc(launch) = launch.team
    BY <1>1 DEF IsDivided
  <2>2. p = a * t \/ a = launch.team
    BY <2>1 DEF a, t, p
  <2>. QED
    BY <1>4, <1>5, <2>2
<1>8. launch.team <= a /\ a \in Nat \ {0}
  BY <1>2, <1>3, <1>5, <1>6
<1>. QED
  BY <1>2, <1>4, <1>5, <1>7, <1>8 DEF a, t, p

(* An entry is a multiple of the allocation and a place, and in a team if  *)
(* both are in range.                                                      *)
LEMMA EntryFacts ==
  ASSUME launch \in Launches, NEW e \in Pool
  PROVE  /\ e \in Nat /\ e \in Entry /\ e < launch.pool
         /\ Place(e) \in 0..(Alloc(launch) - 1) /\ e \div Alloc(launch) \in Nat
         /\ Base(e) \in Nat /\ e = Base(e) + Place(e)
         /\ ~Idle(e) <=> Place(e) < launch.team /\ e \div Alloc(launch) < Teams(launch)
<1>. DEFINE a == Alloc(launch)
            t == Teams(launch)
            q == e \div a
<1>1. /\ a \in Nat \ {0} /\ t \in Nat \ {0} /\ launch.pool \in Nat /\ launch.team \in Nat
      /\ launch.team <= a /\ t * a <= launch.pool /\ (a = launch.team \/ t * a = launch.pool)
      /\ launch.pool <= MaxThreads
  BY LaunchFacts
<1>2. e \in Nat /\ e < launch.pool /\ e \in Entry
  BY <1>1 DEF Pool, Entries
<1>3. Place(e) = e % a /\ Base(e) = a * q
  BY DEF Place, Base
<1>. HIDE DEF a, t
<1>4. q \in Nat
  BY <1>1, <1>2, Division
<1>5. e % a \in 0..(a - 1) /\ e = a * q + (e % a)
  BY <1>1, <1>2, Remainders
<1>. HIDE DEF q
<1>6. a * q \in Nat
  BY <1>1, <1>4
<1>7. e < t * a <=> q < t
  <2>1. ASSUME q < t PROVE a * q + a <= a * t
    BY <1>1, <1>4, <2>1, MultiplesApart
  <2>2. ASSUME t <= q PROVE t * a <= q * a
    BY <1>1, <1>4, <2>2, Grows
  <2>3. a * t = t * a /\ q * a = a * q /\ a * t \in Nat
    BY <1>1, <1>4
  <2>4. CASE q < t
    BY <1>1, <1>2, <1>5, <1>6, <2>1, <2>3, <2>4
  <2>5. CASE t <= q
    BY <1>1, <1>2, <1>4, <1>5, <1>6, <2>2, <2>3, <2>5
  <2>. QED
    BY <1>1, <1>4, <2>4, <2>5
<1>8. Idle(e) <=> IF a > launch.team THEN e % a >= launch.team
                  ELSE launch.pool - t * launch.team > launch.pool - (e + 1)
  BY <1>3 DEF Idle, a, t
<1>9. ~Idle(e) <=> e % a < launch.team /\ q < t
  <2>1. CASE a > launch.team
    BY <1>1, <1>2, <1>5, <1>7, <1>8, <2>1
  <2>2. CASE a = launch.team
    <3>1. t * a \in Nat
      BY <1>1
    <3>2. launch.pool - t * a > launch.pool - (e + 1) <=> ~(e < t * a)
      BY <1>1, <1>2, <3>1
    <3>3. e % a < a
      BY <1>1, <1>5
    <3>. QED
      BY <1>1, <1>7, <1>8, <2>2, <3>2, <3>3
  <2>. QED
    BY <1>1, <2>1, <2>2
<1>. QED
  BY <1>2, <1>3, <1>4, <1>5, <1>6, <1>9 DEF a, t, q

(* The members of a team                                                   *)
LEMMA TeamFacts ==
  ASSUME launch \in Launches, NEW e \in Teamed
  PROVE  /\ e \in Pool /\ e \in Nat /\ e \in Entry /\ Place(e) \in Places
         /\ Base(e) \in Nat /\ e = Base(e) + Place(e)
         /\ \A p \in Places :
              /\ Base(e) + p \in Teamed /\ Place(Base(e) + p) = p
              /\ Base(Base(e) + p) = Base(e) /\ LeagueRank(Base(e) + p) = LeagueRank(e)
<1>. DEFINE a == Alloc(launch)
            q == e \div a
<1>1. /\ a \in Nat \ {0} /\ Teams(launch) \in Nat \ {0} /\ launch.pool \in Nat
      /\ launch.team \in Nat /\ launch.team <= a /\ Teams(launch) * a <= launch.pool
  BY LaunchFacts
<1>2. e \in Pool /\ ~Idle(e)
  BY DEF Teamed
<1>3. /\ e \in Nat /\ e \in Entry /\ e < launch.pool /\ q \in Nat /\ Base(e) \in Nat
      /\ Place(e) \in Nat /\ Place(e) < launch.team /\ q < Teams(launch)
      /\ e = Base(e) + Place(e) /\ Base(e) = a * q
  <2>1. Base(e) = a * q
    BY DEF Base
  <2>. HIDE DEF a
  <2>2. Place(e) \in 0..(a - 1)
    BY <1>2, EntryFacts DEF a
  <2>. QED
    BY <1>1, <1>2, <2>1, <2>2, EntryFacts DEF a
<1>. HIDE DEF q
<1>4. ASSUME NEW p \in Places
      PROVE  /\ Base(e) + p \in Teamed /\ Place(Base(e) + p) = p
             /\ Base(Base(e) + p) = Base(e) /\ LeagueRank(Base(e) + p) = LeagueRank(e)
  <2>. DEFINE d == a * q + p
  <2>1. p \in Nat /\ p < launch.team /\ p \in 0..(a - 1)
    BY <1>1 DEF Places
  <2>2. d \div a = q /\ d % a = p
    <3>. HIDE DEF a
    <3>. QED
      BY <1>1, <1>3, <2>1, Quotient
  <2>3. d \in Nat /\ d < launch.pool
    <3>. HIDE DEF a
    <3>1. a * q + a <= a * Teams(launch)
      BY <1>1, <1>3, MultiplesApart
    <3>2. a * Teams(launch) = Teams(launch) * a /\ a * q \in Nat /\ a * Teams(launch) \in Nat
      BY <1>1, <1>3
    <3>. QED
      BY <1>1, <1>3, <2>1, <3>1, <3>2
  <2>4. d \in Pool
    BY <1>1, <2>3 DEF Pool, Entries
  <2>5. Place(d) = p /\ Base(d) = Base(e)
    BY <1>3, <2>2 DEF Place, Base
  <2>6. ~Idle(d)
    BY <1>3, <2>1, <2>2, <2>4, <2>5, EntryFacts
  <2>7. LeagueRank(d) = LeagueRank(e)
    BY <2>2 DEF LeagueRank, q
  <2>. QED
    BY <1>3, <2>4, <2>5, <2>6, <2>7 DEF Teamed
<1>5. Place(e) \in Places
  BY <1>1, <1>3 DEF Places
<1>. QED
  BY <1>2, <1>3, <1>4, <1>5

(* The fan-in tree of a team                                               *)
LEMMA TeamTree ==
  ASSUME launch \in Launches, NEW e \in Teamed
  PROVE  /\ TeamFans(e) \in 0..launch.team /\ TeamFans(e) \in 0..launch.pool
         /\ \A i \in TeamFan(e) :
              LET c == FanChild(e, i) IN
                /\ i \in Nat /\ c \in Teamed /\ e < c /\ Base(c) = Base(e) /\ Place(c) # 0
                /\ Place(c) = FanChild(Place(e), i)
<1>1. launch.team \in Nat \ {0} /\ launch.pool \in Nat /\ launch.team <= launch.pool
  <2>1. /\ launch.team \in Nat \ {0} /\ launch.pool \in Nat /\ Teams(launch) \in Nat \ {0}
        /\ Alloc(launch) \in Nat /\ launch.team <= Alloc(launch)
        /\ Teams(launch) * Alloc(launch) <= launch.pool
    BY LaunchFacts
  <2>2. 1 * Alloc(launch) <= Teams(launch) * Alloc(launch)
    BY <2>1, Grows
  <2>3. Teams(launch) * Alloc(launch) \in Nat
    BY <2>1
  <2>. QED
    BY <2>1, <2>2, <2>3
<1>2. Place(e) \in Entries(launch.team)
  BY TeamFacts DEF Places, Entries
<1>3. TeamFans(e) \in 0..launch.team
  BY <1>1, <1>2, FanCountIs DEF TeamFans
<1>4. ASSUME NEW i \in TeamFan(e), NEW c, c = FanChild(e, i)
      PROVE  /\ i \in Nat /\ c \in Teamed /\ e < c /\ Base(c) = Base(e) /\ Place(c) # 0
             /\ Place(c) = FanChild(Place(e), i)
  <2>1. i \in 0..(FanCount(Place(e), launch.team) - 1) /\ i \in Nat
    BY <1>1, <1>3 DEF TeamFan, TeamFans
  <2>2. FanChild(Place(e), i) \in Entries(launch.team) /\ Place(e) < FanChild(Place(e), i)
    BY <1>1, <1>2, <2>1, ChildIs
  <2>3. PICK p : p = FanChild(Place(e), i)
    OBVIOUS
  <2>4. p \in Places /\ p \in Nat /\ Place(e) < p /\ p # 0
    BY <1>1, <1>2, <2>2, <2>3 DEF Entries, Places
  <2>5. Power[i] \in Nat
    BY <2>1, PowerAbove
  <2>6. Place(e) \in Nat /\ Base(e) \in Nat /\ e = Base(e) + Place(e)
    BY <1>1, <1>2, TeamFacts DEF Entries
  <2>7. c = Base(e) + p
    BY <1>4, <2>3, <2>5, <2>6 DEF FanChild
  <2>8. e < c
    BY <2>4, <2>6, <2>7
  <2>. QED
    BY <2>1, <2>3, <2>4, <2>7, <2>8, TeamFacts
<1>. QED
  BY <1>1, <1>3, <1>4

(* Every member of a team but its lead is waited for by one other.         *)
LEMMA TeamParent ==
  ASSUME launch \in Launches, NEW d \in Teamed, Place(d) # 0
  PROVE  \E e \in Teamed : \E i \in TeamFan(e) : d = FanChild(e, i) /\ Base(e) = Base(d) /\ e < d
<1>1. launch.team \in Nat \ {0}
  BY LaunchFacts
<1>2. Place(d) \in Entries(launch.team) /\ Base(d) \in Nat /\ d = Base(d) + Place(d)
  BY TeamFacts DEF Places, Entries
<1>3. PICK p \in Entries(launch.team) : \E i \in 0..(FanCount(p, launch.team) - 1) :
        Place(d) = FanChild(p, i) /\ p < Place(d)
  BY <1>1, <1>2, FanHasParent
<1>4. PICK i \in 0..(FanCount(p, launch.team) - 1) : Place(d) = FanChild(p, i) /\ p < Place(d)
  BY <1>3
<1>5. PICK e : e = Base(d) + p
  OBVIOUS
<1>6. p \in Places /\ p \in Nat /\ i \in Nat /\ Place(d) \in Nat
  BY <1>1, <1>2, <1>3, <1>4, FanCountIs DEF Entries, Places
<1>7. e \in Teamed /\ Place(e) = p /\ Base(e) = Base(d)
  BY <1>5, <1>6, TeamFacts
<1>8. Power[i] \in Nat
  BY <1>6, PowerAbove
<1>9. d = FanChild(e, i) /\ e < d
  BY <1>2, <1>4, <1>5, <1>6, <1>8 DEF FanChild
<1>10. i \in TeamFan(e)
  BY <1>4, <1>7 DEF TeamFan, TeamFans
<1>. QED
  BY <1>7, <1>9, <1>10

(* A member is a child of one member, and one child of it.                 *)
LEMMA TeamOneParent ==
  ASSUME launch \in Launches, NEW e \in Teamed, NEW i \in TeamFan(e),
         NEW d \in Teamed, NEW j \in TeamFan(d), FanChild(e, i) = FanChild(d, j)
  PROVE  e = d /\ i = j
<1>1. launch.team \in Nat \ {0}
  BY LaunchFacts
<1>2. /\ Place(e) \in Entries(launch.team) /\ Place(d) \in Entries(launch.team)
      /\ i \in 0..(FanCount(Place(e), launch.team) - 1)
      /\ j \in 0..(FanCount(Place(d), launch.team) - 1)
  BY TeamFacts DEF Places, Entries, TeamFan, TeamFans
<1>3. PICK c : c = FanChild(e, i)
  OBVIOUS
<1>4. /\ Place(c) = FanChild(Place(e), i) /\ Base(c) = Base(e)
      /\ Place(c) = FanChild(Place(d), j) /\ Base(c) = Base(d)
  BY <1>3, TeamTree
<1>5. Place(e) = Place(d) /\ i = j
  <2>. DEFINE x == Place(e)
              y == Place(d)
              n == launch.team
  <2>1. /\ n \in Nat \ {0} /\ x \in Entries(n) /\ i \in 0..(FanCount(x, n) - 1)
        /\ y \in Entries(n) /\ j \in 0..(FanCount(y, n) - 1)
        /\ FanChild(x, i) = FanChild(y, j)
    BY <1>1, <1>2, <1>4
  <2>. HIDE DEF x, y, n
  <2>2. x = y /\ i = j
    BY <2>1, FanHasOneParent
  <2>. QED
    BY <2>2 DEF x, y
<1>. QED
  BY <1>4, <1>5, TeamFacts

(* The fan-in tree of the pool                                             *)
LEMMA PoolTree ==
  ASSUME launch \in Launches, NEW e \in Pool
  PROVE  /\ e \in Nat /\ PoolFans(e) \in 0..launch.pool
         /\ \A i \in PoolFan(e) :
              i \in Nat /\ FanChild(e, i) \in Pool /\ e < FanChild(e, i)
         /\ e # 0 => \E d \in Pool : \E i \in PoolFan(d) : e = FanChild(d, i) /\ d < e
<1>1. launch.pool \in Nat \ {0}
  BY LaunchFacts
<1>2. e \in Entries(launch.pool) /\ e \in Nat
  BY <1>1 DEF Pool, Entries
<1>3. PoolFans(e) \in 0..launch.pool
  BY <1>1, <1>2, FanCountIs DEF PoolFans
<1>4. ASSUME NEW i \in PoolFan(e) PROVE i \in Nat /\ FanChild(e, i) \in Pool /\ e < FanChild(e, i)
  <2>1. i \in 0..(FanCount(e, launch.pool) - 1) /\ i \in Nat
    BY <1>1, <1>3 DEF PoolFan, PoolFans
  <2>. QED
    BY <1>1, <1>2, <2>1, ChildIs DEF Pool
<1>5. e # 0 => \E d \in Pool : \E i \in PoolFan(d) : e = FanChild(d, i) /\ d < e
  BY <1>1, <1>2, FanHasParent DEF Pool, PoolFan, PoolFans
<1>. QED
  BY <1>2, <1>3, <1>4, <1>5
-----------------------------------------------------------------------------
(* Where the threads are                                                   *)

(* A thread goes from one collective to the next: the one it heads for or  *)
(* is in, with the item, the call of the functor and the end of the work   *)
(* it has then; then the one after it, given the chunk of its team.        *)
InItem(r, a, n) ==
  IF a <= Len(launch.program) THEN <<launch.program[a], r, a, n>>
  ELSE IF launch.dynamic \/ r + 1 < n THEN <<"next", r + 1, 0, n>>
  ELSE <<"end", r + 1, 0, n>>
AtValid(r, n) ==
  IF r < n THEN InItem(r, 1, n)
  ELSE IF launch.dynamic THEN <<"index", r, 0, n>> ELSE <<"end", r, 0, n>>
AtChunk(c) ==
  LET r == c * launch.chunk
      n == Least((c + 1) * launch.chunk, launch.league)
  IN  IF c >= 0 THEN InItem(r, 1, n) ELSE <<"end", r, 0, n>>

Meeting(e) ==
  CASE pc[e] = "wait" -> IF launch.dynamic THEN <<"start", LeagueBegin(e), 0, 0>>
                         ELSE AtValid(LeagueBegin(e), LeagueEnd(e))
    [] pc[e] = "valid" -> AtValid(rank[e], end[e])
    [] pc[e] = "functor" -> InItem(rank[e], at[e], end[e])
    [] pc[e] = "claim" -> <<"index", rank[e], 0, end[e]>>
    [] OTHER -> <<call[e], rank[e], IF call[e] \in TeamCall THEN at[e] ELSE 0, end[e]>>
After(m, c) ==
  CASE m[1] \in TeamCall -> InItem(m[2], m[3] + 1, m[4])
    [] m[1] \in {"start", "next"} -> AtValid(m[2], m[4])
    [] m[1] = "index" -> AtChunk(c)
    [] OTHER -> <<"fan_in", m[2], 0, m[4]>>
Heading(e) == After(Meeting(e), index[Base(e)])

(* It waits for its parent to release it; or it is about to leave, because *)
(* it was released or nothing keeps it.                                    *)
Waiting(e) == pc[e] = "met" /\ state[e] = "Rendezvous"
Meets(e, c) == Waiting(e) /\ call[e] = c
Inside(e) == pc[e] \in {"met", "release"}

BeforeStart(e) ==
  launch.dynamic /\ (pc[e] = "wait" \/ (call[e] = "start" /\ (pc[e] = "fan_in" \/ Waiting(e))))
AfterEnd(e) ==
  \/ call[e] = "fan_in"
  \/ call[e] = "end" /\ (pc[e] = "release" \/ (pc[e] = "met" /\ state[e] = "Active"))
PoolOut(c) == IF c = "start" THEN ~BeforeStart(0) ELSE AfterEnd(0)
Out(e) ==
  \/ pc[e] = "release"
  \/ pc[e] = "met" /\ IF OfPool(e) THEN PoolOut(call[e]) ELSE state[e] = "Active"

(* A member of a team and its lead are in the same collective, or the one  *)
(* is leaving it and the other has left.                                   *)
With(e, b) ==
  IF Out(b)
    THEN (Inside(e) /\ Meeting(e) = Meeting(b)) \/ (~Out(e) /\ Meeting(e) = Heading(b))
    ELSE (~Out(e) /\ Meeting(e) = Meeting(b)) \/ (Inside(e) /\ Heading(e) = Meeting(b))
Together == \A e, b \in Teamed : b = Base(e) => With(e, b)

(* What a member knows of its i-th fan-in child c                          *)
Sits(e, c) == Waiting(c) /\ Meeting(c) = Meeting(e)
TeamEdge(e, i, c) ==
  /\ pc[e] = "fan_in" /\ ~OfPool(e) /\ i < wi[e] => Sits(e, c)
  /\ pc[e] = "met" /\ ~OfPool(e) => Sits(e, c)
  /\ pc[e] = "release" /\ ~OfPool(e) /\ i >= wi[e] => Sits(e, c)
  /\ Waiting(c) /\ ~Out(e) => Meeting(c) = Meeting(e)
  /\ Waiting(c) /\ pc[e] = "release" /\ ~OfPool(e) /\ i < wi[e] => Meeting(c) = Heading(e)
  /\ Waiting(c) /\ Out(e) /\ OfPool(e) => call[c] = call[e] \/ Meeting(c) = Heading(e)
TeamEdges == \A e \in Teamed : \A i \in TeamFan(e) : TeamEdge(e, i, FanChild(e, i))

(* What a thread knows of its i-th fan-in child d in the pool              *)
PoolEdge(e, i, d) ==
  /\ pc[e] = "fan_in" /\ call[e] \in {"start", "end"} /\ i < wi[e] => Meets(d, call[e])
  /\ Waiting(e) /\ call[e] \in {"start", "end"} /\ ~PoolOut(call[e]) => Meets(d, call[e])
  /\ pc[e] = "fan_in" /\ call[e] = "fan_in" /\ i < wi[e] => pc[d] = "done"
  /\ pc[e] = "done" => pc[d] = "done"
PoolEdges == \A e \in Pool : \A i \in PoolFan(e) : PoolEdge(e, i, FanChild(e, i))

(* Nobody passes a barrier of the pool before the root has.                *)
Releasing(c) == pc[0] = "release" /\ call[0] = c
Freed(e) == e >= launch.pool - wi[0]
PoolStages ==
  /\ BeforeStart(0) => \A e \in Pool : BeforeStart(e)
  /\ ~AfterEnd(0) => \A e \in Pool : ~AfterEnd(e)
  /\ Releasing("start") =>
       \A e \in Pool \ {0} : IF Freed(e) THEN ~BeforeStart(e) ELSE Meets(e, "start")
  /\ ~BeforeStart(0) /\ ~Releasing("start") => \A e \in Pool : ~BeforeStart(e)
  /\ Releasing("end") =>
       \A e \in Pool \ {0} : IF Freed(e) THEN AfterEnd(e) ELSE Meets(e, "end")
  /\ call[0] = "fan_in" => \A e \in Pool : AfterEnd(e)

StateOf(e) ==
  /\ e < mi <=> state[e] = "Inactive" /\ pc[e] # "done"
  /\ e < mi => pc[e] = "wait"
  /\ pc[e] \in {"valid", "functor", "claim", "fan_in", "release"} => state[e] = "Active"
  /\ pc[e] = "wait" => state[e] # "Rendezvous"
  /\ pc[e] = "met" => state[e] # "Inactive"
  /\ pc[e] = "done" => state[e] = "Inactive"
SiteOf(e) ==
  /\ pc[e] = "met" => ~Root(e) /\ call[e] # "fan_in"
  /\ pc[e] = "claim" => Leads(e) /\ launch.dynamic
  /\ pc[e] = "functor" => ~Idle(e)
  /\ pc[e] = "done" => call[e] = "fan_in"
  /\ pc[e] = "release" => call[e] # "fan_in" /\ wi[e] <= Releases(e)
  /\ pc[e] = "fan_in" => wi[e] <= Fans(e)
  /\ call[e] = "fan_in" => pc[e] \in {"fan_in", "done"}
  /\ call[e] = "end" => pc[e] \in {"fan_in", "met", "release"}
  /\ pc[e] = "wait" => call[e] = "start"
  /\ pc[e] \in {"fan_in", "met", "release"} =>
       /\ call[e] \in {"start", "index"} => launch.dynamic
       /\ Idle(e) => OfPool(e)
       /\ call[e] \in TeamCall =>
            at[e] <= Len(launch.program) /\ call[e] = launch.program[at[e]]
  /\ Idle(e) => rank[e] = 0 /\ end[e] = 0
Sites == \A e \in Pool : StateOf(e) /\ SiteOf(e)

(* The types, without those of the values                                  *)
Typed ==
  /\ launch \in Launches /\ mi \in 0..launch.pool
  /\ state \in [Entry -> {"Inactive", "Active", "Rendezvous"}]
  /\ pc \in [Entry -> {"wait", "valid", "functor", "claim", "fan_in", "met", "release", "done"}]
  /\ call \in [Entry -> TeamCall \cup PoolCall \cup {"index", "next"}]
  /\ range \in [Entry -> Pair] /\ target \in [Entry -> Entry]
  /\ index \in [Entry -> Nat \cup {-1}] /\ stealing \in [Entry -> BOOLEAN]
  /\ wi \in [Entry -> 0..launch.pool] /\ at \in [Entry -> 1..(Len(launch.program) + 1)]
  /\ rank \in [Entry -> Int] /\ end \in [Entry -> Nat]
  /\ ran \in [Item -> Nat]

(* The control of a launch                                                 *)
Control == Typed /\ Sites /\ Together /\ TeamEdges /\ PoolEdges /\ PoolStages

(* The tree of the pool goes along those of the teams: a child of the pool *)
(* that is waited for by its team is waited for by this parent.            *)
TreesAgree(l) ==
  \A e \in Entries(l.pool) : \A i \in 0..(FanCount(e, l.pool) - 1) :
    LET d == FanChild(e, i)
        a == Alloc(l)
    IN  \/ d % a = 0 \/ d % a >= l.team \/ d \div a >= Teams(l)
        \/ d \div a = e \div a /\ i < FanCount(e % a, l.team)
-----------------------------------------------------------------------------
(* Types                                                                   *)

(* The part of the league a team is given                                  *)
LEMMA LeagueFacts ==
  ASSUME launch \in Launches, NEW e \in Teamed
  PROVE  /\ LeagueRank(e) \in 0..(Teams(launch) - 1)
         /\ LeagueBegin(e) \in Nat /\ LeagueEnd(e) \in Nat
         /\ LeagueBegin(e) <= LeagueEnd(e) /\ LeagueEnd(e) <= launch.league
         /\ FirstChunk(LeagueBegin(e), launch.chunk) \in Nat
         /\ LastChunk(LeagueBegin(e), LeagueEnd(e), launch.chunk) \in Nat
         /\ FirstTarget(e) \in Entry
<1>. DEFINE t == Teams(launch)
            n == launch.league
            r == LeagueRank(e)
            q == e \div Alloc(launch)
<1>1. /\ t \in Nat \ {0} /\ n \in Nat /\ launch.chunk \in Nat \ {0} /\ launch.pool \in Nat
      /\ launch.team \in Nat /\ launch.pool <= MaxThreads
  BY LaunchFacts
<1>2. e \in Pool /\ e \in Nat /\ e < launch.pool /\ q \in Nat /\ q < t
  BY EntryFacts DEF Teamed
<1>3. r = t - (q + 1)
  BY DEF LeagueRank
<1>4. LeagueBegin(e) = (n * r) \div t /\ LeagueEnd(e) = (n * (r + 1)) \div t
  BY DEF LeagueBegin, LeagueEnd
<1>. HIDE DEF t, n, r, q
<1>5. r \in 0..(t - 1) /\ r \in Nat
  BY <1>1, <1>2, <1>3
<1>6. /\ n * r \in Nat /\ n * (r + 1) \in Nat /\ n * r <= n * (r + 1)
      /\ n * (r + 1) <= n * t
  <2>1. r * n <= (r + 1) * n /\ (r + 1) * n <= t * n
    BY <1>1, <1>5, Grows
  <2>2. n * r = r * n /\ n * (r + 1) = (r + 1) * n /\ n * t = t * n
    BY <1>1, <1>5
  <2>3. n * r \in Nat /\ n * (r + 1) \in Nat
    BY <1>1, <1>5
  <2>. QED
    BY <2>1, <2>2, <2>3
<1>7. /\ LeagueBegin(e) \in Nat /\ LeagueEnd(e) \in Nat
      /\ LeagueBegin(e) <= LeagueEnd(e) /\ LeagueEnd(e) <= n
  <2>. DEFINE x == n * r
              y == n * (r + 1)
              b == x \div t
              c == y \div t
  <2>1. x \in Nat /\ y \in Nat /\ x <= y /\ y <= n * t
    BY <1>6
  <2>. HIDE DEF x, y
  <2>2. /\ b \in Int /\ b >= 0 /\ t * b <= x /\ x < t * b + t
        /\ c \in Int /\ c >= 0 /\ t * c <= y /\ y < t * c + t
    BY <1>1, <2>1, Division
  <2>. HIDE DEF b, c
  <2>3. b <= c
    <3>1. SUFFICES ASSUME c + 1 <= b PROVE FALSE
      BY <2>2
    <3>2. (c + 1) * t <= b * t
      BY <1>1, <2>2, <3>1, Grows
    <3>3. (c + 1) * t = t * c + t /\ b * t = t * b /\ t * b \in Int /\ t * c \in Int
      BY <1>1, <2>2
    <3>. QED
      BY <1>1, <2>1, <2>2, <3>2, <3>3
  <2>4. c <= n
    <3>1. SUFFICES ASSUME n + 1 <= c PROVE FALSE
      BY <1>1, <2>2
    <3>2. (n + 1) * t <= c * t
      BY <1>1, <2>2, <3>1, Grows
    <3>3. (n + 1) * t = n * t + t /\ c * t = t * c /\ t * c \in Int /\ n * t \in Int
      BY <1>1, <2>2
    <3>. QED
      BY <1>1, <2>1, <2>2, <3>2, <3>3
  <2>. QED
    BY <1>4, <2>2, <2>3, <2>4 DEF b, c, x, y
<1>8. /\ FirstChunk(LeagueBegin(e), launch.chunk) \in Nat
      /\ LastChunk(LeagueBegin(e), LeagueEnd(e), launch.chunk) \in Nat
  BY <1>1, <1>7, RoundsUp DEF FirstChunk, LastChunk
<1>9. FirstTarget(e) \in Entry
  BY <1>1, <1>2 DEF FirstTarget
<1>. QED
  BY <1>5, <1>7, <1>8, <1>9 DEF t, n, r

(* Types to begin with                                                     *)
LEMMA TypedInit == Init => Typed
<1>1. SUFFICES ASSUME Init PROVE Typed
  OBVIOUS
<1>2. launch \in Launches
  BY <1>1 DEF Init
<1>3. launch.pool \in Nat \ {0} /\ launch.program \in Seq(TeamCall) /\ launch.left \in Nat
  BY <1>2, LaunchFacts
<1>4. Len(launch.program) \in Nat
  BY <1>3
<1>. QED
  BY <1>1, <1>2, <1>3, <1>4 DEF Init, Typed, Pair, PoolCall

(* One thread                                                              *)
LEMMA ThreadFacts ==
  ASSUME Typed, NEW e \in Pool
  PROVE  /\ e \in Entry /\ e \in Nat /\ e < launch.pool /\ launch.pool \in Nat \ {0}
         /\ launch \in Launches /\ mi \in Nat /\ 0 \in Pool /\ 0 \in Entry
         /\ wi[e] \in Nat /\ wi[e] <= launch.pool /\ at[e] \in Nat /\ Len(launch.program) \in Nat
         /\ call[e] \in TeamCall \cup PoolCall \cup {"index", "next"}
         /\ pc[e] \in {"wait", "valid", "functor", "claim", "fan_in", "met", "release", "done"}
         /\ state[e] \in {"Inactive", "Active", "Rendezvous"}
         /\ rank[e] \in Int /\ end[e] \in Nat /\ launch.dynamic \in BOOLEAN
<1>1. launch \in Launches /\ mi \in 0..launch.pool
  BY DEF Typed
<1>2. /\ launch.pool \in Nat \ {0} /\ launch.program \in Seq(TeamCall)
      /\ launch.dynamic \in BOOLEAN /\ launch.pool <= MaxThreads
  BY <1>1, LaunchFacts
<1>3. e \in Entry /\ e \in Nat /\ e < launch.pool /\ 0 \in Pool /\ 0 \in Entry
  BY <1>2 DEF Pool, Entries
<1>4. Len(launch.program) \in Nat
  BY <1>2
<1>5. wi[e] \in 0..launch.pool /\ at[e] \in 1..(Len(launch.program) + 1)
  BY <1>3 DEF Typed
<1>6. /\ call[e] \in TeamCall \cup PoolCall \cup {"index", "next"}
      /\ pc[e] \in {"wait", "valid", "functor", "claim", "fan_in", "met", "release", "done"}
      /\ state[e] \in {"Inactive", "Active", "Rendezvous"}
      /\ rank[e] \in Int /\ end[e] \in Nat
  BY <1>3 DEF Typed
<1>. QED
  BY <1>1, <1>2, <1>3, <1>4, <1>5, <1>6

(* How many it waits for and releases                                      *)
LEMMA FansType ==
  ASSUME Typed, NEW e \in Pool, SiteOf(e), pc[e] \in {"fan_in", "met", "release"}
  PROVE  /\ Fans(e) \in Nat /\ Fans(e) <= launch.pool
         /\ Releases(e) \in Nat /\ Releases(e) <= launch.pool
<1>1. e \in Pool /\ launch \in Launches /\ launch.pool \in Nat
  BY ThreadFacts
<1>2. CASE OfPool(e)
  <2>1. Fans(e) = PoolFans(e) /\ Releases(e) \in {0, launch.pool}
    BY <1>2 DEF Fans, PoolFans, Releases
  <2>. QED
    BY <1>1, <2>1, PoolTree
<1>3. CASE ~OfPool(e)
  <2>1. e \in Teamed
    BY <1>3 DEF SiteOf, Teamed
  <2>2. Fans(e) = TeamFans(e) /\ Releases(e) = TeamFans(e)
    BY <1>3 DEF Fans, TeamFans, Releases
  <2>. QED
    BY <1>1, <2>1, <2>2, TeamTree
<1>. QED
  BY <1>2, <1>3

(* No step of a thread leaves the types.                                   *)
LEMMA TypedThread ==
  ASSUME Typed, NEW e \in Pool, SiteOf(e), Thread(e)
  PROVE  Typed'
<1>1. /\ e \in Entry /\ e \in Nat /\ launch \in Launches /\ launch.pool \in Nat
      /\ wi[e] \in 0..launch.pool /\ at[e] \in 1..(Len(launch.program) + 1)
      /\ Len(launch.program) \in Nat /\ launch.program \in Seq(TeamCall)
      /\ 0 \in 0..launch.pool /\ 1 \in 1..(Len(launch.program) + 1)
      /\ launch.chunk \in Nat \ {0} /\ launch.league \in Nat
  <2>1. e \in Entry /\ e \in Nat /\ launch \in Launches /\ Len(launch.program) \in Nat
    BY ThreadFacts
  <2>2. /\ launch.pool \in Nat /\ launch.program \in Seq(TeamCall)
        /\ launch.chunk \in Nat \ {0} /\ launch.league \in Nat
    BY <2>1, LaunchFacts
  <2>3. wi[e] \in 0..launch.pool /\ at[e] \in 1..(Len(launch.program) + 1)
    BY <2>1 DEF Typed
  <2>. QED
    BY <2>1, <2>2, <2>3
<1>. DEFINE CallName == TeamCall \cup PoolCall \cup {"index", "next"}
            Moved == /\ pc' \in [Entry -> {"wait", "valid", "functor", "claim", "fan_in", "met",
                                           "release", "done"}]
                     /\ call' \in [Entry -> CallName] /\ wi' \in [Entry -> 0..launch.pool]
<1>20. ASSUME NEW from, NEW c \in CallName, Enter(e, from, c) PROVE Moved
  BY <1>1, <1>20 DEF Enter, Go, Typed
<1>21. ASSUME NEW from, NEW to \in {"valid", "functor", "claim", "met", "done"}, GoOn(e, from, to)
       PROVE  Moved
  BY <1>1, <1>21 DEF GoOn, Go, Typed
<1>22. {"start", "end", "fan_in", "index", "next"} \subseteq CallName /\ TeamCall \subseteq CallName
  BY DEF PoolCall
<1>23. ASSUME Moved
       PROVE  /\ pc' \in [Entry -> {"wait", "valid", "functor", "claim", "fan_in", "met",
                                    "release", "done"}]
              /\ call' \in [Entry -> TeamCall \cup PoolCall \cup {"index", "next"}]
              /\ wi' \in [Entry -> 0..launch.pool]
  BY <1>23
<1>. HIDE DEF CallName, Moved
<1>2. ASSUME Construct(e) PROVE Typed'
  <2>. DEFINE r == IF Idle(e) THEN 0 ELSE LeagueBegin(e)
              n == IF Idle(e) \/ launch.dynamic THEN 0 ELSE LeagueEnd(e)
              b == FirstChunk(LeagueBegin(e), launch.chunk)
              c == LastChunk(LeagueBegin(e), LeagueEnd(e), launch.chunk)
              f == FirstTarget(e)
  <2>1. r \in Int /\ n \in Nat
    BY <1>1, LeagueFacts DEF Teamed
  <2>2. Leads(e) => b \in Nat /\ c \in Nat /\ f \in Entry
    BY <1>1, LeagueFacts DEF Teamed, Leads
  <2>3. /\ launch' = launch /\ mi' = mi /\ state' = state /\ index' = index /\ at' = at
        /\ ran' = ran /\ rank' = [rank EXCEPT ![e] = r] /\ end' = [end EXCEPT ![e] = n]
    BY <1>2 DEF Construct
  <2>4. \/ /\ Leads(e) /\ range' = [range EXCEPT ![e] = [first |-> b, second |-> c]]
           /\ target' = [target EXCEPT ![e] = f] /\ stealing' = [stealing EXCEPT ![e] = FALSE]
        \/ range' = range /\ target' = target /\ stealing' = stealing
    BY <1>2 DEF Construct
  <2>5. Moved
    BY <1>2, <1>20, <1>21, <1>22 DEF Construct
  <2>. HIDE DEF r, n, b, c, f
  <2>6. /\ range' \in [Entry -> Pair] /\ target' \in [Entry -> Entry]
        /\ stealing' \in [Entry -> BOOLEAN]
    <3>1. CASE Leads(e) /\ range' = [range EXCEPT ![e] = [first |-> b, second |-> c]]
               /\ target' = [target EXCEPT ![e] = f] /\ stealing' = [stealing EXCEPT ![e] = FALSE]
      <4>1. [first |-> b, second |-> c] \in Pair
        BY <2>2, <3>1 DEF Pair
      <4>. QED
        BY <1>1, <2>2, <3>1, <4>1 DEF Typed
    <3>2. CASE range' = range /\ target' = target /\ stealing' = stealing
      BY <3>2 DEF Typed
    <3>. QED
      BY <2>4, <3>1, <3>2
  <2>7. rank' \in [Entry -> Int] /\ end' \in [Entry -> Nat]
    BY <1>1, <2>1, <2>3 DEF Typed
  <2>8. Item' = Item
    BY <2>3 DEF Item, Places
  <2>. QED
    BY <1>23, <2>3, <2>5, <2>6, <2>7, <2>8 DEF Typed
<1>3. ASSUME launch' = launch PROVE Item' = Item
  BY <1>3 DEF Item, Places
<1>4. ASSUME NEW r \in Int, ran' = [i \in Item |-> IF i = <<r, Place(e)>> THEN ran[i] + 1 ELSE ran[i]]
      PROVE  ran' \in [Item -> Nat]
  <2>1. PICK x : x = <<r, Place(e)>>
    OBVIOUS
  <2>2. ran' = [i \in Item |-> IF i = x THEN ran[i] + 1 ELSE ran[i]]
    BY <1>4, <2>1
  <2>3. ran \in [Item -> Nat]
    BY DEF Typed
  <2>4. \A i \in Item : ran[i] \in Nat
    BY <2>3, Zenon
  <2>5. \A i \in Item : ran[i] + 1 \in Nat
    BY <2>4
  <2>. QED
    BY <2>2, <2>4, <2>5, Zenon
<1>5. ASSUME Valid(e) PROVE Typed'
  <2>1. ran' \in [Item -> Nat]
    BY <1>1, <1>4, <1>5 DEF Valid, RunFunctor, Typed
  <2>2. Moved
    BY <1>5, <1>21 DEF Valid
  <2>. QED
    BY <1>1, <1>3, <1>5, <1>23, <2>1, <2>2 DEF Valid, RunFunctor, Typed, claims
<1>6. ASSUME NotValid(e) PROVE Typed'
  <2>1. Moved
    BY <1>6, <1>20, <1>21, <1>22 DEF NotValid
  <2>. QED
    BY <1>3, <1>6, <1>23, <2>1 DEF NotValid, Typed, claims, place
<1>7. ASSUME NextItem(e) PROVE Typed'
  <2>1. Moved
    BY <1>7, <1>20, <1>21, <1>22 DEF NextItem
  <2>2. rank' \in [Entry -> Int]
    <3>0. rank[e] \in Int
      BY ThreadFacts
    <3>1. rank \in [Entry -> Int]
      BY DEF Typed
    <3>3. rank[e] + 1 \in Int
      BY <3>0
    <3>2. rank' = [rank EXCEPT ![e] = rank[e] + 1]
      BY <1>7 DEF NextItem
    <3>. QED
      BY <1>1, <3>1, <3>2, <3>3
  <2>. QED
    BY <1>3, <1>7, <1>23, <2>1, <2>2 DEF NextItem, Typed, claims
<1>8. ASSUME Claim(e) PROVE Typed'
  <2>1. CASE ClaimOwn(e)
    <3>1. range[e] \in Pair
      BY <1>1 DEF Typed
    <3>2. range' = [range EXCEPT ![e] = [range[e] EXCEPT !.first = @ + 1]]
      BY <2>1 DEF ClaimOwn
    <3>3. [range[e] EXCEPT !.first = @ + 1] \in Pair /\ range[e].first \in Nat
      BY <3>1 DEF Pair
    <3>4. Moved
      BY <2>1, <1>20, <1>22 DEF ClaimOwn, Publish
    <3>5. range' \in [Entry -> Pair]
      BY <1>1, <3>2, <3>3 DEF Typed
    <3>6. index' \in [Entry -> Nat \cup {-1}]
      BY <1>1, <2>1, <3>3 DEF ClaimOwn, Publish, Typed
    <3>. QED
      BY <1>3, <1>23, <2>1, <3>4, <3>5, <3>6 DEF ClaimOwn, ClaimStep, Typed, place
  <2>2. CASE Exhausted(e)
    BY <1>1, <1>3, <2>2 DEF Exhausted, ClaimStep, Typed, place
  <2>3. CASE SkipTarget(e)
    <3>1. NextTarget(target[e]) \in Entry
      <4>1. target[e] \in Nat /\ Alloc(launch) \in Nat /\ launch.pool <= MaxThreads
        BY <1>1, LaunchFacts DEF Typed
      <4>2. /\ NextTarget(target[e]) = IF target[e] + Alloc(launch) < launch.pool
                                         THEN target[e] + Alloc(launch) ELSE 0
            /\ target[e] + Alloc(launch) \in Nat
        BY <4>1 DEF NextTarget
      <4>. HIDE DEF NextTarget
      <4>. QED
        BY <1>1, <4>1, <4>2
    <3>2. target' = [target EXCEPT ![e] = NextTarget(target[e])]
      BY <2>3 DEF SkipTarget
    <3>3. target' \in [Entry -> Entry]
      BY <1>1, <3>1, <3>2 DEF Typed
    <3>. QED
      BY <1>3, <2>3, <3>3 DEF SkipTarget, ClaimStep, Typed, place
  <2>4. CASE Steal(e)
    <3>. DEFINE t == target[e]
    <3>1. t \in Entry /\ range[t] \in Pair
      BY <1>1 DEF Typed
    <3>2. range' = [range EXCEPT ![t] = [range[t] EXCEPT !.second = @ - 1]]
      BY <2>4 DEF Steal
    <3>3. [range[t] EXCEPT !.second = @ - 1] \in Pair /\ range[t].second - 1 \in Nat
      BY <2>4, <3>1 DEF Pair, Steal, Empty
    <3>4. range' \in [Entry -> Pair]
      <4>. HIDE DEF t
      <4>. QED
        BY <3>1, <3>2, <3>3 DEF Typed
    <3>5. index' = [index EXCEPT ![e] = range[t].second - 1]
      BY <2>4 DEF Steal, Publish
    <3>6. index' \in [Entry -> Nat \cup {-1}]
      BY <1>1, <3>3, <3>5 DEF Typed
    <3>. QED
      BY <1>1, <1>3, <2>4, <3>4, <3>6 DEF Steal, ClaimStep, Publish, Enter, Go, Typed, place
  <2>5. CASE NoTarget(e)
    BY <1>1, <1>3, <2>5 DEF NoTarget, ClaimStep, Publish, Enter, Go, Typed, place
  <2>. QED
    BY <1>8, <2>1, <2>2, <2>3, <2>4, <2>5 DEF Claim
<1>9. ASSUME Call(e) PROVE Typed'
  <2>1. launch.program[at[e]] \in TeamCall
    BY <1>1, <1>9 DEF Call
  <2>. QED
    BY <1>1, <1>3, <1>9, <2>1 DEF Call, Enter, Go, Typed, claims, place
<1>10. ASSUME FanIn(e) PROVE Typed'
  <2>1. wi[e] + 1 \in 0..launch.pool
    BY <1>1, <1>10, FansType DEF FanIn
  <2>. QED
    BY <1>1, <1>3, <1>10, <2>1 DEF FanIn, Typed, claims, place
<1>11. ASSUME Meet(e) \/ Deactivate(e) PROVE Typed'
  BY <1>1, <1>3, <1>11 DEF Meet, Deactivate, GoOn, Go, Set, Typed, claims, place
<1>12. ASSUME RootActs(e) \/ Resume(e) PROVE Typed'
  <2>1. /\ pc' = [pc EXCEPT ![e] = "release"] /\ wi' = [wi EXCEPT ![e] = 0]
        /\ launch' = launch /\ mi' = mi /\ state' = state /\ call' = call
        /\ UNCHANGED claims /\ UNCHANGED place
    BY <1>12 DEF RootActs, Resume, Go
  <2>2. /\ pc' \in [Entry -> {"wait", "valid", "functor", "claim", "fan_in", "met", "release",
                              "done"}]
        /\ wi' \in [Entry -> 0..launch.pool]
    BY <1>1, <2>1 DEF Typed
  <2>. QED
    BY <1>3, <2>1, <2>2 DEF Typed, claims, place
<1>13. ASSUME Release(e) PROVE Typed'
  <2>1. wi[e] + 1 \in 0..launch.pool
    BY <1>1, <1>13, FansType DEF Release
  <2>. QED
    BY <1>1, <1>3, <1>13, <2>1 DEF Release, Set, Typed, claims, place
<1>14. ASSUME Return(e) PROVE Typed'
  <2>1. at[e] + 1 \in 1..(Len(launch.program) + 1)
    BY <1>1, <1>14 DEF Return, Left, SiteOf
  <2>. QED
    BY <1>1, <1>3, <1>14, <2>1 DEF Return, GoOn, Go, Typed, claims
<1>15. ASSUME Again(e) \/ LastFanIn(e) PROVE Typed'
  <2>1. Moved
    BY <1>15, <1>20, <1>21, <1>22 DEF Again, LastFanIn
  <2>. QED
    <3>1. /\ launch' = launch /\ mi' = mi /\ state' = state
          /\ UNCHANGED claims /\ UNCHANGED place
      BY <1>15 DEF Again, LastFanIn
    <3>. QED
      BY <1>3, <1>23, <2>1, <3>1 DEF Typed, claims, place
<1>16. ASSUME TakeChunk(e) PROVE Typed'
  <2>. DEFINE c == index[Base(e)]
              r == c * launch.chunk
              n == Least((c + 1) * launch.chunk, launch.league)
  <2>1. Base(e) \in Entry
    <3>1. Base(e) \in Nat /\ Place(e) \in Nat /\ e = Base(e) + Place(e) /\ Alloc(launch) \in Nat
      BY <1>1, EntryFacts, LaunchFacts
    <3>. QED
      BY <1>1, <3>1
  <2>2. c \in Nat \cup {-1}
    BY <2>1 DEF Typed
  <2>3. r \in Int /\ n \in Nat
    <3>. HIDE DEF c
    <3>. QED
      BY <1>1, <2>2 DEF Least
  <2>4. /\ launch' = launch /\ mi' = mi /\ state' = state /\ index' = index /\ range' = range
        /\ target' = target /\ stealing' = stealing
        /\ rank' = [rank EXCEPT ![e] = r] /\ end' = [end EXCEPT ![e] = n]
        /\ \/ GoOn(e, "release", "functor") /\ RunFunctor(e, r)
           \/ Enter(e, "release", "end") /\ UNCHANGED <<at, ran>>
    BY <1>16 DEF TakeChunk, claims
  <2>. HIDE DEF r, n
  <2>5. rank' \in [Entry -> Int] /\ end' \in [Entry -> Nat]
    BY <1>1, <2>3, <2>4 DEF Typed
  <2>6. CASE GoOn(e, "release", "functor") /\ RunFunctor(e, r)
    <3>1. ran' \in [Item -> Nat]
      BY <1>4, <2>3, <2>6 DEF RunFunctor
    <3>. QED
      BY <1>1, <1>3, <2>4, <2>5, <2>6, <3>1 DEF GoOn, Go, RunFunctor, Typed
  <2>7. CASE Enter(e, "release", "end") /\ UNCHANGED <<at, ran>>
    BY <1>1, <1>3, <2>4, <2>5, <2>7 DEF Enter, Go, Typed, PoolCall
  <2>. QED
    BY <2>4, <2>6, <2>7
<1>. QED
  BY <1>2, <1>5, <1>6, <1>7, <1>8, <1>9, <1>10, <1>11, <1>12, <1>13, <1>14, <1>15, <1>16
  DEF Thread, Loop, Collective, Leave

-----------------------------------------------------------------------------
(* What a step leaves alone                                                *)

Untouched(d) ==
  /\ pc'[d] = pc[d] /\ call'[d] = call[d] /\ wi'[d] = wi[d]
  /\ rank'[d] = rank[d] /\ end'[d] = end[d] /\ at'[d] = at[d]

(* A step of a thread changes another's word alone, by releasing it.       *)
LEMMA Others ==
  ASSUME Typed, NEW e \in Pool, Thread(e)
  PROVE  /\ launch' = launch /\ mi' = mi
         /\ \A d \in Entry : d # e =>
              /\ Untouched(d) /\ index'[d] = index[d]
              /\ state'[d] = state[d]
                   \/ (Release(e) /\ d = Released(e, wi[e]) /\ state'[d] = "Active")
<1>1. e \in Entry
  BY ThreadFacts
<1>2. CASE Loop(e)
  <2>1. CASE Construct(e)
    BY <1>1, <2>1 DEF Typed, Untouched, Construct, Enter, GoOn, Go
  <2>2. CASE Valid(e)
    BY <1>1, <2>2 DEF Typed, Untouched, Valid, GoOn, Go, RunFunctor, claims
  <2>3. CASE NotValid(e)
    BY <1>1, <2>3 DEF Typed, Untouched, NotValid, Enter, GoOn, Go, claims, place
  <2>4. CASE NextItem(e)
    BY <1>1, <2>4 DEF Typed, Untouched, NextItem, Enter, GoOn, Go, claims
  <2>. QED
    BY <1>2, <2>1, <2>2, <2>3, <2>4 DEF Loop
<1>3. CASE Claim(e)
  <2>1. CASE ClaimOwn(e)
    BY <1>1, <2>1 DEF Typed, Untouched, ClaimOwn, ClaimStep, Publish, Enter, Go, place
  <2>2. CASE Exhausted(e)
    BY <1>1, <2>2 DEF Untouched, Exhausted, ClaimStep, place
  <2>3. CASE SkipTarget(e)
    BY <1>1, <2>3 DEF Untouched, SkipTarget, ClaimStep, place
  <2>4. CASE Steal(e)
    BY <1>1, <2>4 DEF Typed, Untouched, Steal, ClaimStep, Publish, Enter, Go, place
  <2>5. CASE NoTarget(e)
    BY <1>1, <2>5 DEF Typed, Untouched, NoTarget, ClaimStep, Publish, Enter, Go, place
  <2>. QED
    BY <1>3, <2>1, <2>2, <2>3, <2>4, <2>5 DEF Claim
<1>4. CASE Collective(e)
  <2>1. CASE Call(e)
    BY <1>1, <2>1 DEF Typed, Untouched, Call, Enter, Go, claims, place
  <2>2. CASE FanIn(e)
    BY <1>1, <2>2 DEF Typed, Untouched, FanIn, claims, place
  <2>3. CASE Meet(e)
    BY <1>1, <2>3 DEF Typed, Untouched, Meet, GoOn, Go, Set, claims, place
  <2>4. CASE RootActs(e)
    BY <1>1, <2>4 DEF Typed, Untouched, RootActs, Go, claims, place
  <2>5. CASE Resume(e)
    BY <1>1, <2>5 DEF Typed, Untouched, Resume, Go, claims, place
  <2>6. CASE Release(e)
    BY <1>1, <2>6 DEF Typed, Untouched, Release, Set, claims, place
  <2>. QED
    BY <1>4, <2>1, <2>2, <2>3, <2>4, <2>5, <2>6 DEF Collective
<1>5. CASE Leave(e)
  <2>1. CASE Return(e)
    BY <1>1, <2>1 DEF Typed, Untouched, Return, GoOn, Go, claims
  <2>2. CASE Again(e)
    BY <1>1, <2>2 DEF Typed, Untouched, Again, GoOn, Go, claims, place
  <2>3. CASE TakeChunk(e)
    BY <1>1, <2>3 DEF Typed, Untouched, TakeChunk, Enter, GoOn, Go, RunFunctor, claims
  <2>4. CASE LastFanIn(e)
    BY <1>1, <2>4 DEF Typed, Untouched, LastFanIn, Enter, Go, claims, place
  <2>5. CASE Deactivate(e)
    BY <1>1, <2>5 DEF Typed, Untouched, Deactivate, GoOn, Go, Set, claims, place
  <2>. QED
    BY <1>5, <2>1, <2>2, <2>3, <2>4, <2>5 DEF Leave
<1>. QED
  BY <1>2, <1>3, <1>4, <1>5 DEF Thread

(* What follows from the launch is kept with it.                           *)
LEMMA LaunchKept ==
  ASSUME launch' = launch
  PROVE  /\ Pool' = Pool /\ Teamed' = Teamed
         /\ \A e \in Pool :
              /\ Place(e)' = Place(e) /\ Base(e)' = Base(e) /\ Idle(e)' = Idle(e)
              /\ Leads(e)' = Leads(e)
              /\ TeamFans(e)' = TeamFans(e) /\ PoolFans(e)' = PoolFans(e)
              /\ TeamFan(e)' = TeamFan(e) /\ PoolFan(e)' = PoolFan(e)
BY DEF Pool, Teamed, Place, Base, Idle, Leads, TeamFan, PoolFan, TeamFans, PoolFans

(* A thread that is not touched stays where it can be.                     *)
LEMMA SiteKept ==
  ASSUME launch' = launch, NEW d \in Pool, Untouched(d), SiteOf(d)
  PROVE  SiteOf(d)'
<1>1. Root(d)' = Root(d) /\ Fans(d)' = Fans(d) /\ Releases(d)' = Releases(d) /\ OfPool(d)' = OfPool(d)
  BY DEF Untouched, Root, Fans, Releases, OfPool, Place
<1>2. Leads(d)' = Leads(d) /\ Idle(d)' = Idle(d)
  BY LaunchKept
<1>3. call'[d] = call[d] => (call[d] \in TeamCall)' = (call[d] \in TeamCall)
  OBVIOUS
<1>. QED
  BY <1>1, <1>2 DEF SiteOf, Untouched

(* Counting                                                                *)
LEMMA OneMore ==
  ASSUME NEW a \in Nat, NEW b \in Nat, a < b
  PROVE  a + 1 <= b
OBVIOUS

LEMMA Exceeds ==
  ASSUME NEW a \in Nat, NEW b \in Nat, a > b
  PROVE  ~(a <= b)
OBVIOUS

(* A thread's site after its own step                                      *)
LEMMA SiteThread ==
  ASSUME Typed, NEW e \in Pool, SiteOf(e), StateOf(e), Thread(e)
  PROVE  SiteOf(e)'
<1>1. /\ e \in Entry /\ launch' = launch /\ Idle(e)' = Idle(e) /\ Leads(e)' = Leads(e)
      /\ Place(e)' = Place(e)
  BY ThreadFacts, Others, LaunchKept
<1>2. pc \in [Entry -> {"wait", "valid", "functor", "claim", "fan_in", "met", "release", "done"}]
  BY DEF Typed
<1>3. /\ call \in [Entry -> TeamCall \cup PoolCall \cup {"index", "next"}]
      /\ wi \in [Entry -> 0..launch.pool]
  BY DEF Typed
<1>4. /\ rank \in [Entry -> Int] /\ end \in [Entry -> Nat]
      /\ at \in [Entry -> 1..(Len(launch.program) + 1)]
  BY DEF Typed
<1>5. /\ TeamCall \cap PoolCall = {} /\ "index" \notin TeamCall \cup PoolCall
      /\ "next" \notin TeamCall \cup PoolCall /\ {"start", "end", "fan_in"} = PoolCall
  BY DEF TeamCall, PoolCall
<1>6. (OfPool(e)' <=> call'[e] \in PoolCall) /\ (OfPool(e) <=> call[e] \in PoolCall)
  BY DEF OfPool
<1>. USE <1>1, <1>2, <1>3, <1>4, <1>5, <1>6
<1>7. ASSUME NEW c, NEW from, Enter(e, from, c)
      PROVE  pc'[e] = "fan_in" /\ call'[e] = c /\ wi'[e] = 0 /\ pc[e] = from
  BY <1>7 DEF Enter, Go
<1>8. ASSUME NEW to, NEW from, GoOn(e, from, to)
      PROVE  pc'[e] = to /\ call'[e] = call[e] /\ wi'[e] = wi[e] /\ pc[e] = from
  BY <1>8 DEF GoOn, Go
<1>9. /\ Fans(e)' = IF OfPool(e)' THEN PoolFans(e) ELSE TeamFans(e)
      /\ Fans(e) = IF OfPool(e) THEN PoolFans(e) ELSE TeamFans(e)
      /\ Releases(e)' = IF OfPool(e)' THEN IF e = 0 THEN launch.pool ELSE 0 ELSE TeamFans(e)
      /\ Releases(e) = IF OfPool(e) THEN IF e = 0 THEN launch.pool ELSE 0 ELSE TeamFans(e)
  BY DEF Fans, Releases, PoolFans, TeamFans
<1>10. PoolFans(e) \in Nat /\ launch.pool \in Nat /\ (~Idle(e) => TeamFans(e) \in Nat)
  <2>1. launch \in Launches /\ launch.pool \in Nat
    BY ThreadFacts
  <2>. QED
    BY <2>1, PoolTree, TeamTree DEF Teamed
<1>11. Root(e)' <=> IF OfPool(e)' THEN e = 0 ELSE Place(e) = 0
  BY DEF Root
<1>12. Root(e) <=> IF OfPool(e) THEN e = 0 ELSE Place(e) = 0
  BY DEF Root
<1>13. ASSUME NEW c, pc'[e] = "fan_in", call'[e] = c, wi'[e] = 0,
              c \in {"start", "index"} => launch.dynamic,
              Idle(e) => c \in PoolCall /\ rank'[e] = 0 /\ end'[e] = 0,
              c \in TeamCall => at'[e] <= Len(launch.program) /\ c = launch.program[at'[e]]
       PROVE  SiteOf(e)'
  <2>1. wi'[e] <= Fans(e)'
    BY <1>9, <1>10, <1>13
  <2>. QED
    BY <1>13, <2>1 DEF SiteOf
<1>14. Leads(e) => ~Idle(e)
  BY DEF Leads
<1>15. ASSUME Construct(e) PROVE SiteOf(e)'
  <2>1. Idle(e) => rank'[e] = 0 /\ end'[e] = 0
    BY <1>15 DEF Construct
  <2>2. CASE launch.dynamic
    BY <1>7, <1>13, <1>15, <2>1, <2>2 DEF Construct
  <2>3. CASE ~launch.dynamic
    <3>1. pc'[e] = "valid" /\ call'[e] = call[e] /\ call[e] = "start"
      BY <1>8, <1>15, <2>3 DEF Construct, SiteOf
    <3>. QED
      BY <2>1, <3>1 DEF SiteOf
  <2>. QED
    BY <2>2, <2>3
<1>16. ASSUME Valid(e) PROVE SiteOf(e)'
  <2>1. pc'[e] = "functor" /\ call'[e] = call[e] /\ rank'[e] = rank[e] /\ end'[e] = end[e]
        /\ pc[e] = "valid"
    BY <1>8, <1>16 DEF Valid
  <2>2. ~Idle(e)
    BY <1>16 DEF Valid, HasItem, SiteOf
  <2>. QED
    BY <2>1, <2>2 DEF SiteOf
<1>17. ASSUME NotValid(e) PROVE SiteOf(e)'
  <2>1. rank'[e] = rank[e] /\ end'[e] = end[e] /\ at'[e] = at[e]
    BY <1>17 DEF NotValid, place
  <2>2. CASE ~launch.dynamic \/ Idle(e)
    BY <1>7, <1>13, <1>17, <2>1, <2>2 DEF NotValid, SiteOf
  <2>3. CASE launch.dynamic /\ ~Idle(e) /\ Leads(e)
    <3>1. pc'[e] = "claim" /\ call'[e] = call[e] /\ pc[e] = "valid"
      BY <1>8, <1>17, <2>3 DEF NotValid
    <3>. QED
      BY <2>1, <2>3, <3>1 DEF SiteOf
  <2>4. CASE launch.dynamic /\ ~Idle(e) /\ ~Leads(e)
    BY <1>7, <1>13, <1>17, <2>1, <2>4 DEF NotValid
  <2>. QED
    BY <2>2, <2>3, <2>4
<1>18. ASSUME NextItem(e) PROVE SiteOf(e)'
  <2>1. pc[e] = "functor" /\ ~Idle(e)
    BY <1>7, <1>8, <1>18 DEF NextItem, SiteOf
  <2>2. CASE MeetsAgain(e)
    BY <1>7, <1>13, <1>18, <2>1, <2>2 DEF NextItem
  <2>3. CASE ~MeetsAgain(e)
    <3>1. pc'[e] = "valid" /\ call'[e] = call[e]
      BY <1>8, <1>18, <2>3 DEF NextItem
    <3>. QED
      BY <2>1, <3>1 DEF SiteOf
  <2>. QED
    BY <2>2, <2>3
<1>19. ASSUME Claim(e) PROVE SiteOf(e)'
  <2>1. /\ pc[e] = "claim" /\ rank' = rank /\ end' = end /\ at' = at
        /\ \/ pc'[e] = "fan_in" /\ call'[e] = "index" /\ wi'[e] = 0
           \/ pc'[e] = "claim" /\ call'[e] = call[e]
    BY <1>7, <1>19
    DEF Claim, ClaimOwn, Exhausted, SkipTarget, Steal, NoTarget, ClaimStep, Publish, place
  <2>2. Leads(e) /\ launch.dynamic
    BY <2>1 DEF SiteOf
  <2>3. CASE pc'[e] = "fan_in" /\ call'[e] = "index" /\ wi'[e] = 0
    BY <1>13, <1>14, <2>2, <2>3
  <2>4. CASE pc'[e] = "claim" /\ call'[e] = call[e]
    BY <2>1, <2>2, <2>4, <1>14 DEF SiteOf
  <2>. QED
    BY <2>1, <2>3, <2>4
<1>20. ASSUME Call(e) PROVE SiteOf(e)'
  <2>1. /\ pc[e] = "functor" /\ pc'[e] = "fan_in" /\ call'[e] = launch.program[at[e]]
        /\ wi'[e] = 0 /\ at'[e] = at[e] /\ at[e] <= Len(launch.program)
    BY <1>7, <1>20 DEF Call, place
  <2>2. ~Idle(e) /\ at[e] \in 1..Len(launch.program)
    BY <2>1 DEF SiteOf
  <2>3. launch.program \in Seq(TeamCall)
    BY ThreadFacts, LaunchFacts
  <2>4. launch.program[at[e]] \in TeamCall
    BY <2>2, <2>3
  <2>. QED
    BY <1>13, <2>1, <2>2, <2>4
<1>21. ASSUME FanIn(e) PROVE SiteOf(e)'
  <2>1. /\ pc[e] = "fan_in" /\ pc' = pc /\ call' = call /\ wi'[e] = wi[e] + 1 /\ wi[e] < Fans(e)
        /\ rank' = rank /\ end' = end /\ at' = at
    BY <1>21 DEF FanIn, place
  <2>2. wi[e] \in Nat /\ Fans(e) \in Nat /\ Fans(e)' = Fans(e)
    BY <1>9, <2>1, FansType, ThreadFacts
  <2>3. wi[e] + 1 <= Fans(e)
    BY <2>1, <2>2, OneMore
  <2>4. wi'[e] <= Fans(e)'
    BY <2>1, <2>2, <2>3, Zenon
  <2>. QED
    BY <2>1, <2>4 DEF SiteOf
<1>22. ASSUME Meet(e) PROVE SiteOf(e)'
  <2>1. /\ pc[e] = "fan_in" /\ pc'[e] = "met" /\ call' = call /\ wi' = wi /\ ~Root(e)
        /\ call[e] # "fan_in" /\ rank' = rank /\ end' = end /\ at' = at
    BY <1>8, <1>22 DEF Meet, place, GoOn
  <2>. QED
    BY <1>11, <1>12, <2>1 DEF SiteOf
<1>23. ASSUME RootActs(e) \/ Resume(e) PROVE SiteOf(e)'
  <2>1. /\ pc[e] \in {"fan_in", "met"} /\ pc'[e] = "release" /\ call' = call /\ wi'[e] = 0
        /\ call[e] # "fan_in" /\ rank' = rank /\ end' = end /\ at' = at
    BY <1>23 DEF RootActs, Resume, place, Go, FannedIn, SiteOf
  <2>2. wi'[e] <= Releases(e)'
    BY <1>9, <1>10, <2>1 DEF SiteOf
  <2>. QED
    BY <2>1, <2>2 DEF SiteOf
<1>24. ASSUME Release(e) PROVE SiteOf(e)'
  <2>1. /\ pc[e] = "release" /\ pc' = pc /\ call' = call /\ wi'[e] = wi[e] + 1 /\ wi[e] < Releases(e)
        /\ rank' = rank /\ end' = end /\ at' = at
    BY <1>24 DEF Release, place
  <2>2. wi[e] \in Nat /\ Releases(e) \in Nat
    BY <2>1, FansType, ThreadFacts
  <2>3. Releases(e)' = Releases(e)
    BY <1>9, <2>1
  <2>4. wi[e] + 1 <= Releases(e)
    BY <2>1, <2>2, OneMore
  <2>5. wi'[e] <= Releases(e)'
    BY <2>1, <2>3, <2>4, Zenon
  <2>. QED
    BY <2>1, <2>5 DEF SiteOf
<1>25. ASSUME Return(e) PROVE SiteOf(e)'
  <2>1. /\ pc[e] = "release" /\ pc'[e] = "functor" /\ call'[e] = call[e] /\ call[e] \in TeamCall
        /\ rank' = rank /\ end' = end
    BY <1>8, <1>25 DEF Return
  <2>. QED
    BY <2>1 DEF SiteOf
<1>26. ASSUME Again(e) PROVE SiteOf(e)'
  <2>1. /\ pc[e] = "release" /\ pc'[e] = "valid" /\ call'[e] = call[e]
        /\ call[e] \in {"start", "next"} /\ rank' = rank /\ end' = end /\ at' = at
    BY <1>8, <1>26 DEF Again, place
  <2>. QED
    BY <2>1 DEF SiteOf
<1>27. ASSUME TakeChunk(e) PROVE SiteOf(e)'
  <2>1. pc[e] = "release" /\ call[e] = "index"
    BY <1>27 DEF TakeChunk, Left
  <2>2. ~Idle(e)
    BY <2>1 DEF SiteOf
  <2>3. CASE GoOn(e, "release", "functor")
    BY <1>8, <2>1, <2>2, <2>3 DEF SiteOf
  <2>4. CASE Enter(e, "release", "end") /\ UNCHANGED <<at, ran>>
    BY <1>7, <1>13, <2>2, <2>4
  <2>. QED
    BY <1>27, <2>3, <2>4 DEF TakeChunk
<1>28. ASSUME LastFanIn(e) PROVE SiteOf(e)'
  <2>1. /\ pc'[e] = "fan_in" /\ call'[e] = "fan_in" /\ wi'[e] = 0
        /\ rank' = rank /\ end' = end /\ at' = at
    BY <1>7, <1>28 DEF LastFanIn, place
  <2>. QED
    BY <1>13, <2>1 DEF SiteOf
<1>29. ASSUME Deactivate(e) PROVE SiteOf(e)'
  <2>1. /\ pc'[e] = "done" /\ call'[e] = "fan_in" /\ rank' = rank /\ end' = end
    BY <1>8, <1>29 DEF Deactivate, place
  <2>. QED
    BY <2>1 DEF SiteOf
<1>. QED
  BY <1>15, <1>16, <1>17, <1>18, <1>19, <1>20, <1>21, <1>22, <1>23, <1>24, <1>25, <1>26, <1>27,
     <1>28, <1>29 DEF Thread, Loop, Collective, Leave

(* Whom a thread releases next                                             *)
LEMMA ReleaseTarget ==
  ASSUME Control, NEW e \in Pool, Release(e), NEW d, d = Released(e, wi[e])
  PROVE  /\ d \in Pool /\ pc[e] = "release" /\ state[e] = "Active"
         /\ d # e => Waiting(d)
         /\ OfPool(e) =>
              /\ e = 0 /\ call[0] \in {"start", "end"} /\ Releasing(call[0])
              /\ d = launch.pool - 1 - wi[0]
              /\ d # 0 => Meets(d, call[0])
         /\ ~OfPool(e) =>
              /\ e \in Teamed /\ wi[e] \in TeamFan(e) /\ d = FanChild(e, wi[e]) /\ e # d
              /\ Sits(e, d)
<1>1. /\ Typed /\ SiteOf(e) /\ StateOf(e) /\ e \in Nat /\ wi[e] \in Nat /\ launch.pool \in Nat
      /\ launch \in Launches
      /\ call[e] \in TeamCall \cup PoolCall \cup {"index", "next"}
  BY ThreadFacts DEF Control, Sites
<1>2. pc[e] = "release" /\ wi[e] < Releases(e) /\ state[e] = "Active"
  BY <1>1 DEF Release, StateOf
<1>3. CASE OfPool(e)
  <2>1. e = 0 /\ wi[0] < launch.pool /\ d = launch.pool - 1 - wi[0]
    BY <1>1, <1>2, <1>3 DEF Releases, Released
  <2>2. call[0] \in {"start", "end"}
    BY <1>1, <1>2, <1>3, <2>1 DEF OfPool, PoolCall, SiteOf
  <2>3. Releasing(call[0])
    BY <1>2, <2>1 DEF Releasing
  <2>4. d \in Pool /\ ~Freed(d)
    BY <1>1, <2>1 DEF Pool, Entries, Freed
  <2>5. d # 0 => Meets(d, call[0])
    BY <2>2, <2>3, <2>4 DEF Control, PoolStages
  <2>6. d # e => Waiting(d)
    BY <2>1, <2>5 DEF Meets
  <2>. QED
    BY <1>2, <1>3, <2>1, <2>2, <2>3, <2>4, <2>5, <2>6
<1>4. CASE ~OfPool(e)
  <2>1. e \in Teamed
    BY <1>1, <1>2, <1>4 DEF Teamed, SiteOf
  <2>2. Releases(e) = TeamFans(e) /\ d = FanChild(e, wi[e]) /\ TeamFans(e) \in Nat
    BY <1>1, <1>4, <2>1, TeamTree DEF Releases, Released, Fans, TeamFans
  <2>3. wi[e] \in TeamFan(e)
    BY <1>1, <1>2, <2>2 DEF TeamFan
  <2>4. d \in Teamed /\ e < d
    BY <1>1, <2>1, <2>2, <2>3, TeamTree
  <2>5. TeamEdge(e, wi[e], d)
    BY <2>1, <2>2, <2>3 DEF Control, TeamEdges
  <2>6. Sits(e, d)
    BY <1>1, <1>2, <1>4, <2>5 DEF TeamEdge
  <2>7. d \in Nat
    BY <1>1, <2>4, ThreadFacts DEF Teamed
  <2>. QED
    BY <1>1, <1>2, <1>4, <2>1, <2>2, <2>3, <2>4, <2>6, <2>7 DEF Teamed, Sits
<1>. QED
  BY <1>3, <1>4

(* The states after the step of a thread                                   *)
LEMMA StateThread ==
  ASSUME Control, NEW e \in Pool, Thread(e), NEW d \in Pool
  PROVE  StateOf(d)'
<1>1. /\ Typed /\ SiteOf(e) /\ StateOf(e) /\ StateOf(d) /\ SiteOf(d) /\ e \in Entry /\ d \in Entry
      /\ mi \in Nat /\ d \in Nat
  BY ThreadFacts DEF Control, Sites
<1>2. /\ launch' = launch /\ mi' = mi
      /\ d # e => /\ Untouched(d)
                  /\ state'[d] = state[d]
                      \/ (Release(e) /\ d = Released(e, wi[e]) /\ state'[d] = "Active")
  BY <1>1, Others
<1>3. CASE d # e
  <2>1. CASE state'[d] = state[d]
    BY <1>1, <1>2, <1>3, <2>1 DEF StateOf, Untouched
  <2>2. CASE Release(e) /\ d = Released(e, wi[e]) /\ state'[d] = "Active"
    <3>1. Waiting(d)
      BY <1>3, <2>2, ReleaseTarget
    <3>. QED
      BY <1>1, <1>2, <1>3, <2>2, <3>1 DEF StateOf, Untouched, Waiting
  <2>. QED
    BY <1>2, <1>3, <2>1, <2>2
<1>4. CASE d = e
  <2>1. /\ pc \in [Entry -> {"wait", "valid", "functor", "claim", "fan_in", "met", "release", "done"}]
        /\ state \in [Entry -> {"Inactive", "Active", "Rendezvous"}]
    BY <1>1 DEF Typed
  <2>. DEFINE Kept == state' = state /\ state[e] = "Active" /\ pc'[e] \notin {"wait", "done"}
  <2>2. Kept => StateOf(e)'
    BY <1>1, <1>2, <1>4, <2>1 DEF StateOf
  <2>3. CASE Construct(e)
    <3>1. state' = state /\ state[e] # "Inactive" /\ pc[e] = "wait" /\ pc'[e] \in {"valid", "fan_in"}
      BY <1>1, <2>1, <2>3 DEF Construct, Enter, GoOn, Go
    <3>. QED
      BY <1>1, <1>4, <2>1, <2>2, <3>1 DEF StateOf
  <2>4. CASE Valid(e) \/ NotValid(e) \/ NextItem(e)
    <3>1. Kept
      BY <1>1, <2>1, <2>4 DEF Valid, NotValid, NextItem, Enter, GoOn, Go, StateOf
    <3>. QED
      BY <1>4, <2>2, <3>1
  <2>5. CASE Claim(e)
    <3>1. Kept
      BY <1>1, <2>1, <2>5
      DEF Claim, ClaimOwn, Exhausted, SkipTarget, Steal, NoTarget, ClaimStep, Publish, Enter, Go,
          StateOf
    <3>. QED
      BY <1>4, <2>2, <3>1
  <2>6. CASE Call(e) \/ FanIn(e) \/ RootActs(e)
    <3>1. Kept
      BY <1>1, <2>1, <2>6 DEF Call, FanIn, RootActs, FannedIn, Enter, Go, StateOf
    <3>. QED
      BY <1>4, <2>2, <3>1
  <2>7. CASE Meet(e)
    <3>1. pc[e] = "fan_in" /\ pc'[e] = "met" /\ state'[e] = "Rendezvous"
      BY <1>1, <2>1, <2>7 DEF Meet, GoOn, Go, Set
    <3>. QED
      BY <1>1, <1>2, <1>4, <3>1 DEF StateOf
  <2>8. CASE Resume(e)
    <3>1. Kept
      BY <1>1, <2>1, <2>8 DEF Resume, Go, StateOf
    <3>. QED
      BY <1>4, <2>2, <3>1
  <2>9. CASE Release(e)
    <3>1. pc[e] = "release" /\ pc' = pc /\ state[e] = "Active" /\ state'[e] = "Active"
      <4>1. PICK x : x = Released(e, wi[e])
        OBVIOUS
      <4>2. x \in Pool /\ pc[e] = "release" /\ state[e] = "Active"
        BY <2>9, <4>1, ReleaseTarget
      <4>3. pc' = pc /\ state' = [state EXCEPT ![x] = "Active"]
        BY <2>9, <4>1 DEF Release, Set
      <4>. QED
        BY <1>1, <2>1, <4>2, <4>3
    <3>. QED
      BY <1>1, <1>2, <1>4, <3>1 DEF StateOf
  <2>10. CASE Return(e) \/ Again(e) \/ LastFanIn(e)
    <3>1. Kept
      BY <1>1, <2>1, <2>10 DEF Return, Again, LastFanIn, Left, Enter, GoOn, Go, StateOf
    <3>. QED
      BY <1>4, <2>2, <3>1
  <2>11. CASE TakeChunk(e)
    <3>1. Kept
      BY <1>1, <2>1, <2>11 DEF TakeChunk, Left, Enter, GoOn, Go, StateOf
    <3>. QED
      BY <1>4, <2>2, <3>1
  <2>12. CASE Deactivate(e)
    <3>1. pc[e] = "fan_in" /\ pc'[e] = "done" /\ state'[e] = "Inactive"
      BY <1>1, <2>1, <2>12 DEF Deactivate, GoOn, Go, Set
    <3>. QED
      BY <1>1, <1>2, <1>4, <3>1 DEF StateOf
  <2>. QED
    BY <2>3, <2>4, <2>5, <2>6, <2>7, <2>8, <2>9, <2>10, <2>11, <2>12
    DEF Thread, Loop, Collective, Leave
<1>. QED
  BY <1>3, <1>4

(* Sites and states after the step of a thread                             *)
LEMMA SitesThread ==
  ASSUME Control, NEW e \in Pool, Thread(e)
  PROVE  Sites'
<1>1. Typed /\ launch' = launch /\ Pool' = Pool
  BY Others, LaunchKept DEF Control
<1>2. ASSUME NEW d \in Pool PROVE SiteOf(d)'
  <2>1. SiteOf(d) /\ StateOf(d) /\ d \in Entry
    BY <1>1, ThreadFacts DEF Control, Sites
  <2>2. CASE d = e
    BY <1>1, <2>1, <2>2, SiteThread
  <2>3. CASE d # e
    BY <1>1, <2>1, <2>3, Others, SiteKept
  <2>. QED
    BY <2>2, <2>3
<1>. QED
  BY <1>1, <1>2, StateThread DEF Sites

(* An activation reaches a thread that waits for it.                       *)
LEMMA SitesActivate ==
  ASSUME Control, Activate
  PROVE  Sites'
<1>1. /\ Typed /\ Sites /\ launch' = launch /\ Pool' = Pool /\ mi \in Nat /\ mi > 0 /\ mi' = mi - 1
      /\ state' = [state EXCEPT ![mi - 1] = "Active"] /\ pc' = pc
      /\ \A d \in Entry : Untouched(d)
  <2>1. 0 \in Pool \/ Pool = {}
    BY ThreadFacts DEF Control
  <2>2. launch \in Launches /\ mi \in 0..launch.pool
    BY DEF Control, Typed
  <2>3. launch.pool \in Nat
    BY <2>2, LaunchFacts
  <2>. QED
    BY <2>2, <2>3, LaunchKept DEF Control, Activate, Set, Untouched, values, claims, place
<1>2. ASSUME NEW d \in Pool PROVE SiteOf(d)' /\ StateOf(d)'
  <2>1. SiteOf(d) /\ StateOf(d) /\ d \in Entry /\ d \in Nat
    BY <1>1, ThreadFacts DEF Sites
  <2>2. SiteOf(d)'
    BY <1>1, <2>1, SiteKept
  <2>3. state \in [Entry -> {"Inactive", "Active", "Rendezvous"}]
    BY <1>1 DEF Typed
  <2>4. StateOf(d)'
    BY <1>1, <2>1, <2>3 DEF StateOf
  <2>. QED
    BY <2>2, <2>4
<1>. QED
  BY <1>1, <1>2 DEF Sites

-----------------------------------------------------------------------------
(* The collectives in their order                                          *)

(* The meetings of an item are told apart by their numbers.                *)
LEMMA ItemKinds ==
  ASSUME launch \in Launches, NEW r, NEW n, NEW a \in Nat \ {0}
  PROVE  /\ InItem(r, a, n)[1] \in TeamCall \cup {"next", "end"}
         /\ InItem(r, a, n)[3] \in Nat
         /\ AtValid(r, n)[1] \in TeamCall \cup {"next", "end", "index"}
         /\ AtValid(r, n)[3] \in Nat
         /\ AtValid(r, n)[1] = "index" => launch.dynamic
<1>1. launch.program \in Seq(TeamCall)
  BY LaunchFacts
<1>2. ASSUME NEW b \in Nat \ {0}
      PROVE  InItem(r, b, n)[1] \in TeamCall \cup {"next", "end"} /\ InItem(r, b, n)[3] \in Nat
  <2>1. CASE b <= Len(launch.program)
    <3>1. InItem(r, b, n) = <<launch.program[b], r, b, n>> /\ launch.program[b] \in TeamCall
      BY <1>1, <2>1 DEF InItem
    <3>. QED
      BY <3>1
  <2>2. CASE ~(b <= Len(launch.program))
    BY <2>2 DEF InItem
  <2>. QED
    BY <2>1, <2>2
<1>3. /\ AtValid(r, n)[1] \in TeamCall \cup {"next", "end", "index"} /\ AtValid(r, n)[3] \in Nat
      /\ AtValid(r, n)[1] = "index" => launch.dynamic
  <2>1. CASE r < n
    <3>1. AtValid(r, n) = InItem(r, 1, n)
      BY <2>1 DEF AtValid
    <3>2. InItem(r, 1, n)[1] # "index" 
      BY <1>2 DEF TeamCall
    <3>. QED
      BY <1>2, <3>1, <3>2
  <2>2. CASE ~(r < n)
    BY <2>2 DEF AtValid
  <2>. QED
    BY <2>1, <2>2
<1>. QED
  BY <1>2, <1>3

(* Which meeting a thread is in, read off its place in the code.           *)
LEMMA MeetingKinds ==
  ASSUME Typed, NEW e \in Pool, SiteOf(e)
  PROVE  /\ pc[e] \in {"fan_in", "met", "release", "done"} =>
              /\ Meeting(e) = <<call[e], rank[e], IF call[e] \in TeamCall THEN at[e] ELSE 0, end[e]>>
              /\ Meeting(e)[1] = call[e]
         /\ Meeting(e)[1] = "start" <=>
              launch.dynamic /\ (pc[e] = "wait" \/
                (call[e] = "start" /\ pc[e] \in {"fan_in", "met", "release", "done"}))
         /\ Meeting(e)[1] = "fan_in" => call[e] = "fan_in"
         /\ Meeting(e)[3] \in Nat
         /\ BeforeStart(e) => Meeting(e)[1] = "start"
<1>1. launch \in Launches /\ at[e] \in Nat \ {0} /\ launch.dynamic \in BOOLEAN
  <2>1. e \in Entry /\ Len(launch.program) \in Nat /\ launch \in Launches
    BY ThreadFacts
  <2>2. at[e] \in 1..(Len(launch.program) + 1)
    BY <2>1 DEF Typed
  <2>. QED
    BY <2>1, <2>2, ThreadFacts
<1>2. pc[e] \in {"wait", "valid", "functor", "claim", "fan_in", "met", "release", "done"}
  BY ThreadFacts
<1>3. CASE pc[e] = "wait"
  <2>1. CASE launch.dynamic
    BY <1>1, <1>3, <2>1 DEF Meeting, BeforeStart
  <2>2. CASE ~launch.dynamic
    <3>1. Meeting(e) = AtValid(LeagueBegin(e), LeagueEnd(e))
      BY <1>3, <2>2 DEF Meeting
    <3>2. Meeting(e)[1] \in TeamCall \cup {"next", "end", "index"} /\ Meeting(e)[3] \in Nat
      BY <1>1, <3>1, ItemKinds
    <3>. QED
      BY <1>3, <2>2, <3>2 DEF BeforeStart, TeamCall
  <2>. QED
    BY <2>1, <2>2
<1>4. CASE pc[e] \in {"valid", "functor", "claim"}
  <2>1. Meeting(e)[1] \in TeamCall \cup {"next", "end", "index"} /\ Meeting(e)[3] \in Nat
    <3>1. CASE pc[e] = "valid"
      BY <1>1, <3>1, ItemKinds DEF Meeting
    <3>2. CASE pc[e] = "functor"
      BY <1>1, <3>2, ItemKinds DEF Meeting
    <3>3. CASE pc[e] = "claim"
      BY <3>3 DEF Meeting
    <3>. QED
      BY <1>4, <3>1, <3>2, <3>3
  <2>. QED
    BY <1>4, <2>1 DEF BeforeStart, TeamCall, Waiting
<1>5. CASE pc[e] \in {"fan_in", "met", "release", "done"}
  <2>1. Meeting(e) = <<call[e], rank[e], IF call[e] \in TeamCall THEN at[e] ELSE 0, end[e]>>
    BY <1>5 DEF Meeting
  <2>2. Meeting(e)[1] = call[e] /\ Meeting(e)[3] \in Nat
    BY <1>1, <2>1
  <2>3. call[e] = "start" => launch.dynamic
    BY <1>5 DEF SiteOf
  <2>. QED
    BY <1>5, <2>1, <2>2, <2>3 DEF BeforeStart
<1>. QED
  BY <1>2, <1>3, <1>4, <1>5

(* What may come after a meeting.                                          *)
LEMMA HeadingKinds ==
  ASSUME Typed, NEW e \in Pool, SiteOf(e)
  PROVE  /\ Heading(e)[1] \in TeamCall \cup {"next", "end", "index", "fan_in"}
         /\ Heading(e)[1] # "start"
         /\ Meeting(e)[1] = "end" => Heading(e)[1] = "fan_in"
         /\ Heading(e)[1] = "fan_in" => Meeting(e)[1] \notin TeamCall \cup {"start", "next", "index"}
         /\ Meeting(e)[1] = "index" => Heading(e)[1] # "index"
<1>. DEFINE m == Meeting(e)
            c == index[Base(e)]
<1>1. launch \in Launches /\ m[3] \in Nat /\ m[3] + 1 \in Nat \ {0} /\ 1 \in Nat \ {0}
  BY ThreadFacts, MeetingKinds
<1>2. Heading(e) = After(m, c)
  BY DEF Heading
<1>. HIDE DEF m, c
<1>3. CASE m[1] \in TeamCall
  <2>1. Heading(e) = InItem(m[2], m[3] + 1, m[4])
    BY <1>2, <1>3 DEF After, TeamCall
  <2>2. Heading(e)[1] \in TeamCall \cup {"next", "end"}
    BY <1>1, <2>1, ItemKinds
  <2>. QED
    BY <1>3, <2>2 DEF TeamCall, m
<1>4. CASE m[1] \in {"start", "next"}
  <2>1. m[1] \notin TeamCall
    BY <1>4 DEF TeamCall
  <2>2. Heading(e) = AtValid(m[2], m[4])
    BY <1>2, <1>4, <2>1 DEF After
  <2>3. Heading(e)[1] \in TeamCall \cup {"next", "end", "index"}
    BY <1>1, <2>2, ItemKinds
  <2>. QED
    BY <1>4, <2>3 DEF TeamCall, m
<1>5. CASE m[1] = "index"
  <2>1. m[1] \notin TeamCall
    BY <1>5 DEF TeamCall
  <2>2. Heading(e) = AtChunk(c)
    BY <1>2, <1>5, <2>1 DEF After
  <2>3. Heading(e)[1] \in TeamCall \cup {"next", "end"}
    <3>1. CASE c >= 0
      <4>1. Heading(e) = InItem(c * launch.chunk, 1, Least((c + 1) * launch.chunk, launch.league))
        BY <2>2, <3>1 DEF AtChunk
      <4>. QED
        BY <1>1, <4>1, ItemKinds
    <3>2. CASE ~(c >= 0)
      BY <2>2, <3>2 DEF AtChunk
    <3>. QED
      BY <3>1, <3>2
  <2>. QED
    BY <1>5, <2>3 DEF TeamCall, m
<1>6. CASE m[1] \notin TeamCall \cup {"start", "next", "index"}
  <2>1. Heading(e) = <<"fan_in", m[2], 0, m[4]>>
    BY <1>2, <1>6 DEF After
  <2>. QED
    BY <1>6, <2>1 DEF TeamCall, m
<1>. QED
  BY <1>3, <1>4, <1>5, <1>6

(* A thread that a step leaves alone is where it was.                      *)
LEMMA ViewKept ==
  ASSUME launch' = launch, NEW d \in Pool, Untouched(d)
  PROVE  /\ pc'[d] = pc[d] /\ call'[d] = call[d] /\ wi'[d] = wi[d]
         /\ Meeting(d)' = Meeting(d) /\ OfPool(d)' = OfPool(d) /\ Inside(d)' = Inside(d)
         /\ index'[Base(d)] = index[Base(d)] => Heading(d)' = Heading(d)
         /\ state'[d] = state[d] =>
              /\ Waiting(d)' = Waiting(d) /\ BeforeStart(d)' = BeforeStart(d)
              /\ AfterEnd(d)' = AfterEnd(d)
              /\ \A c : Meets(d, c)' = Meets(d, c)
         /\ state'[d] = state[d] \/ (OfPool(d) /\ pc[d] = "met")
              => /\ BeforeStart(0)' = BeforeStart(0) /\ AfterEnd(0)' = AfterEnd(0) 
                   => Out(d)' = Out(d)
<1>1. pc'[d] = pc[d] /\ call'[d] = call[d] /\ wi'[d] = wi[d]
  BY DEF Untouched
<1>2. Meeting(d)' = Meeting(d)
  BY DEF Untouched, Meeting, AtValid, InItem, LeagueBegin, LeagueEnd, LeagueRank
<1>3. OfPool(d)' = OfPool(d) /\ Inside(d)' = Inside(d)
  BY <1>1 DEF OfPool, Inside
<1>4. index'[Base(d)] = index[Base(d)] => Heading(d)' = Heading(d)
  BY <1>2 DEF Heading, After, AtChunk, AtValid, InItem, Base
<1>5. ASSUME state'[d] = state[d]
      PROVE  /\ Waiting(d)' = Waiting(d) /\ BeforeStart(d)' = BeforeStart(d)
             /\ AfterEnd(d)' = AfterEnd(d)
             /\ \A c : Meets(d, c)' = Meets(d, c)
  BY <1>1, <1>5 DEF Waiting, BeforeStart, AfterEnd, Meets
<1>6. ASSUME state'[d] = state[d] \/ (OfPool(d) /\ pc[d] = "met"),
             BeforeStart(0)' = BeforeStart(0), AfterEnd(0)' = AfterEnd(0)
      PROVE  Out(d)' = Out(d)
  <2>1. PoolOut(call[d])' = PoolOut(call[d])
    BY <1>1, <1>6 DEF PoolOut
  <2>. QED
    BY <1>1, <1>3, <1>6, <2>1 DEF Out, PoolOut
<1>. QED
  BY <1>1, <1>2, <1>3, <1>4, <1>5, <1>6

(* Until it is in the collective it heads for, nothing is seen of a thread.*)
Stays(e) ==
  /\ pc[e] \in {"wait", "valid", "functor", "claim"}
  /\ pc'[e] \in {"valid", "functor", "claim", "fan_in"}
  /\ ~Idle(e) => Meeting(e)' = Meeting(e)
  /\ state' = state /\ (index' = index \/ (pc[e] = "claim" /\ \A d \in Entry : d # e => index'[d] = index[d]))
  /\ pc'[e] = "fan_in" => wi'[e] = 0
  /\ call[e] # "fan_in" /\ call'[e] # "fan_in"
  /\ (BeforeStart(e)' <=> BeforeStart(e)) /\ ~AfterEnd(e) /\ ~AfterEnd(e)'

(* A position of a program holds a call.                                   *)
LEMMA ProgramCall ==
  ASSUME NEW S, NEW p \in Seq(S), NEW n \in 1..Len(p)
  PROVE  p[n] \in S
OBVIOUS

(* Local steps between two meetings do not change the next one.            *)
LEMMA Stay ==
  ASSUME Typed, NEW e \in Pool, SiteOf(e), Loop(e) \/ Claim(e) \/ Call(e)
  PROVE  Stays(e)
<1>1. /\ e \in Entry /\ launch' = launch /\ Idle(e)' = Idle(e) /\ Leads(e)' = Leads(e)
      /\ launch \in Launches
  BY ThreadFacts, Others, LaunchKept DEF Thread, Collective
<1>2. /\ pc \in [Entry -> {"wait", "valid", "functor", "claim", "fan_in", "met", "release", "done"}]
      /\ call \in [Entry -> TeamCall \cup PoolCall \cup {"index", "next"}]
      /\ wi \in [Entry -> 0..launch.pool]
  BY DEF Typed
<1>3. /\ rank \in [Entry -> Int] /\ end \in [Entry -> Nat]
      /\ at \in [Entry -> 1..(Len(launch.program) + 1)]
      /\ index \in [Entry -> Nat \cup {-1}]
  BY DEF Typed
<1>4. "start" \notin TeamCall /\ "end" \notin TeamCall /\ "fan_in" \notin TeamCall
      /\ "index" \notin TeamCall /\ "next" \notin TeamCall
  BY DEF TeamCall
<1>. USE <1>1, <1>2, <1>3, <1>4
<1>5. ASSUME NEW c, NEW from, Enter(e, from, c)
      PROVE  /\ pc'[e] = "fan_in" /\ call'[e] = c /\ wi'[e] = 0 /\ pc[e] = from
             /\ Meeting(e)' = <<c, rank'[e], IF c \in TeamCall THEN at'[e] ELSE 0, end'[e]>>
             /\ (BeforeStart(e)' <=> launch.dynamic /\ c = "start")
             /\ (AfterEnd(e)' <=> c = "fan_in")
  BY <1>5 DEF Enter, Go, Meeting, BeforeStart, AfterEnd
<1>6. ASSUME NEW to, NEW from, GoOn(e, from, to)
      PROVE  /\ pc'[e] = to /\ call'[e] = call[e] /\ wi'[e] = wi[e] /\ pc[e] = from
  BY <1>6 DEF GoOn, Go
<1>7. ASSUME NEW r, NEW n, NEW a
      PROVE  InItem(r, a, n)' = InItem(r, a, n) /\ AtValid(r, n)' = AtValid(r, n)
  BY DEF InItem, AtValid
<1>8. /\ pc'[e] = "valid" => Meeting(e)' = AtValid(rank'[e], end'[e])
      /\ pc'[e] = "functor" => Meeting(e)' = InItem(rank'[e], at'[e], end'[e])
      /\ pc'[e] = "claim" => Meeting(e)' = <<"index", rank'[e], 0, end'[e]>>
      /\ pc[e] = "valid" => Meeting(e) = AtValid(rank[e], end[e])
      /\ pc[e] = "functor" => Meeting(e) = InItem(rank[e], at[e], end[e])
      /\ pc[e] = "claim" => Meeting(e) = <<"index", rank[e], 0, end[e]>>
      /\ pc[e] = "wait" => Meeting(e) = IF launch.dynamic THEN <<"start", LeagueBegin(e), 0, 0>>
                                        ELSE AtValid(LeagueBegin(e), LeagueEnd(e))
  BY DEF Meeting, AtValid, InItem
<1>9. /\ pc'[e] \in {"valid", "functor", "claim"} => 
           ~BeforeStart(e)' /\ (call'[e] \notin {"end", "fan_in"} => ~AfterEnd(e)')
      /\ pc[e] \in {"valid", "functor", "claim"} => ~BeforeStart(e) 
      /\ pc[e] \in {"wait", "valid", "functor", "claim"} =>
           call[e] \notin {"end", "fan_in"} /\ ~AfterEnd(e)
  BY DEF BeforeStart, AfterEnd, Waiting, SiteOf
<1>10. CASE Construct(e)
  <2>1. /\ pc[e] = "wait" /\ state' = state /\ index' = index
        /\ ~Idle(e) => rank'[e] = LeagueBegin(e)
        /\ ~Idle(e) => end'[e] = IF launch.dynamic THEN 0 ELSE LeagueEnd(e)
    BY <1>5, <1>6, <1>10 DEF Construct
  <2>2. CASE launch.dynamic
    <3>1. Enter(e, "wait", "start")
      BY <1>10, <2>2 DEF Construct
    <3>. QED
      BY <1>5, <1>8, <1>9, <2>1, <2>2, <3>1 DEF Stays, BeforeStart
  <2>3. CASE ~launch.dynamic
    <3>1. GoOn(e, "wait", "valid")
      BY <1>10, <2>3 DEF Construct
    <3>. QED
      BY <1>6, <1>8, <1>9, <2>1, <2>3, <3>1 DEF Stays, BeforeStart
  <2>. QED
    BY <2>2, <2>3
<1>11. CASE Valid(e)
  <2>1. /\ GoOn(e, "valid", "functor") /\ at'[e] = 1 /\ rank' = rank /\ end' = end
        /\ rank[e] < end[e] /\ state' = state /\ index' = index
    BY <1>11 DEF Valid, RunFunctor, claims, HasItem
  <2>2. AtValid(rank[e], end[e]) = InItem(rank[e], 1, end[e])
    BY <2>1 DEF AtValid
  <2>. QED
    BY <1>6, <1>8, <1>9, <2>1, <2>2 DEF Stays
<1>12. CASE NotValid(e)
  <2>1. /\ rank' = rank /\ end' = end /\ at' = at /\ ~(rank[e] < end[e]) /\ state' = state
        /\ index' = index /\ pc[e] = "valid"
        /\ \/ Enter(e, "valid", "end") /\ (~launch.dynamic \/ Idle(e))
           \/ GoOn(e, "valid", "claim") /\ launch.dynamic
           \/ Enter(e, "valid", "index") /\ launch.dynamic
    BY <1>5, <1>6, <1>12 DEF NotValid, HasItem, place, claims
  <2>2. AtValid(rank[e], end[e]) = IF launch.dynamic THEN <<"index", rank[e], 0, end[e]>>
                                   ELSE <<"end", rank[e], 0, end[e]>>
    BY <2>1 DEF AtValid
  <2>3. CASE Enter(e, "valid", "end") /\ (~launch.dynamic \/ Idle(e))
    BY <1>5, <1>8, <1>9, <2>1, <2>2, <2>3 DEF Stays
  <2>4. CASE GoOn(e, "valid", "claim") /\ launch.dynamic
    BY <1>6, <1>8, <1>9, <2>1, <2>2, <2>4 DEF Stays
  <2>5. CASE Enter(e, "valid", "index") /\ launch.dynamic
    <3>1. /\ pc'[e] = "fan_in" /\ call'[e] = "index" /\ wi'[e] = 0
          /\ Meeting(e)' = <<"index", rank'[e], 0, end'[e]>>
          /\ ~BeforeStart(e)' /\ ~AfterEnd(e)'
      BY <1>5, <2>5
    <3>2. Meeting(e)' = Meeting(e)
      BY <1>8, <2>1, <2>2, <2>5, <3>1
    <3>. QED
      BY <1>9, <2>1, <3>1, <3>2 DEF Stays
  <2>. QED
    BY <2>1, <2>3, <2>4, <2>5
<1>13. CASE NextItem(e)
  <2>1. /\ ~(at[e] <= Len(launch.program)) /\ rank'[e] = rank[e] + 1 /\ end' = end /\ state' = state
        /\ index' = index /\ pc[e] = "functor"
    <3>1. /\ rank' = [rank EXCEPT ![e] = rank[e] + 1] /\ end' = end /\ state' = state
          /\ index' = index /\ pc[e] = "functor"
      BY <1>13 DEF NextItem, claims, Enter, GoOn, Go
    <3>2. rank'[e] = rank[e] + 1
      BY <3>1
    <3>3. ~(at[e] <= Len(launch.program))
      <4>1. at[e] > Len(launch.program)
        BY <1>13 DEF NextItem
      <4>2. at[e] \in Nat /\ Len(launch.program) \in Nat
        BY ThreadFacts
      <4>. QED
        BY <4>1, <4>2, Exceeds
    <3>. QED
      BY <3>1, <3>2, <3>3
  <2>2. CASE MeetsAgain(e)
    <3>1. Enter(e, "functor", "next")
      BY <1>13, <2>2 DEF NextItem
    <3>2. InItem(rank[e], at[e], end[e]) = <<"next", rank[e] + 1, 0, end[e]>>
      BY <2>1, <2>2 DEF InItem, MeetsAgain
    <3>3. /\ pc'[e] = "fan_in" /\ call'[e] = "next" /\ wi'[e] = 0
          /\ Meeting(e)' = <<"next", rank'[e], 0, end'[e]>>
          /\ ~BeforeStart(e)' /\ ~AfterEnd(e)'
      BY <1>5, <3>1
    <3>4. Meeting(e)' = Meeting(e)
      BY <1>8, <2>1, <3>2, <3>3
    <3>. QED
      BY <1>9, <2>1, <3>3, <3>4 DEF Stays
  <2>3. CASE ~MeetsAgain(e)
    <3>1. GoOn(e, "functor", "valid")
      BY <1>13, <2>3 DEF NextItem
    <3>2. InItem(rank[e], at[e], end[e]) = <<"end", rank[e] + 1, 0, end[e]>>
      BY <2>1, <2>3 DEF InItem, MeetsAgain
    <3>3. AtValid(rank[e] + 1, end[e]) = <<"end", rank[e] + 1, 0, end[e]>>
      BY <2>3 DEF AtValid, MeetsAgain
    <3>. QED
      BY <1>6, <1>8, <1>9, <2>1, <3>1, <3>2, <3>3 DEF Stays
  <2>. QED
    BY <2>2, <2>3
<1>14. CASE Claim(e)
  <2>1. /\ rank' = rank /\ end' = end /\ state' = state /\ pc[e] = "claim"
        /\ \/ Enter(e, "claim", "index") /\ \A d \in Entry : d # e => index'[d] = index[d]
           \/ pc' = pc /\ call' = call /\ wi' = wi /\ index' = index
    BY <1>5, <1>14
    DEF Claim, ClaimOwn, Exhausted, SkipTarget, Steal, NoTarget, ClaimStep, Publish, place
  <2>2. CASE Enter(e, "claim", "index") /\ \A d \in Entry : d # e => index'[d] = index[d]
    <3>1. /\ pc'[e] = "fan_in" /\ call'[e] = "index" /\ wi'[e] = 0
          /\ Meeting(e)' = <<"index", rank'[e], 0, end'[e]>>
          /\ ~BeforeStart(e)' /\ ~AfterEnd(e)'
      BY <1>5, <2>2
    <3>2. Meeting(e)' = Meeting(e)
      BY <1>8, <2>1, <3>1
    <3>. QED
      BY <1>9, <2>1, <2>2, <3>1, <3>2 DEF Stays
  <2>3. CASE pc' = pc /\ call' = call /\ wi' = wi /\ index' = index
    BY <1>8, <1>9, <2>1, <2>3 DEF Stays
  <2>. QED
    BY <2>1, <2>2, <2>3
<1>15. CASE Call(e)
  <2>. DEFINE c == launch.program[at[e]]
  <2>1. /\ Enter(e, "functor", c) /\ at[e] <= Len(launch.program) /\ rank' = rank /\ end' = end
        /\ at' = at /\ state' = state /\ index' = index
    BY <1>15 DEF Call, claims, place
  <2>2. c \in TeamCall
    <3>1. launch.program \in Seq(TeamCall) /\ at[e] \in 1..(Len(launch.program) + 1)
      BY LaunchFacts
    <3>2. at[e] \in 1..Len(launch.program)
      BY <2>1, <3>1
    <3>. QED
      BY <3>1, <3>2, ProgramCall
  <2>3. InItem(rank[e], at[e], end[e]) = <<c, rank[e], at[e], end[e]>>
    BY <2>1 DEF InItem
  <2>. HIDE DEF c
  <2>4. c \notin {"start", "fan_in", "end"}
    BY <2>2
  <2>. QED
    BY <1>5, <1>8, <1>9, <2>1, <2>2, <2>3, <2>4 DEF Stays
<1>. QED
  BY <1>10, <1>11, <1>12, <1>13, <1>14, <1>15 DEF Loop

(* A thread that leaves a collective heads for the next.                   *)
Leaves(e) ==
  /\ pc[e] = "release" /\ wi[e] >= Releases(e)
  /\ pc'[e] \in {"valid", "functor", "fan_in"}
  /\ Meeting(e)' = Heading(e)
  /\ state' = state /\ index' = index
  /\ pc'[e] = "fan_in" => wi'[e] = 0
  /\ call'[e] = "fan_in" <=> call[e] = "end"
  /\ call[e] # "fan_in"
  /\ (AfterEnd(e)' <=> AfterEnd(e)) /\ ~BeforeStart(e) /\ ~BeforeStart(e)'

(* Who leaves a meeting is in the one it headed for.                       *)
LEMMA Leave1 ==
  ASSUME Typed, NEW e \in Pool, SiteOf(e), Return(e) \/ Again(e) \/ TakeChunk(e) \/ LastFanIn(e)
  PROVE  Leaves(e)
<1>1. /\ e \in Entry /\ launch' = launch /\ launch \in Launches
      /\ launch.dynamic \in BOOLEAN
  BY ThreadFacts, Others DEF Thread, Leave
<1>2. /\ pc \in [Entry -> {"wait", "valid", "functor", "claim", "fan_in", "met", "release", "done"}]
      /\ call \in [Entry -> TeamCall \cup PoolCall \cup {"index", "next"}]
      /\ wi \in [Entry -> 0..launch.pool]
  BY DEF Typed
<1>3. /\ rank \in [Entry -> Int] /\ end \in [Entry -> Nat]
      /\ at \in [Entry -> 1..(Len(launch.program) + 1)]
  BY DEF Typed
<1>4. /\ pc[e] = "release" /\ wi[e] >= Releases(e) /\ state' = state /\ index' = index
  BY DEF Return, Again, TakeChunk, LastFanIn, Left, claims
<1>5. Meeting(e) = <<call[e], rank[e], IF call[e] \in TeamCall THEN at[e] ELSE 0, end[e]>>
  BY <1>4, MeetingKinds
<1>6. /\ pc'[e] = "valid" => Meeting(e)' = AtValid(rank'[e], end'[e])
      /\ pc'[e] = "functor" => Meeting(e)' = InItem(rank'[e], at'[e], end'[e])
      /\ pc'[e] = "fan_in" => Meeting(e)' =
           <<call'[e], rank'[e], IF call'[e] \in TeamCall THEN at'[e] ELSE 0, end'[e]>>
  BY <1>1 DEF Meeting, AtValid, InItem
<1>7. Heading(e) = After(Meeting(e), index[Base(e)])
  BY DEF Heading
<1>8. call[e] # "fan_in" /\ ~BeforeStart(e)
  BY <1>4 DEF SiteOf, BeforeStart, Waiting
<1>. USE <1>1, <1>2, <1>3, <1>4
<1>9. CASE Return(e)
  <2>1. /\ pc'[e] = "functor" /\ call'[e] = call[e] /\ call[e] \in TeamCall /\ rank' = rank
        /\ end' = end /\ at'[e] = at[e] + 1
    BY <1>9 DEF Return, GoOn, Go
  <2>2. call[e] \notin {"start", "next", "index", "end", "fan_in"}
    BY <2>1 DEF TeamCall
  <2>3. Heading(e) = InItem(rank[e], at[e] + 1, end[e])
    BY <1>5, <1>7, <2>1, <2>2 DEF After
  <2>4. Meeting(e)' = Heading(e)
    BY <1>6, <2>1, <2>3
  <2>5. ~BeforeStart(e)' /\ ~AfterEnd(e) /\ ~AfterEnd(e)'
    BY <2>1, <2>2 DEF BeforeStart, AfterEnd, Waiting
  <2>. QED
    BY <1>8, <2>1, <2>2, <2>4, <2>5 DEF Leaves
<1>10. CASE Again(e)
  <2>1. /\ pc'[e] = "valid" /\ call'[e] = call[e] /\ call[e] \in {"start", "next"} /\ rank' = rank
        /\ end' = end
    BY <1>10 DEF Again, GoOn, Go, place
  <2>2. call[e] \notin TeamCall \cup {"index", "end", "fan_in"}
    BY <2>1 DEF TeamCall
  <2>3. Heading(e) = AtValid(rank[e], end[e])
    BY <1>5, <1>7, <2>1, <2>2 DEF After
  <2>4. Meeting(e)' = Heading(e)
    BY <1>6, <2>1, <2>3
  <2>5. ~BeforeStart(e)' /\ ~AfterEnd(e) /\ ~AfterEnd(e)'
    BY <2>1, <2>2 DEF BeforeStart, AfterEnd, Waiting
  <2>. QED
    BY <1>8, <2>1, <2>2, <2>4, <2>5 DEF Leaves
<1>11. CASE TakeChunk(e)
  <2>. DEFINE c == index[Base(e)]
              r == c * launch.chunk
              n == Least((c + 1) * launch.chunk, launch.league)
  <2>1. call[e] = "index" /\ call[e] \notin TeamCall
    BY <1>11 DEF TakeChunk, TeamCall
  <2>2. /\ rank'[e] = r /\ end'[e] = n
        /\ \/ c >= 0 /\ GoOn(e, "release", "functor") /\ at'[e] = 1
           \/ ~(c >= 0) /\ Enter(e, "release", "end")
    BY <1>11 DEF TakeChunk, RunFunctor
  <2>3. Heading(e) = IF c >= 0 THEN InItem(r, 1, n) ELSE <<"end", r, 0, n>>
    BY <1>5, <1>7, <2>1 DEF After, AtChunk
  <2>. HIDE DEF c, r, n
  <2>4. CASE c >= 0 /\ GoOn(e, "release", "functor") /\ at'[e] = 1
    <3>1. pc'[e] = "functor" /\ call'[e] = "index"
      BY <2>1, <2>4 DEF GoOn, Go
    <3>2. Meeting(e)' = Heading(e)
      BY <1>6, <2>2, <2>3, <2>4, <3>1
    <3>3. ~BeforeStart(e)' /\ ~AfterEnd(e) /\ ~AfterEnd(e)'
      BY <2>1, <3>1 DEF BeforeStart, AfterEnd, Waiting
    <3>. QED
      BY <1>8, <2>1, <3>1, <3>2, <3>3 DEF Leaves
  <2>5. CASE ~(c >= 0) /\ Enter(e, "release", "end")
    <3>1. pc'[e] = "fan_in" /\ call'[e] = "end" /\ wi'[e] = 0
      BY <2>5 DEF Enter, Go
    <3>2. Meeting(e)' = Heading(e)
      BY <1>6, <2>2, <2>3, <2>5, <3>1 DEF TeamCall
    <3>3. ~BeforeStart(e)' /\ ~AfterEnd(e) /\ ~AfterEnd(e)'
      BY <2>1, <3>1 DEF BeforeStart, AfterEnd, Waiting
    <3>. QED
      BY <1>8, <2>1, <3>1, <3>2, <3>3 DEF Leaves
  <2>. QED
    BY <2>2, <2>4, <2>5
<1>12. CASE LastFanIn(e)
  <2>1. /\ pc'[e] = "fan_in" /\ call'[e] = "fan_in" /\ call[e] = "end" /\ wi'[e] = 0
        /\ rank' = rank /\ end' = end
    BY <1>12 DEF LastFanIn, Enter, Go, place
  <2>2. {"end", "fan_in"} \cap (TeamCall \cup {"index", "start", "next"}) = {}
    BY DEF TeamCall
  <2>3. Heading(e) = <<"fan_in", rank[e], 0, end[e]>>
    BY <1>5, <1>7, <2>1, <2>2 DEF After
  <2>4. Meeting(e)' = Heading(e)
    BY <1>6, <2>1, <2>2, <2>3
  <2>5. ~BeforeStart(e)' /\ AfterEnd(e) /\ AfterEnd(e)'
    BY <2>1 DEF BeforeStart, AfterEnd, Waiting
  <2>. QED
    BY <1>8, <2>1, <2>4, <2>5 DEF Leaves
<1>. QED
  BY <1>9, <1>10, <1>11, <1>12

-----------------------------------------------------------------------------
(* The barriers of the pool                                                *)

(* Entry 0 is the root of the pool, and leads its team or is alone.        *)
LEMMA ZeroIsRoot ==
  ASSUME launch \in Launches
  PROVE  Root(0) /\ Place(0) = 0 /\ 0 \in Pool
<1>1. 0 \in Pool
  BY LaunchFacts DEF Pool, Entries
<1>2. Place(0) \in 0..(Alloc(launch) - 1) /\ Base(0) \in Nat /\ 0 = Base(0) + Place(0)
      /\ Alloc(launch) \in Nat
  BY <1>1, EntryFacts, LaunchFacts
<1>3. Place(0) = 0
  BY <1>2
<1>. QED
  BY <1>1, <1>3 DEF Root

(* What the root's stage says of everybody.                                *)
LEMMA StageFacts ==
  ASSUME Control, NEW e \in Pool
  PROVE  /\ AfterEnd(e) => AfterEnd(0)
         /\ BeforeStart(0) => BeforeStart(e)
         /\ BeforeStart(e) /\ ~BeforeStart(0) => Meets(e, "start") /\ Releasing("start")
         /\ AfterEnd(0) => AfterEnd(e) \/ (Meets(e, "end") /\ Releasing("end"))
         /\ pc[0] # "met"
<1>1. /\ 0 \in Pool /\ PoolStages /\ SiteOf(0)
  BY ThreadFacts DEF Control, Sites
<1>2. pc[0] # "met"
  BY <1>1, ZeroIsRoot, ThreadFacts DEF SiteOf, Control
<1>3. AfterEnd(0) => call[0] = "fan_in" \/ Releasing("end")
  BY <1>2 DEF AfterEnd, Releasing
<1>4. Releasing("start") /\ BeforeStart(e) => e # 0
  BY DEF Releasing, BeforeStart, Waiting
<1>5. Releasing("end") => AfterEnd(0)
  BY DEF Releasing, AfterEnd
<1>. QED
  BY <1>1, <1>2, <1>3, <1>4, <1>5 DEF PoolStages

(* Once the root has everybody's arrival they all wait for it.             *)
LEMMA PoolWaits ==
  ASSUME Control, pc[0] = "fan_in", call[0] \in {"start", "end"}, wi[0] >= Fans(0),
         NEW x \in Pool, x # 0
  PROVE  Meets(x, call[0])
<1>. DEFINE S == {d \in Pool : d # 0 /\ ~Meets(d, call[0])}
<1>1. /\ Typed /\ 0 \in Pool /\ SiteOf(0) /\ launch \in Launches
      /\ wi[0] \in Nat /\ launch.pool \in Nat
  BY ThreadFacts DEF Control, Sites
<1>2. SUFFICES ASSUME S # {} PROVE FALSE
  OBVIOUS
<1>3. S \in SUBSET Nat
  BY <1>1, PoolTree
<1>4. PICK m \in S : \A n \in S : m <= n
  <2>. HIDE DEF S
  <2>. QED
    BY <1>2, <1>3, LeastNumber
<1>5. m \in Pool /\ m # 0 /\ m \in Nat /\ ~Meets(m, call[0])
  BY <1>3, <1>4
<1>6. PICK p \in Pool : \E i \in PoolFan(p) : m = FanChild(p, i) /\ p < m
  BY <1>1, <1>5, PoolTree
<1>7. PICK i \in PoolFan(p) : m = FanChild(p, i) /\ p < m
  BY <1>6
<1>8. PoolEdge(p, i, m) /\ p \in Nat /\ i \in Nat
  BY <1>1, <1>7, PoolTree DEF Control, PoolEdges
<1>9. CASE p = 0
  <2>1. Fans(0) = PoolFans(0) /\ PoolFans(0) \in Nat
    BY <1>1, PoolTree DEF Fans, OfPool, PoolCall, PoolFans
  <2>2. i < wi[0]
    BY <1>1, <1>7, <1>8, <1>9, <2>1 DEF PoolFan
  <2>. QED
    BY <1>5, <1>8, <1>9, <2>2 DEF PoolEdge
<1>10. CASE p # 0
  <2>1. Meets(p, call[0])
    BY <1>4, <1>5, <1>7, <1>8, <1>10
  <2>2. ~PoolOut(call[0])
    BY <1>1 DEF PoolOut, BeforeStart, AfterEnd, SiteOf
  <2>. QED
    BY <1>5, <1>8, <2>1, <2>2 DEF PoolEdge, Meets
<1>. QED
  BY <1>9, <1>10

(* What of a thread counts for the barriers of the pool                    *)
LEMMA StageSelf ==
  ASSUME Control, NEW e \in Pool, Thread(e), ~(RootActs(e) /\ OfPool(e))
  PROVE  (BeforeStart(e)' <=> BeforeStart(e)) /\ (AfterEnd(e)' <=> AfterEnd(e))
<1>1. /\ Typed /\ SiteOf(e) /\ StateOf(e) /\ e \in Entry /\ launch' = launch
      /\ pc \in [Entry -> {"wait", "valid", "functor", "claim", "fan_in", "met", "release", "done"}]
      /\ state \in [Entry -> {"Inactive", "Active", "Rendezvous"}]
  BY ThreadFacts, Others DEF Control, Sites, Typed
<1>2. CASE Loop(e) \/ Claim(e) \/ Call(e)
  BY <1>1, <1>2, Stay DEF Stays
<1>3. CASE FanIn(e)
  BY <1>1, <1>3 DEF FanIn, BeforeStart, AfterEnd, Waiting
<1>4. CASE Meet(e)
  <2>1. pc[e] = "fan_in" /\ pc'[e] = "met" /\ state'[e] = "Rendezvous" /\ call' = call
        /\ call[e] # "fan_in"
    BY <1>1, <1>4 DEF Meet, GoOn, Go, Set
  <2>. QED
    BY <1>1, <2>1 DEF BeforeStart, AfterEnd, Waiting
<1>5. CASE RootActs(e)
  <2>1. pc[e] = "fan_in" /\ pc'[e] = "release" /\ call' = call /\ call[e] \notin PoolCall
    BY <1>1, <1>5 DEF RootActs, Go, OfPool
  <2>. QED
    BY <1>1, <2>1 DEF BeforeStart, AfterEnd, Waiting, PoolCall
<1>6. CASE Resume(e)
  <2>1. pc[e] = "met" /\ pc'[e] = "release" /\ call' = call /\ state[e] = "Active"
    BY <1>1, <1>6 DEF Resume, Go, StateOf
  <2>. QED
    BY <1>1, <2>1 DEF BeforeStart, AfterEnd, Waiting
<1>7. CASE Release(e)
  <2>1. pc[e] = "release" /\ pc' = pc /\ call' = call
    BY <1>7 DEF Release
  <2>. QED
    BY <1>1, <2>1 DEF BeforeStart, AfterEnd, Waiting
<1>8. CASE Return(e) \/ Again(e) \/ TakeChunk(e) \/ LastFanIn(e)
  BY <1>1, <1>8, Leave1 DEF Leaves
<1>9. CASE Deactivate(e)
  <2>1. pc[e] = "fan_in" /\ pc'[e] = "done" /\ call'[e] = call[e] /\ call[e] = "fan_in"
    BY <1>1, <1>9 DEF Deactivate, GoOn, Go
  <2>. QED
    BY <1>1, <2>1 DEF BeforeStart, AfterEnd, Waiting
<1>. QED
  BY <1>2, <1>3, <1>4, <1>5, <1>6, <1>7, <1>8, <1>9 DEF Thread, Collective, Leave

(* A step of one thread does not change another's stage.                   *)
LEMMA StageOthers ==
  ASSUME Control, NEW e \in Pool, Thread(e), NEW d \in Pool, d # e
  PROVE  /\ pc'[d] = pc[d] /\ call'[d] = call[d] /\ wi'[d] = wi[d]
         /\ ~(Release(e) /\ OfPool(e)) =>
              /\ BeforeStart(d)' <=> BeforeStart(d)
              /\ AfterEnd(d)' <=> AfterEnd(d)
              /\ \A c \in PoolCall : Meets(d, c)' <=> Meets(d, c)
<1>1. /\ Typed /\ d \in Entry /\ launch' = launch /\ Untouched(d)
      /\ state'[d] = state[d] \/ (Release(e) /\ d = Released(e, wi[e]) /\ state'[d] = "Active")
  BY ThreadFacts, Others DEF Control
<1>2. CASE state'[d] = state[d]
  BY <1>1, <1>2, ViewKept
<1>3. CASE Release(e) /\ d = Released(e, wi[e]) /\ state'[d] = "Active"
  <2>1. ASSUME ~OfPool(e)
        PROVE  /\ ~BeforeStart(d) /\ ~AfterEnd(d) /\ ~BeforeStart(d)' /\ ~AfterEnd(d)'
               /\ \A c \in PoolCall : ~Meets(d, c)' /\ ~Meets(d, c)
    <3>1. Sits(e, d) /\ pc[e] = "release"
      BY <1>3, <2>1, ReleaseTarget
    <3>2. pc[d] = "met" /\ pc'[d] = "met" /\ call'[d] = call[d] /\ Meeting(d) = Meeting(e)
      BY <1>1, <3>1 DEF Sits, Waiting, Untouched
    <3>3. SiteOf(d) /\ SiteOf(e)
      BY DEF Control, Sites
    <3>4. call[d] = Meeting(d)[1] /\ call[e] = Meeting(e)[1]
      BY <1>1, <3>1, <3>2, <3>3, MeetingKinds
    <3>5. call[d] \notin PoolCall
      BY <2>1, <3>2, <3>4 DEF OfPool
    <3>. QED
      BY <1>1, <3>2, <3>5 DEF BeforeStart, AfterEnd, Meets, PoolCall
  <2>. QED
    BY <1>1, <1>3, <2>1 DEF Untouched
<1>. QED
  BY <1>1, <1>2, <1>3

(* Steps that leave the stages of all threads keep the clause.             *)
LEMMA StagesSame ==
  ASSUME PoolStages, launch' = launch, 0 \in Pool,
         \A d \in Pool : (BeforeStart(d)' <=> BeforeStart(d)) /\ (AfterEnd(d)' <=> AfterEnd(d)),
         \A d \in Pool : d # 0 => (Meets(d, "start") => Meets(d, "start")')
                               /\ (Meets(d, "end") => Meets(d, "end")'),
         pc'[0] = "release" => pc[0] = "release" /\ call'[0] = call[0] /\ wi'[0] = wi[0],
         Releasing("start") => Releasing("start")',
         call'[0] = "fan_in" => call[0] = "fan_in"
  PROVE  PoolStages'
<1>1. Pool' = Pool
  BY LaunchKept
<1>2. Releasing("start")' <=> Releasing("start")
  BY DEF Releasing
<1>3. Releasing("end")' => Releasing("end")
  BY DEF Releasing
<1>4. pc'[0] = "release" => \A d \in Pool : Freed(d)' <=> Freed(d)
  BY DEF Freed
<1>5. Releasing("start")' => pc'[0] = "release"
  BY DEF Releasing
<1>6. Releasing("end")' => pc'[0] = "release"
  BY DEF Releasing
<1>. QED
  BY <1>1, <1>2, <1>3, <1>4, <1>5, <1>6 DEF PoolStages

(* Every step of a thread keeps the stages.                                *)
LEMMA StagesThread ==
  ASSUME Control, NEW e \in Pool, Thread(e)
  PROVE  PoolStages'
<1>1. /\ Typed /\ PoolStages /\ SiteOf(e) /\ SiteOf(0) /\ StateOf(e) /\ launch' = launch /\ e \in Entry
      /\ 0 \in Pool /\ 0 \in Entry /\ launch.pool \in Nat /\ wi[0] \in Nat
      /\ launch.dynamic \in BOOLEAN
  BY ThreadFacts, Others DEF Control, Sites
<1>2. /\ pc \in [Entry -> {"wait", "valid", "functor", "claim", "fan_in", "met", "release", "done"}]
      /\ call \in [Entry -> TeamCall \cup PoolCall \cup {"index", "next"}]
      /\ wi \in [Entry -> 0..launch.pool]
      /\ state \in [Entry -> {"Inactive", "Active", "Rendezvous"}]
  BY <1>1 DEF Typed
<1>3. Pool' = Pool /\ \A d \in Pool : d \in Nat /\ d < launch.pool
  BY <1>1, LaunchKept, ThreadFacts
<1>4. \A d \in Pool : d # e => pc'[d] = pc[d] /\ call'[d] = call[d] /\ wi'[d] = wi[d]
  BY StageOthers
<1>5. CASE RootActs(e) /\ OfPool(e)
  <2>1. /\ e = 0 /\ pc[0] = "fan_in" /\ wi[0] >= Fans(0) /\ call[0] \in {"start", "end"}
        /\ pc'[0] = "release" /\ wi'[0] = 0 /\ call' = call /\ state' = state
    BY <1>1, <1>2, <1>5 DEF RootActs, FannedIn, Root, OfPool, PoolCall, Go
  <2>2. \A d \in Pool : d # 0 => Meets(d, call[0])
    BY <2>1, PoolWaits
  <2>3. ASSUME NEW d \in Pool, d # 0
        PROVE  /\ BeforeStart(d)' <=> BeforeStart(d)
               /\ AfterEnd(d)' <=> AfterEnd(d)
               /\ \A c \in PoolCall : Meets(d, c)' <=> Meets(d, c)
    <3>1. ~Release(e)
      BY <2>1 DEF Release
    <3>. QED
      BY <2>1, <2>3, <3>1, StageOthers
  <2>4. \A d \in Pool : ~Freed(d)'
    <3>1. SUFFICES ASSUME NEW d \in Pool PROVE ~Freed(d)'
      OBVIOUS
    <3>2. launch'.pool = launch.pool /\ wi'[0] = 0 /\ d \in Nat /\ d < launch.pool
      BY <1>1, <1>3, <2>1
    <3>. QED
      BY <1>1, <3>2 DEF Freed
  <2>5. ~BeforeStart(0)' /\ (AfterEnd(0)' <=> call[0] = "end")
    BY <2>1 DEF BeforeStart, AfterEnd, Waiting
  <2>6. /\ Releasing("start")' <=> call[0] = "start"
        /\ Releasing("end")' <=> call[0] = "end"
        /\ call'[0] # "fan_in"
    BY <2>1 DEF Releasing
  <2>7. CASE call[0] = "start"
    <3>1. BeforeStart(0) /\ ~AfterEnd(0)
      BY <1>1, <2>1, <2>7 DEF BeforeStart, AfterEnd, SiteOf
    <3>2. \A d \in Pool : ~AfterEnd(d)'
      BY <1>1, <2>3, <2>5, <2>7, <3>1 DEF PoolStages
    <3>3. \A d \in Pool \ {0} : Meets(d, "start")'
      BY <2>2, <2>3, <2>7 DEF PoolCall
    <3>. QED
      BY <1>3, <2>4, <2>5, <2>6, <2>7, <3>2, <3>3 DEF PoolStages
  <2>8. CASE call[0] = "end"
    <3>1. ~BeforeStart(0) /\ ~Releasing("start")
      BY <1>1, <2>1, <2>8 DEF BeforeStart, Releasing, Waiting
    <3>2. \A d \in Pool : ~BeforeStart(d)'
      BY <1>1, <2>3, <2>5, <3>1 DEF PoolStages
    <3>3. \A d \in Pool \ {0} : Meets(d, "end")'
      BY <2>2, <2>3, <2>8 DEF PoolCall
    <3>. QED
      BY <1>3, <2>4, <2>5, <2>6, <2>8, <3>2, <3>3 DEF PoolStages
  <2>. QED
    BY <2>1, <2>7, <2>8
<1>6. CASE Release(e) /\ OfPool(e)
  <2>. DEFINE x == launch.pool - 1 - wi[0]
  <2>1. PICK t : t = Released(e, wi[e])
    OBVIOUS
  <2>2. /\ t \in Pool /\ t \in Entry /\ t \in Nat /\ e = 0 /\ call[0] \in {"start", "end"} /\ Releasing(call[0])
        /\ t = launch.pool - 1 - wi[0] /\ (t # 0 => Meets(t, call[0])) /\ state[0] = "Active"
    BY <1>1, <1>6, <2>1, ReleaseTarget, ThreadFacts
  <2>3. /\ pc' = pc /\ call' = call /\ wi'[0] = wi[0] + 1 /\ wi[0] < Releases(0)
        /\ state' = [state EXCEPT ![t] = "Active"]
    BY <1>1, <1>2, <1>6, <2>1, <2>2 DEF Release, Set
  <2>4. \A d \in Pool : d # t => state'[d] = state[d]
    BY <1>2, <2>2, <2>3
  <2>5. state'[0] = state[0]
    BY <1>1, <1>2, <2>2, <2>3
  <2>6. \A d \in Pool : d # t \/ d = 0 =>
          /\ BeforeStart(d)' <=> BeforeStart(d)
          /\ AfterEnd(d)' <=> AfterEnd(d)
          /\ Meets(d, "start")' <=> Meets(d, "start")
          /\ Meets(d, "end")' <=> Meets(d, "end")
    BY <1>1, <2>3, <2>4, <2>5 DEF BeforeStart, AfterEnd, Meets, Waiting
  <2>7. \A d \in Pool : Freed(d)' <=> Freed(d) \/ d = t
    BY <1>1, <1>3, <2>2, <2>3 DEF Freed
  <2>8. t # 0 => /\ pc'[t] = "met" /\ state'[t] = "Active" /\ call'[t] = call[0]
    BY <1>2, <2>2, <2>3 DEF Meets, Waiting
  <2>9. ~BeforeStart(0) /\ ~BeforeStart(0)'
    BY <1>1, <2>2, <2>6 DEF Releasing, BeforeStart, Waiting
  <2>10. \A c : Releasing(c)' <=> Releasing(c)
    BY <2>3 DEF Releasing
  <2>11. call'[0] = call[0] /\ call[0] # "fan_in"
    BY <2>2, <2>3
  <2>12. CASE call[0] = "start"
    <3>1. Releasing("start") /\ ~Releasing("end") /\ ~AfterEnd(0) /\ ~AfterEnd(0)'
      BY <1>1, <2>2, <2>6, <2>12 DEF Releasing, AfterEnd
    <3>2. t # 0 => ~BeforeStart(t)' /\ ~AfterEnd(t)'
      BY <2>8, <2>12 DEF BeforeStart, AfterEnd, Waiting
    <3>3. \A d \in Pool : ~AfterEnd(d)'
      BY <1>1, <2>6, <3>1, <3>2 DEF PoolStages
    <3>4. \A d \in Pool \ {0} : IF Freed(d)' THEN ~BeforeStart(d)' ELSE Meets(d, "start")'
      BY <1>1, <2>6, <2>7, <3>1, <3>2 DEF PoolStages
    <3>5. Releasing("start")' /\ ~Releasing("end")'
      BY <2>10, <3>1
    <3>. QED
      BY <1>3, <2>9, <2>11, <3>3, <3>4, <3>5 DEF PoolStages
  <2>13. CASE call[0] = "end"
    <3>1. Releasing("end") /\ ~Releasing("start") /\ AfterEnd(0) /\ AfterEnd(0)'
      BY <1>1, <2>2, <2>6, <2>13 DEF Releasing, AfterEnd
    <3>2. t # 0 => ~BeforeStart(t)' /\ AfterEnd(t)'
      BY <2>8, <2>13 DEF BeforeStart, AfterEnd, Waiting
    <3>3. \A d \in Pool : ~BeforeStart(d)'
      BY <1>1, <2>6, <2>9, <3>1, <3>2 DEF PoolStages
    <3>4. \A d \in Pool \ {0} : IF Freed(d)' THEN AfterEnd(d)' ELSE Meets(d, "end")'
      BY <1>1, <2>6, <2>7, <3>1, <3>2 DEF PoolStages
    <3>5. Releasing("end")' /\ ~Releasing("start")'
      BY <2>10, <3>1
    <3>. QED
      BY <1>3, <2>9, <2>11, <3>1, <3>3, <3>4, <3>5 DEF PoolStages
  <2>. QED
    BY <2>2, <2>12, <2>13
<1>7. ASSUME ~(RootActs(e) /\ OfPool(e)), ~(Release(e) /\ OfPool(e))
      PROVE  \A d \in Pool : /\ BeforeStart(d)' <=> BeforeStart(d)
                             /\ AfterEnd(d)' <=> AfterEnd(d)
                             /\ d # e => \A c \in PoolCall : Meets(d, c)' <=> Meets(d, c)
  BY <1>7, StageSelf, StageOthers
<1>8. CASE e # 0 /\ ~(RootActs(e) /\ OfPool(e)) /\ ~(Release(e) /\ OfPool(e))
  <2>1. pc'[0] = pc[0] /\ call'[0] = call[0] /\ wi'[0] = wi[0]
    BY <1>1, <1>4, <1>8
  <2>2. (Releasing("start")' <=> Releasing("start")) /\ (Releasing("end")' <=> Releasing("end"))
    BY <2>1 DEF Releasing
  <2>3. \A d \in Pool : Freed(d)' <=> Freed(d)
    BY <1>1, <2>1 DEF Freed
  <2>4. Releasing("start") => (Meets(e, "start") => Meets(e, "start")')
    <3>1. Meets(e, "start") => ~Thread(e)
      <4>1. SUFFICES ASSUME pc[e] = "met", state[e] = "Rendezvous" PROVE ~Thread(e)
        BY DEF Meets, Waiting
      <4>. QED
        BY <4>1
        DEF Thread, Loop, Construct, Valid, NotValid, NextItem, Claim, ClaimOwn, Exhausted,
            SkipTarget, Steal, NoTarget, Publish, Collective, Call, FanIn, Meet, RootActs, Resume,
            Release, FannedIn, Leave, Return, Again, TakeChunk, LastFanIn, Deactivate, Left,
            Enter, GoOn, Go
    <3>. QED
      BY <3>1
  <2>5. Meets(e, "end") => Meets(e, "end")'
    <3>1. SUFFICES ASSUME pc[e] = "met", state[e] = "Rendezvous" PROVE ~Thread(e)
      BY DEF Meets, Waiting
    <3>. QED
      BY <3>1
      DEF Thread, Loop, Construct, Valid, NotValid, NextItem, Claim, ClaimOwn, Exhausted,
          SkipTarget, Steal, NoTarget, Publish, Collective, Call, FanIn, Meet, RootActs, Resume,
          Release, FannedIn, Leave, Return, Again, TakeChunk, LastFanIn, Deactivate, Left,
          Enter, GoOn, Go
  <2>6. \A d \in Pool : (Releasing("start") => (Meets(d, "start") => Meets(d, "start")'))
                     /\ (Meets(d, "end") => Meets(d, "end")')
    BY <1>7, <1>8, <2>4, <2>5 DEF PoolCall
  <2>. QED
    BY <1>1, <1>3, <1>7, <1>8, <2>1, <2>2, <2>3, <2>6 DEF PoolStages
<1>9. CASE e = 0 /\ ~(RootActs(e) /\ OfPool(e)) /\ ~(Release(e) /\ OfPool(e))
  <2>1. \A d \in Pool : /\ BeforeStart(d)' <=> BeforeStart(d)
                        /\ AfterEnd(d)' <=> AfterEnd(d)
    BY <1>7, <1>9
  <2>2. \A d \in Pool : d # 0 => (Meets(d, "start") => Meets(d, "start")')
                              /\ (Meets(d, "end") => Meets(d, "end")')
    BY <1>7, <1>9 DEF PoolCall
  <2>3. CASE Left(0) /\ OfPool(0)
    <3>1. /\ pc[0] = "release" /\ wi[0] >= launch.pool /\ state' = state
          /\ \/ call[0] = "start" /\ pc'[0] = "valid" /\ call'[0] = "start"
             \/ call[0] = "end" /\ pc'[0] = "fan_in" /\ call'[0] = "fan_in"
      <4>1. pc[0] = "release" /\ wi[0] >= launch.pool
        BY <2>3 DEF Left, Releases
      <4>2. Again(0) \/ LastFanIn(0)
        BY <1>9, <2>3, <4>1
        DEF Thread, Loop, Construct, Valid, NotValid, NextItem, Claim, ClaimOwn, Exhausted,
            SkipTarget, Steal, NoTarget, Publish, Collective, Call, FanIn, Meet, RootActs, Resume,
            FannedIn, Leave, Return, TakeChunk, Deactivate, Enter, GoOn, Go, OfPool, PoolCall,
            TeamCall
      <4>3. CASE Again(0)
        BY <1>1, <1>2, <2>3, <4>1, <4>3 DEF Again, GoOn, Go, OfPool, PoolCall
      <4>4. CASE LastFanIn(0)
        BY <1>1, <1>2, <4>1, <4>4 DEF LastFanIn, Enter, Go
      <4>. QED
        BY <4>2, <4>3, <4>4
    <3>2. \A d \in Pool : Freed(d)
      BY <1>1, <1>3, <3>1 DEF Freed
    <3>3. ~Releasing("start")' /\ ~Releasing("end")'
      BY <3>1 DEF Releasing
    <3>4. CASE call[0] = "start" /\ call'[0] = "start"
      <4>1. Releasing("start") /\ ~BeforeStart(0)
        BY <3>1, <3>4 DEF Releasing, BeforeStart, Waiting
      <4>2. \A d \in Pool : ~BeforeStart(d)
        BY <1>1, <3>2, <4>1 DEF PoolStages
      <4>. QED
        BY <1>1, <1>3, <2>1, <3>3, <3>4, <4>2 DEF PoolStages
    <3>5. CASE call[0] = "end" /\ call'[0] = "fan_in"
      <4>1. Releasing("end") /\ ~Releasing("start") /\ ~BeforeStart(0) /\ AfterEnd(0)
        BY <3>1, <3>5 DEF Releasing, BeforeStart, AfterEnd, Waiting
      <4>2. \A d \in Pool : ~BeforeStart(d) /\ AfterEnd(d)
        BY <1>1, <3>2, <4>1 DEF PoolStages
      <4>. QED
        BY <1>1, <1>3, <2>1, <3>3, <4>2 DEF PoolStages
    <3>. QED
      BY <3>1, <3>4, <3>5
  <2>4. CASE ~(Left(0) /\ OfPool(0))
    <3>1. /\ pc'[0] = "release" /\ call'[0] \in {"start", "end"} =>
               pc[0] = "release" /\ call'[0] = call[0] /\ wi'[0] = wi[0]
          /\ Releasing("start") => Releasing("start")'
          /\ call'[0] = "fan_in" => call[0] = "fan_in"
      <4>1. CASE Loop(0) \/ Claim(0) \/ Call(0)
        BY <1>1, <1>9, <4>1, Stay DEF Stays, Releasing
      <4>2. CASE FanIn(0)
        BY <4>2 DEF FanIn, Releasing
      <4>3. CASE Meet(0) \/ Resume(0)
        BY <1>1, <4>3, StageFacts, ZeroIsRoot, ThreadFacts DEF Meet, Resume, Go
      <4>4. CASE RootActs(0)
        <5>1. call' = call /\ call[0] \notin PoolCall
          BY <1>9, <4>4 DEF RootActs, OfPool
        <5>. QED
          BY <5>1 DEF Releasing, PoolCall
      <4>5. CASE Release(0)
        <5>1. call' = call /\ call[0] \notin PoolCall
          BY <1>9, <4>5 DEF Release, OfPool
        <5>. QED
          BY <5>1 DEF Releasing, PoolCall
      <4>6. CASE Return(0) \/ Again(0) \/ TakeChunk(0) \/ LastFanIn(0)
        <5>1. Left(0) /\ call[0] \notin PoolCall
          BY <2>4, <4>6 DEF Return, Again, TakeChunk, LastFanIn, OfPool
        <5>2. Leaves(0)
          BY <1>1, <1>9, <4>6, Leave1
        <5>. QED
          BY <5>1, <5>2 DEF Leaves, Releasing, PoolCall
      <4>7. CASE Deactivate(0)
        BY <1>1, <1>2, <4>7 DEF Deactivate, GoOn, Go, Releasing, FannedIn
      <4>. QED
        BY <1>9, <4>1, <4>2, <4>3, <4>4, <4>5, <4>6, <4>7 DEF Thread, Collective, Leave
    <3>2. /\ Releasing("start")' <=> Releasing("start")
          /\ Releasing("end")' => Releasing("end")
          /\ Releasing("start")' \/ Releasing("end")' => \A d \in Pool : Freed(d)' <=> Freed(d)
      BY <1>1, <3>1 DEF Releasing, Freed
    <3>. QED
      BY <1>1, <1>3, <2>1, <2>2, <3>1, <3>2 DEF PoolStages
  <2>. QED
    BY <2>3, <2>4
<1>. QED
  BY <1>5, <1>6, <1>8, <1>9

-----------------------------------------------------------------------------
(* A team and its lead                                                     *)

(* The base of a member is the lead of its team.                           *)
LEMMA BaseFacts ==
  ASSUME launch \in Launches, NEW e \in Teamed
  PROVE  /\ e \in Pool /\ Base(e) \in Teamed /\ Base(Base(e)) = Base(e) /\ Place(Base(e)) = 0
         /\ Place(e) = 0 <=> Base(e) = e
<1>1. launch.team \in Nat \ {0}
  BY LaunchFacts
<1>2. 0 \in Places
  BY <1>1 DEF Places
<1>3. Base(e) \in Nat /\ Place(e) \in Nat /\ e = Base(e) + Place(e)
  BY <1>1, TeamFacts DEF Places
<1>4. Base(e) + 0 = Base(e)
  BY <1>3
<1>5. Base(e) \in Teamed /\ Base(Base(e)) = Base(e) /\ Place(Base(e)) = 0
  BY <1>2, <1>4, TeamFacts
<1>. QED
  BY <1>3, <1>5 DEF Teamed

(* A member that is in no collective yet is heading for the one its team   *)
(* is in or leaving it for.                                                *)
LEMMA Compare ==
  ASSUME Control, NEW e \in Teamed, NEW p \in Teamed, Base(p) = Base(e), ~Inside(e)
  PROVE  /\ Out(p) => Meeting(e) = Heading(p)
         /\ ~Out(p) => Meeting(e) = Meeting(p) \/ (Inside(p) /\ Heading(p) = Meeting(e))
<1>1. PICK b \in Teamed : b = Base(e) /\ Base(b) = b
  BY BaseFacts DEF Control, Typed
<1>2. With(e, b) /\ With(p, b)
  BY <1>1 DEF Control, Together
<1>3. ~Out(e)
  BY DEF Out, Inside
<1>4. Meeting(p) = Meeting(b) => Heading(p) = Heading(b)
  BY <1>1 DEF Heading
<1>. QED
  BY <1>2, <1>3, <1>4 DEF With

(* What of a thread its team sees is as it was.                            *)
Same(d) ==
  /\ pc'[d] = pc[d] /\ call'[d] = call[d] /\ wi'[d] = wi[d]
  /\ Meeting(d)' = Meeting(d) /\ (Inside(d)' <=> Inside(d)) /\ (OfPool(d)' <=> OfPool(d))
  /\ Waiting(d)' <=> Waiting(d)
  /\ Out(d)' <=> Out(d)

(* The root's stage changes by its own act in a barrier.                   *)
LEMMA RootSame ==
  ASSUME Control, NEW e \in Pool, Thread(e), ~(RootActs(e) /\ OfPool(e))
  PROVE  (BeforeStart(0)' <=> BeforeStart(0)) /\ (AfterEnd(0)' <=> AfterEnd(0))
<1>1. 0 \in Pool
  BY ThreadFacts DEF Control
<1>2. CASE e = 0
  BY <1>2, StageSelf
<1>3. CASE e # 0
  <2>1. ~(Release(e) /\ OfPool(e))
    BY <1>3, ReleaseTarget
  <2>. QED
    BY <1>1, <1>3, <2>1, StageOthers
<1>. QED
  BY <1>2, <1>3

(* A thread that is not released sees no change of itself.                 *)
LEMMA SameOthers ==
  ASSUME Control, NEW e \in Pool, Thread(e), ~(RootActs(e) /\ OfPool(e)),
         NEW d \in Pool, d # e, Release(e) => d # Released(e, wi[e])
  PROVE  Same(d)
<1>1. Typed /\ launch' = launch /\ Untouched(d) /\ state'[d] = state[d]
  BY ThreadFacts, Others DEF Control
<1>2. (BeforeStart(0)' <=> BeforeStart(0)) /\ (AfterEnd(0)' <=> AfterEnd(0))
  BY RootSame
<1>3. Out(d)' <=> Out(d)
  <2>1. OfPool(d)' <=> OfPool(d)
    BY <1>1, ViewKept
  <2>2. PoolOut(call[d])' <=> PoolOut(call[d])
    BY <1>1, <1>2, ViewKept DEF PoolOut
  <2>. QED
    BY <1>1, <1>2, <2>1 DEF Out, PoolOut, Untouched
<1>. QED
  BY <1>1, <1>3, ViewKept DEF Same

(* What it heads for changes only when its lead publishes a chunk, and     *)
(* then it is not about to leave.                                          *)
LEMMA HeadingOthers ==
  ASSUME Control, NEW e \in Pool, Thread(e), NEW d \in Teamed, d # e, NEW b \in Teamed, b = Base(d)
  PROVE  /\ b # e \/ index' = index => Heading(d)' = Heading(d)
         /\ Out(d) => Heading(d)' = Heading(d)
         /\ ~Out(b) /\ Heading(d) = Meeting(b) => Heading(d)' = Heading(d)
<1>1. /\ Typed /\ launch' = launch /\ Untouched(d) /\ d \in Pool /\ b \in Pool /\ b \in Entry
      /\ SiteOf(d) /\ SiteOf(b) /\ SiteOf(e) /\ e \in Entry
  BY ThreadFacts, Others DEF Control, Teamed, Sites
<1>2. b # e \/ index' = index => index'[b] = index[b]
  BY <1>1, Others
<1>3. index'[Base(d)] = index[Base(d)] => Heading(d)' = Heading(d)
  BY <1>1, ViewKept
<1>4. Meeting(d)' = Meeting(d)
  BY <1>1, ViewKept
<1>5. Meeting(d)[1] # "index" => Heading(d)' = Heading(d)
  <2>. DEFINE m == Meeting(d)
  <2>1. PICK x : x = m
    OBVIOUS
  <2>2. ASSUME x[1] # "index" PROVE Heading(d)' = Heading(d)
    <3>1. Heading(d) = After(x, index[Base(d)])
      BY <2>1 DEF Heading
    <3>2. Heading(d)' = After(x, index[Base(d)])'
      BY <1>4, <2>1 DEF Heading, After, AtChunk, AtValid, InItem
    <3>3. After(x, index[Base(d)])' = After(x, index[Base(d)])
      BY <1>1, <2>2 DEF After, AtValid, InItem
    <3>. QED
      BY <3>1, <3>2, <3>3
  <2>. QED
    BY <2>1, <2>2
<1>6. ASSUME ~Out(b), Heading(d) = Meeting(b), b = e, index' # index PROVE Meeting(d)[1] # "index"
  <2>1. pc[e] = "claim"
    <3>1. CASE Loop(e) \/ Claim(e) \/ Call(e)
      BY <1>1, <1>6, <3>1, Stay DEF Stays
    <3>2. CASE Return(e) \/ Again(e) \/ TakeChunk(e) \/ LastFanIn(e)
      BY <1>1, <1>6, <3>2, Leave1 DEF Leaves
    <3>. QED
      BY <1>6, <3>1, <3>2
      DEF Thread, Collective, Leave, FanIn, Meet, RootActs, Resume, Release, Deactivate, claims
  <2>2. Meeting(b) = <<"index", rank[b], 0, end[b]>>
    BY <1>6, <2>1 DEF Meeting
  <2>3. Heading(d)[1] = "index"
    BY <1>6, <2>2
  <2>. QED
    BY <1>1, <2>3, HeadingKinds
<1>7. ASSUME Out(d), b = e, index' # index PROVE ~Out(b) /\ Heading(d) = Meeting(b)
  <2>1. pc[e] \notin {"release", "met"}
    <3>1. CASE Loop(e) \/ Claim(e) \/ Call(e)
      BY <1>1, <1>7, <3>1, Stay DEF Stays
    <3>2. CASE Return(e) \/ Again(e) \/ TakeChunk(e) \/ LastFanIn(e)
      BY <1>1, <1>7, <3>2, Leave1 DEF Leaves
    <3>. QED
      BY <1>7, <3>1, <3>2
      DEF Thread, Collective, Leave, FanIn, Meet, RootActs, Resume, Release, Deactivate, claims
  <2>2. ~Out(b)
    BY <1>7, <2>1 DEF Out
  <2>3. With(d, b)
    BY DEF Control, Together
  <2>. QED
    BY <1>7, <2>2, <2>3 DEF With
<1>. QED
  BY <1>2, <1>3, <1>5, <1>6, <1>7

(* A thread enters the barriers of the pool before the root acts, and      *)
(* resumes after.                                                          *)
LEMMA ArrivesEarly ==
  ASSUME Control, NEW e \in Pool, pc[e] = "fan_in", call[e] \in {"start", "end"}
  PROVE  ~PoolOut(call[e])
<1>1. SiteOf(e) /\ SiteOf(0) /\ 0 \in Pool
  BY ThreadFacts DEF Control, Sites
<1>2. CASE call[e] = "start"
  <2>1. BeforeStart(e) /\ ~Meets(e, "start")
    BY <1>1, <1>2 DEF BeforeStart, SiteOf, Meets, Waiting
  <2>. QED
    BY <1>2, <2>1, StageFacts DEF PoolOut
<1>3. CASE call[e] = "end"
  <2>1. ~AfterEnd(e) /\ ~Meets(e, "end")
    BY <1>3 DEF AfterEnd, Meets, Waiting
  <2>. QED
    BY <1>3, <2>1, StageFacts DEF PoolOut
<1>. QED
  BY <1>2, <1>3

(* A thread that is let out of its meeting has been let out by its lead.   *)
LEMMA ResumesLate ==
  ASSUME Control, NEW e \in Pool, pc[e] = "met", state[e] # "Rendezvous"
  PROVE  Out(e)
<1>1. /\ SiteOf(e) /\ StateOf(e) /\ state[e] \in {"Inactive", "Active", "Rendezvous"}
  BY ThreadFacts DEF Control, Sites
<1>2. state[e] = "Active" /\ call[e] # "fan_in"
  BY <1>1 DEF StateOf, SiteOf
<1>3. CASE ~OfPool(e)
  BY <1>2, <1>3 DEF Out
<1>4. CASE OfPool(e) /\ call[e] = "start"
  <2>1. ~BeforeStart(e)
    BY <1>2 DEF BeforeStart, Waiting
  <2>. QED
    BY <1>4, <2>1, StageFacts DEF Out, PoolOut
<1>5. CASE OfPool(e) /\ call[e] = "end"
  <2>1. AfterEnd(e)
    BY <1>2, <1>5 DEF AfterEnd
  <2>. QED
    BY <1>5, <2>1, StageFacts DEF Out, PoolOut
<1>. QED
  BY <1>2, <1>3, <1>4, <1>5 DEF OfPool, PoolCall

(* Once the lead has its team's arrivals they all wait for it.             *)
LEMMA TeamWaits ==
  ASSUME Control, NEW e \in Teamed, Place(e) = 0, pc[e] = "fan_in", ~OfPool(e), wi[e] >= Fans(e),
         NEW x \in Teamed, Base(x) = Base(e), x # e
  PROVE  Sits(e, x)
<1>. DEFINE S == {d \in Teamed : Base(d) = Base(e) /\ d # e /\ ~Sits(e, d)}
<1>1. Typed /\ launch \in Launches /\ e \in Pool /\ wi[e] \in Nat
  BY ThreadFacts DEF Control, Typed, Teamed
<1>2. SUFFICES ASSUME S # {} PROVE FALSE
  OBVIOUS
<1>3. S \in SUBSET Nat
  BY <1>1, TeamFacts
<1>4. PICK m \in S : \A n \in S : m <= n
  <2>. HIDE DEF S
  <2>. QED
    BY <1>2, <1>3, LeastNumber
<1>5. m \in Teamed /\ m # e /\ m \in Nat /\ Base(m) = Base(e) /\ ~Sits(e, m)
  BY <1>3, <1>4
<1>6. Place(m) # 0
  BY <1>1, <1>5, BaseFacts
<1>7. PICK p \in Teamed : \E i \in TeamFan(p) : m = FanChild(p, i) /\ Base(p) = Base(m) /\ p < m
  BY <1>1, <1>5, <1>6, TeamParent
<1>8. PICK i \in TeamFan(p) : m = FanChild(p, i) /\ Base(p) = Base(m) /\ p < m
  BY <1>7
<1>9. TeamEdge(p, i, m) /\ p \in Nat /\ i \in Nat /\ p \in Pool
  BY <1>1, <1>8, TeamTree, TeamFacts DEF Control, TeamEdges
<1>10. CASE p = e
  <2>1. Fans(e) = TeamFans(e) /\ TeamFans(e) \in Nat
    BY <1>1, TeamTree DEF Fans, TeamFans
  <2>2. i < wi[e]
    BY <1>1, <1>8, <1>9, <1>10, <2>1 DEF TeamFan
  <2>. QED
    BY <1>5, <1>9, <1>10, <2>2 DEF TeamEdge
<1>11. CASE p # e
  <2>1. Sits(e, p)
    BY <1>4, <1>5, <1>8, <1>9, <1>11
  <2>2. SiteOf(p) /\ SiteOf(e)
    BY <1>1, <1>9 DEF Control, Sites
  <2>3. pc[p] = "met" /\ Meeting(p)[1] = Meeting(e)[1]
    BY <2>1 DEF Sits, Waiting
  <2>4. call[p] = call[e]
    BY <1>1, <1>9, <2>2, <2>3, MeetingKinds
  <2>5. Sits(p, m)
    BY <1>9, <2>3, <2>4 DEF TeamEdge, OfPool
  <2>. QED
    BY <1>5, <2>1, <2>5 DEF Sits
<1>. QED
  BY <1>10, <1>11

(* Inside a collective a thread stays in it.                               *)
LEMMA Within ==
  ASSUME Typed, NEW e \in Pool, SiteOf(e),
         FanIn(e) \/ Meet(e) \/ RootActs(e) \/ Resume(e) \/ Release(e) \/ Deactivate(e)
  PROVE  /\ call' = call /\ index' = index /\ Meeting(e)' = Meeting(e)
         /\ Heading(e)' = Heading(e) /\ (OfPool(e)' <=> OfPool(e))
         /\ pc[e] \in {"fan_in", "met", "release"}
         /\ FanIn(e) => /\ pc[e] = "fan_in" /\ pc'[e] = "fan_in" /\ wi'[e] = wi[e] + 1
                        /\ state' = state
         /\ Meet(e) => /\ pc[e] = "fan_in" /\ pc'[e] = "met" /\ state'[e] = "Rendezvous"
                       /\ wi' = wi
         /\ RootActs(e) => /\ pc[e] = "fan_in" /\ pc'[e] = "release" /\ wi'[e] = 0
                           /\ state' = state
         /\ Resume(e) => /\ pc[e] = "met" /\ pc'[e] = "release" /\ wi'[e] = 0
                         /\ state' = state
         /\ Release(e) => /\ pc[e] = "release" /\ pc'[e] = "release" /\ wi'[e] = wi[e] + 1
         /\ Deactivate(e) => /\ pc[e] = "fan_in" /\ pc'[e] = "done" /\ state'[e] = "Inactive"
                             /\ call[e] = "fan_in"
<1>1. /\ e \in Entry /\ launch' = launch
      /\ pc \in [Entry -> {"wait", "valid", "functor", "claim", "fan_in", "met", "release", "done"}]
      /\ wi \in [Entry -> 0..launch.pool]
      /\ state \in [Entry -> {"Inactive", "Active", "Rendezvous"}]
  BY ThreadFacts, Others DEF Typed, Thread, Collective, Leave
<1>2. call' = call /\ index' = index /\ rank' = rank /\ end' = end /\ at' = at
  BY DEF FanIn, Meet, RootActs, Resume, Release, Deactivate, GoOn, claims, place
<1>3. /\ pc[e] \in {"fan_in", "met", "release"}
      /\ pc'[e] \in {"fan_in", "met", "release", "done"}
  BY <1>1 DEF FanIn, Meet, RootActs, Resume, Release, Deactivate, GoOn, Go, FannedIn
<1>4. Meeting(e)' = Meeting(e)
  BY <1>2, <1>3 DEF Meeting
<1>5. Heading(e)' = Heading(e)
  BY <1>1, <1>2, <1>4 DEF Heading, After, AtChunk, AtValid, InItem, Base
<1>6. OfPool(e)' <=> OfPool(e)
  BY <1>2 DEF OfPool
<1>7. /\ FanIn(e) => /\ pc[e] = "fan_in" /\ pc'[e] = "fan_in" /\ wi'[e] = wi[e] + 1
                     /\ state' = state
      /\ Meet(e) => /\ pc[e] = "fan_in" /\ pc'[e] = "met" /\ state'[e] = "Rendezvous"
                    /\ wi' = wi
      /\ RootActs(e) => /\ pc[e] = "fan_in" /\ pc'[e] = "release" /\ wi'[e] = 0
                        /\ state' = state
  BY <1>1 DEF FanIn, Meet, RootActs, GoOn, Go, FannedIn, Set
<1>8. /\ Resume(e) => /\ pc[e] = "met" /\ pc'[e] = "release" /\ wi'[e] = 0
                      /\ state' = state
      /\ Release(e) => /\ pc[e] = "release" /\ pc'[e] = "release" /\ wi'[e] = wi[e] + 1
      /\ Deactivate(e) => /\ pc[e] = "fan_in" /\ pc'[e] = "done" /\ state'[e] = "Inactive"
                          /\ call[e] = "fan_in"
  BY <1>1 DEF Resume, Release, Deactivate, GoOn, Go, FannedIn, Set
<1>. QED
  BY <1>2, <1>3, <1>4, <1>5, <1>6, <1>7, <1>8

(* What of a thread its lead, and a lead's team, see is as it was, but     *)
(* that it may have gone in.                                               *)
Seen(d) ==
  /\ Meeting(d)' = Meeting(d) /\ (Inside(d) => Inside(d)') /\ (Out(d)' <=> Out(d))
Leaving(e) == Return(e) \/ Again(e) \/ TakeChunk(e) \/ LastFanIn(e)

(* A thread that neither lets its team out nor leaves is seen as before.   *)
LEMMA SeenSelf ==
  ASSUME Control, NEW e \in Teamed, Thread(e), ~RootActs(e), ~Leaving(e)
  PROVE  Seen(e)
<1>1. /\ Typed /\ e \in Pool /\ SiteOf(e) /\ ~Idle(e)
      /\ (BeforeStart(0)' <=> BeforeStart(0)) /\ (AfterEnd(0)' <=> AfterEnd(0))
  BY RootSame DEF Control, Sites, Teamed
<1>2. CASE Loop(e) \/ Claim(e) \/ Call(e)
  BY <1>1, <1>2, Stay DEF Stays, Seen, Inside, Out
<1>3. CASE FanIn(e) \/ Deactivate(e)
  BY <1>1, <1>3, Within DEF Seen, Inside, Out
<1>4. CASE Meet(e)
  <2>1. pc[e] = "fan_in" /\ pc'[e] = "met" /\ state'[e] = "Rendezvous" /\ call' = call
    BY <1>1, <1>4, Within
  <2>2. OfPool(e) => ~PoolOut(call[e])
    <3>1. call[e] # "fan_in"
      BY <1>4 DEF Meet
    <3>. QED
      BY <1>1, <2>1, <3>1, ArrivesEarly DEF OfPool, PoolCall
  <2>3. PoolOut(call[e])' <=> PoolOut(call[e])
    BY <1>1, <2>1 DEF PoolOut
  <2>4. ~Out(e) /\ ~Out(e)'
    BY <2>1, <2>2, <2>3 DEF Out, OfPool, PoolOut
  <2>. QED
    BY <1>1, <1>4, <2>1, <2>4, Within DEF Seen, Inside
<1>5. CASE Resume(e)
  <2>1. pc[e] = "met" /\ pc'[e] = "release" /\ state[e] # "Rendezvous"
    BY <1>1, <1>5, Within DEF Resume
  <2>2. Out(e) /\ Out(e)'
    BY <1>1, <2>1, ResumesLate DEF Out
  <2>. QED
    BY <1>1, <1>5, <2>1, <2>2, Within DEF Seen, Inside
<1>6. CASE Release(e)
  BY <1>1, <1>6, Within DEF Seen, Inside, Out
<1>. QED
  BY <1>2, <1>3, <1>4, <1>5, <1>6 DEF Thread, Collective, Leave, Leaving

(* A thread that is not released is seen as before.                        *)
LEMMA SeenOthers ==
  ASSUME Control, NEW e \in Pool, Thread(e), ~(RootActs(e) /\ OfPool(e)),
         NEW d \in Pool, d # e, Release(e) /\ ~OfPool(e) => d # Released(e, wi[e])
  PROVE  Seen(d)
<1>1. CASE Release(e) => d # Released(e, wi[e])
  BY <1>1, SameOthers DEF Same, Seen
<1>2. CASE Release(e) /\ OfPool(e) /\ d = Released(e, wi[e])
  <2>1. /\ Waiting(d) /\ Meets(d, call[0]) /\ call[0] \in {"start", "end"}
    BY <1>2, ReleaseTarget
  <2>2. pc[d] = "met" /\ OfPool(d)
    BY <2>1 DEF Meets, Waiting, OfPool, PoolCall
  <2>3. Typed /\ launch' = launch /\ Untouched(d)
    BY ThreadFacts, Others DEF Control
  <2>4. (BeforeStart(0)' <=> BeforeStart(0)) /\ (AfterEnd(0)' <=> AfterEnd(0))
    BY RootSame
  <2>5. /\ Meeting(d)' = Meeting(d) /\ (Inside(d)' <=> Inside(d)) /\ (OfPool(d)' <=> OfPool(d))
        /\ call'[d] = call[d] /\ pc'[d] = pc[d]
    BY <2>3, ViewKept
  <2>6. PoolOut(call[d])' <=> PoolOut(call[d])
    BY <2>4, <2>5 DEF PoolOut
  <2>7. Out(d)' <=> Out(d)
    BY <2>2, <2>5, <2>6 DEF Out, PoolOut
  <2>. QED
    BY <2>5, <2>7 DEF Seen
<1>. QED
  BY <1>1, <1>2

(* Members and leads stay together.                                        *)
LEMMA WithSeen ==
  ASSUME NEW d, NEW b, With(d, b), Seen(d), Seen(b),
         Out(b) => Heading(b)' = Heading(b),
         ~Out(b) /\ Inside(d) /\ Heading(d) = Meeting(b) => Heading(d)' = Heading(d)
  PROVE  With(d, b)'
<1>. DEFINE a0 == Heading(b)
            a1 == Heading(b)'
            c0 == Heading(d)
            c1 == Heading(d)'
            m0 == Meeting(b)
            m1 == Meeting(b)'
            k0 == Meeting(d)
            k1 == Meeting(d)'
<1>1. /\ IF Out(b) THEN (Inside(d) /\ k0 = m0) \/ (~Out(d) /\ k0 = a0)
         ELSE (~Out(d) /\ k0 = m0) \/ (Inside(d) /\ c0 = m0)
      /\ k1 = k0 /\ m1 = m0 /\ (Out(b)' <=> Out(b)) /\ (Out(d)' <=> Out(d))
      /\ Inside(d) => Inside(d)'
      /\ Out(b) => a1 = a0
      /\ ~Out(b) /\ Inside(d) /\ c0 = m0 => c1 = c0
  BY DEF With, Seen
<1>2. With(d, b)' <=>
        IF Out(b)' THEN (Inside(d)' /\ k1 = m1) \/ (~Out(d)' /\ k1 = a1)
        ELSE (~Out(d)' /\ k1 = m1) \/ (Inside(d)' /\ c1 = m1)
  BY DEF With
<1>. HIDE DEF a0, a1, c0, c1, m0, m1, k0, k1
<1>. QED
  BY <1>1, <1>2

(* Every step keeps the members with their lead.                           *)
LEMMA TogetherThread ==
  ASSUME Control, NEW e \in Pool, Thread(e)
  PROVE  Together'
<1>1. /\ Typed /\ SiteOf(e) /\ launch' = launch /\ Teamed' = Teamed /\ launch \in Launches
      /\ e \in Nat /\ wi[e] \in Nat
      /\ \A d \in Pool : Base(d)' = Base(d)
      /\ \A d \in Teamed : d \in Pool
  BY ThreadFacts, Others, LaunchKept DEF Control, Sites, Teamed
<1>2. SUFFICES ASSUME NEW d \in Teamed, NEW b \in Teamed, b = Base(d), d # b PROVE With(d, b)'
  <2>1. ASSUME NEW b \in Teamed PROVE With(b, b)'
    BY DEF With, Out, Inside
  <2>. QED
    BY <1>1, <1>2, <2>1 DEF Together
<1>3. /\ With(d, b) /\ d \in Pool /\ b \in Pool /\ Base(b) = b /\ Place(b) = 0 /\ Place(d) # 0
      /\ SiteOf(d) /\ SiteOf(b)
  BY <1>1, <1>2, BaseFacts DEF Control, Together, Sites
<1>4. CASE RootActs(e) /\ OfPool(e)
  <2>1. /\ e = 0 /\ pc[0] = "fan_in" /\ wi[0] >= Fans(0) /\ call[0] \in {"start", "end"}
        /\ pc'[0] = "release" /\ call' = call /\ index' = index /\ state' = state
    <3>1. e = 0
      BY <1>4 DEF RootActs, Root
    <3>2. pc[e] = "fan_in" /\ wi[e] >= Fans(e) /\ call[e] \in {"start", "end"}
      BY <1>4 DEF RootActs, FannedIn, OfPool, PoolCall
    <3>3. pc'[e] = "release" /\ call' = call /\ index' = index /\ state' = state
      BY <1>1, <1>4, Within
    <3>. QED
      BY <3>1, <3>2, <3>3
  <2>2. \A x \in Pool : x # 0 => Meets(x, call[0])
    BY <2>1, PoolWaits
  <2>3. PoolOut(call[0])' /\ ~PoolOut(call[0])
    <3>1. ~PoolOut(call[0])
      BY <1>1, <2>1, ArrivesEarly
    <3>2. PoolOut(call[0])'
      BY <2>1 DEF PoolOut, BeforeStart, AfterEnd, Waiting
    <3>. QED
      BY <3>1, <3>2
  <2>4. ASSUME NEW x \in Pool, SiteOf(x)
        PROVE  /\ Inside(x)' /\ Out(x)' /\ Meeting(x)' = Meeting(x) /\ ~Out(x)
               /\ Meeting(x)[1] = call[0] /\ Heading(x)[1] # call[0]
    <3>1. CASE x = 0
      <4>1. Inside(x)' /\ Out(x)' /\ ~Out(x) /\ Meeting(x)' = Meeting(x)
        BY <1>1, <1>4, <2>1, <3>1, Within DEF Inside, Out
      <4>2. Meeting(x)[1] = call[0]
        BY <1>1, <2>1, <2>4, <3>1, MeetingKinds
      <4>3. Heading(x)[1] # call[0]
        BY <1>1, <2>1, <2>4, <4>2, HeadingKinds
      <4>. QED
        BY <4>1, <4>2, <4>3
    <3>2. CASE x # 0
      <4>1. Meets(x, call[0]) /\ pc[x] = "met" /\ call[x] = call[0] /\ OfPool(x)
        BY <2>1, <2>2, <3>2 DEF Meets, Waiting, OfPool, PoolCall
      <4>2. /\ Meeting(x)' = Meeting(x) /\ pc'[x] = "met" /\ call'[x] = call[0] /\ OfPool(x)'
        <5>1. Untouched(x)
          BY <1>1, <2>1, <3>2, Others, ThreadFacts
        <5>. QED
          BY <1>1, <4>1, <5>1, ViewKept
      <4>3. PoolOut(call[x])' <=> PoolOut(call[0])'
        BY <2>1, <4>1 DEF PoolOut
      <4>4. Inside(x)' /\ Out(x)' /\ ~Out(x)
        BY <2>3, <4>1, <4>2, <4>3 DEF Inside, Out
      <4>5. Meeting(x)[1] = call[0]
        BY <1>1, <2>4, <4>1, MeetingKinds
      <4>6. Heading(x)[1] # call[0]
        BY <1>1, <2>1, <2>4, <4>5, HeadingKinds
      <4>. QED
        BY <4>2, <4>4, <4>5, <4>6
    <3>. QED
      BY <3>1, <3>2
  <2>5. /\ Inside(d)' /\ Out(d)' /\ Meeting(d)' = Meeting(d) /\ ~Out(b)
        /\ Meeting(b)[1] = call[0] /\ Heading(d)[1] # call[0] /\ Meeting(b)' = Meeting(b) /\ Out(b)'
    BY <1>3, <2>4
  <2>6. Meeting(d) = Meeting(b)
    BY <1>3, <2>5 DEF With
  <2>. QED
    BY <2>5, <2>6 DEF With
<1>5. CASE RootActs(e) /\ ~OfPool(e)
  <2>1. /\ e \in Teamed /\ Place(e) = 0 /\ pc[e] = "fan_in" /\ wi[e] >= Fans(e)
        /\ pc'[e] = "release" /\ index' = index /\ Meeting(e)' = Meeting(e)
    BY <1>1, <1>5, Within DEF RootActs, FannedIn, Root, SiteOf, Teamed
  <2>2. d # e
    BY <1>3, <2>1
  <2>3. Seen(d) /\ Heading(d)' = Heading(d)
    <3>1. ~Release(e)
      BY <2>1 DEF Release
    <3>. QED
      BY <1>2, <1>3, <1>5, <2>1, <2>2, <3>1, SeenOthers, HeadingOthers
  <2>4. CASE b = e
    <3>1. Sits(e, d)
      BY <1>2, <1>3, <1>5, <2>1, <2>2, <2>4, TeamWaits
    <3>2. Inside(d) /\ Meeting(d) = Meeting(b)
      BY <2>4, <3>1 DEF Sits, Waiting, Inside
    <3>3. Out(b)'
      BY <2>1, <2>4 DEF Out
    <3>. QED
      BY <2>1, <2>3, <2>4, <3>2, <3>3 DEF With, Seen
  <2>5. CASE b # e
    <3>1. Seen(b) /\ Heading(b)' = Heading(b)
      <4>1. ~Release(e)
        BY <2>1 DEF Release
      <4>. QED
        BY <1>3, <1>5, <2>1, <2>5, <4>1, SeenOthers, HeadingOthers
    <3>. QED
      BY <1>3, <2>3, <3>1, WithSeen
  <2>. QED
    BY <2>4, <2>5
<1>6. CASE Leaving(e)
  <2>1. /\ pc[e] = "release" /\ pc'[e] \in {"valid", "functor", "fan_in"}
        /\ Meeting(e)' = Heading(e) /\ index' = index /\ Leaves(e) /\ ~RootActs(e) /\ ~Release(e)
    BY <1>1, <1>6, Leave1 DEF Leaves, Leaving, RootActs, FannedIn, Release, Left
  <2>2. Out(e) /\ Inside(e) /\ ~Out(e)' /\ ~Inside(e)'
    BY <2>1 DEF Out, Inside
  <2>3. \A x \in Teamed : x # e => Seen(x) /\ Heading(x)' = Heading(x)
    <3>1. SUFFICES ASSUME NEW x \in Teamed, x # e PROVE Seen(x) /\ Heading(x)' = Heading(x)
      OBVIOUS
    <3>2. PICK y \in Teamed : y = Base(x)
      BY <1>1, BaseFacts
    <3>. QED
      BY <1>1, <2>1, <3>1, <3>2, SeenOthers, HeadingOthers
  <2>4. CASE d = e
    <3>1. Seen(b) /\ Heading(b)' = Heading(b)
      BY <1>2, <2>3, <2>4
    <3>2. Meeting(d) = Meeting(b) => Heading(d) = Heading(b)
      BY <1>2, <1>3 DEF Heading
    <3>3. Out(b) => Meeting(d) = Meeting(b)
      BY <1>3, <2>2, <2>4 DEF With
    <3>4. ~Out(b) => Heading(d) = Meeting(b)
      BY <1>3, <2>2, <2>4 DEF With
    <3>5. Meeting(b)' = Meeting(b) /\ (Out(b)' <=> Out(b))
      BY <3>1 DEF Seen
    <3>6. CASE Out(b)
      <4>1. Meeting(d)' = Heading(b)' /\ ~Out(d)'
        BY <2>1, <2>2, <2>4, <3>1, <3>2, <3>3, <3>6
      <4>. QED
        BY <3>5, <3>6, <4>1 DEF With
    <3>7. CASE ~Out(b)
      <4>1. Meeting(d)' = Meeting(b)' /\ ~Out(d)'
        BY <2>1, <2>2, <2>4, <3>4, <3>5, <3>7
      <4>. QED
        BY <3>5, <3>7, <4>1 DEF With
    <3>. QED
      BY <3>6, <3>7
  <2>5. CASE b = e
    <3>1. Seen(d) /\ Heading(d)' = Heading(d)
      BY <1>2, <2>3, <2>5
    <3>2. Meeting(d) = Meeting(b) => Heading(d) = Heading(b)
      BY <1>2, <1>3 DEF Heading
    <3>3. (Inside(d) /\ Meeting(d) = Meeting(b)) \/ (~Out(d) /\ Meeting(d) = Heading(b))
      BY <1>3, <2>2, <2>5 DEF With
    <3>4. Meeting(d)' = Meeting(d) /\ (Out(d)' <=> Out(d)) /\ (Inside(d) => Inside(d)')
      BY <3>1 DEF Seen
    <3>5. ~Out(b)' /\ Meeting(b)' = Heading(b)
      BY <2>1, <2>2, <2>5
    <3>6. (Inside(d)' /\ Heading(d)' = Meeting(b)') \/ (~Out(d)' /\ Meeting(d)' = Meeting(b)')
      BY <3>1, <3>2, <3>3, <3>4, <3>5
    <3>. QED
      BY <3>5, <3>6 DEF With
  <2>6. CASE d # e /\ b # e
    BY <1>3, <2>3, <2>6, WithSeen
  <2>. QED
    BY <2>4, <2>5, <2>6
<1>7. CASE Release(e) /\ ~OfPool(e)
  <2>1. PICK t : t = Released(e, wi[e])
    OBVIOUS
  <2>2. /\ e \in Teamed /\ t = FanChild(e, wi[e]) /\ wi[e] \in TeamFan(e) /\ Sits(e, t)
        /\ pc[e] = "release" /\ t \in Pool
    BY <1>7, <2>1, ReleaseTarget
  <2>3. t \in Teamed /\ Base(t) = Base(e) /\ Place(t) # 0 /\ t # b
    BY <1>1, <1>3, <2>2, TeamTree
  <2>4. index' = index /\ ~RootActs(e) /\ ~Leaving(e)
    <3>1. index' = index
      BY <1>1, <1>7, Within
    <3>2. ~RootActs(e)
      BY <2>2 DEF RootActs, FannedIn
    <3>3. pc' = pc
      BY <1>7 DEF Release
    <3>4. ~Leaving(e)
      BY <1>1, <2>2, <3>3, Leave1 DEF Leaves, Leaving, Return, Again, TakeChunk, LastFanIn, Left,
         Release, GoOn, Go, Enter
    <3>. QED
      BY <3>1, <3>2, <3>4
  <2>5. \A x \in Teamed : x # t => Seen(x)
    BY <1>1, <1>7, <2>1, <2>4, SeenSelf, SeenOthers, <2>2
  <2>6. \A x \in Teamed : Heading(x)' = Heading(x)
    <3>1. SUFFICES ASSUME NEW x \in Teamed PROVE Heading(x)' = Heading(x)
      OBVIOUS
    <3>2. PICK y \in Teamed : y = Base(x)
      BY <1>1, BaseFacts
    <3>. QED
      BY <1>1, <1>7, <2>4, <3>1, <3>2, HeadingOthers, Within
  <2>7. CASE d # t
    BY <1>3, <2>3, <2>5, <2>6, <2>7, WithSeen
  <2>8. CASE d = t
    <3>1. Seen(b) /\ Out(e)
      BY <2>2, <2>3, <2>5 DEF Out
    <3>2. With(e, b)
      BY <1>2, <2>2, <2>3, <2>8 DEF Control, Together
    <3>3. Meeting(d)' = Meeting(d) /\ Inside(d)' /\ Meeting(d) = Meeting(e)
      <4>1. t # e
        BY <1>7, <2>1, ReleaseTarget
      <4>2. Untouched(t)
        BY <1>1, <2>2, <4>1, Others, ThreadFacts
      <4>3. Meeting(t)' = Meeting(t) /\ (Inside(t)' <=> Inside(t))
        BY <1>1, <2>2, <4>2, ViewKept
      <4>. QED
        BY <2>2, <2>8, <4>3 DEF Sits, Waiting, Inside
    <3>4. Heading(d) = Heading(e)
      BY <1>2, <2>3, <2>8, <3>3 DEF Heading
    <3>5. Out(b) => Meeting(d) = Meeting(b)
      BY <3>1, <3>2, <3>3 DEF With
    <3>6. ~Out(b) => Heading(d) = Meeting(b)
      BY <3>1, <3>2, <3>4 DEF With
    <3>7. Meeting(b)' = Meeting(b) /\ (Out(b)' <=> Out(b))
      BY <3>1 DEF Seen
    <3>8. Heading(d)' = Heading(d)
      BY <1>2, <2>6
    <3>. QED
      BY <3>3, <3>5, <3>6, <3>7, <3>8 DEF With
  <2>. QED
    BY <2>7, <2>8
<1>8. CASE ~RootActs(e) /\ ~Leaving(e) /\ ~(Release(e) /\ ~OfPool(e))
  <2>1. \A x \in Teamed : Seen(x)
    BY <1>1, <1>8, SeenSelf, SeenOthers
  <2>2. Out(b) => Heading(b)' = Heading(b)
    <3>1. CASE b # e
      BY <1>3, <3>1, HeadingOthers
    <3>2. CASE b = e
      <4>1. SUFFICES ASSUME Out(b) PROVE Heading(b)' = Heading(b)
        OBVIOUS
      <4>2. pc[e] \in {"met", "release"}
        BY <3>2, <4>1 DEF Out
      <4>3. ~(Loop(e) \/ Claim(e) \/ Call(e))
        BY <1>1, <4>2, Stay DEF Stays
      <4>. QED
        BY <1>1, <1>8, <3>2, <4>3, Within DEF Thread, Collective, Leave, Leaving
    <3>. QED
      BY <3>1, <3>2
  <2>3. ~Out(b) /\ Inside(d) /\ Heading(d) = Meeting(b) => Heading(d)' = Heading(d)
    <3>1. CASE d # e
      BY <1>2, <1>3, <3>1, HeadingOthers
    <3>2. CASE d = e
      <4>1. SUFFICES ASSUME Inside(d) PROVE Heading(d)' = Heading(d)
        OBVIOUS
      <4>2. pc[e] \in {"met", "release"}
        BY <3>2, <4>1 DEF Inside
      <4>3. ~(Loop(e) \/ Claim(e) \/ Call(e))
        BY <1>1, <4>2, Stay DEF Stays
      <4>. QED
        BY <1>1, <1>8, <3>2, <4>3, Within DEF Thread, Collective, Leave, Leaving
    <3>. QED
      BY <3>1, <3>2
  <2>. QED
    BY <1>3, <2>1, <2>2, <2>3, WithSeen
<1>. QED
  BY <1>4, <1>5, <1>6, <1>7, <1>8

(* Whom a member waits for, or releases, is in its collective.             *)
LEMMA SitsKind ==
  ASSUME Control, NEW p \in Pool, NEW c \in Pool, Sits(p, c), pc[p] \in {"fan_in", "met", "release"}
  PROVE  call[c] = call[p] /\ pc[c] = "met" /\ (OfPool(c) <=> OfPool(p)) /\ Meets(c, call[p])
<1>1. Typed /\ SiteOf(p) /\ SiteOf(c) /\ pc[c] = "met" /\ Meeting(c) = Meeting(p)
  BY DEF Control, Sites, Sits, Waiting
<1>2. call[c] = Meeting(c)[1] /\ call[p] = Meeting(p)[1]
  BY <1>1, MeetingKinds
<1>3. call[c] = call[p]
  BY <1>1, <1>2
<1>. QED
  BY <1>1, <1>3 DEF OfPool, Meets, Sits

(* The root releases the last entries first.                               *)
LEMMA ReleaseOrder ==
  ASSUME Control, NEW p \in Pool, NEW c \in Pool, p < c, pc[p] = "release",
         call[p] \in {"start", "end"}, p = 0 => wi[0] >= launch.pool
  PROVE  ~Meets(c, call[p])
<1>1. /\ PoolStages /\ SiteOf(c) /\ SiteOf(p) /\ launch.pool \in Nat /\ wi[0] \in Nat
      /\ p \in Nat /\ c \in Nat /\ 0 \in Pool /\ c # 0
  <2>1. p \in Nat /\ c \in Nat /\ launch.pool \in Nat /\ 0 \in Pool
    BY ThreadFacts DEF Control
  <2>2. wi[0] \in Nat
    BY <2>1, ThreadFacts DEF Control
  <2>. QED
    BY <2>1, <2>2 DEF Control, Sites
<1>2. SUFFICES ASSUME Meets(c, call[p]) PROVE FALSE
  OBVIOUS
<1>3. pc[c] = "met" /\ state[c] = "Rendezvous" /\ call[c] = call[p]
  BY <1>2 DEF Meets, Waiting
<1>4. Freed(p) => Freed(c)
  BY <1>1 DEF Freed
<1>5. p = 0 => Freed(c)
  BY <1>1 DEF Freed
<1>6. CASE call[p] = "start"
  <2>1. BeforeStart(c) /\ ~BeforeStart(p)
    BY <1>1, <1>3, <1>6 DEF BeforeStart, Waiting, SiteOf
  <2>2. Releasing("start") /\ Meets(c, "start")
    BY <2>1, StageFacts
  <2>3. ~Freed(c)
    BY <1>1, <2>1, <2>2 DEF PoolStages
  <2>4. p # 0 /\ ~Freed(p)
    BY <1>4, <1>5, <2>3
  <2>5. Meets(p, "start")
    BY <1>1, <2>2, <2>4 DEF PoolStages
  <2>. QED
    BY <2>5 DEF Meets, Waiting
<1>7. CASE call[p] = "end"
  <2>1. AfterEnd(p) /\ ~AfterEnd(c)
    BY <1>3, <1>7 DEF AfterEnd
  <2>2. AfterEnd(0) /\ Releasing("end")
    BY <2>1, StageFacts
  <2>3. ~Freed(c)
    BY <1>1, <2>1, <2>2 DEF PoolStages
  <2>4. p # 0 /\ ~Freed(p)
    BY <1>4, <1>5, <2>3
  <2>5. Meets(p, "end")
    BY <1>1, <2>2, <2>4 DEF PoolStages
  <2>. QED
    BY <2>5 DEF Meets, Waiting
<1>. QED
  BY <1>6, <1>7

(* A fan-in child that has arrived sits in the same collective.            *)
LEMMA ChildSits ==
  ASSUME Control, NEW e \in Teamed, NEW i \in TeamFan(e), NEW c, c = FanChild(e, i),
         pc[e] = "fan_in", ~OfPool(e), Arrived(c)
  PROVE  Sits(e, c)
<1>1. /\ Typed /\ launch \in Launches /\ e \in Pool /\ c \in Teamed /\ c \in Pool /\ e < c
      /\ e \in Nat /\ c \in Nat /\ mi \in Nat
  <2>1. Typed /\ launch \in Launches /\ e \in Pool
    BY DEF Control, Typed, Teamed
  <2>2. c \in Teamed /\ e < c
    BY <2>1, TeamTree
  <2>. QED
    BY <2>1, <2>2, ThreadFacts DEF Teamed
<1>2. StateOf(c) /\ StateOf(e) /\ SiteOf(c) /\ TeamEdge(e, i, c)
  BY <1>1 DEF Control, Sites, TeamEdges
<1>3. /\ pc[c] \in {"wait", "valid", "functor", "claim", "fan_in", "met", "release", "done"}
      /\ state[c] \in {"Inactive", "Active", "Rendezvous"}
  BY <1>1, ThreadFacts
<1>4. CASE state[c] = "Rendezvous"
  <2>1. Waiting(c)
    BY <1>2, <1>3, <1>4 DEF StateOf, Waiting
  <2>2. ~Out(e)
    BY DEF Out
  <2>. QED
    BY <1>2, <2>1, <2>2 DEF TeamEdge, Sits
<1>5. CASE state[c] = "Inactive"
  <2>1. pc[c] = "done"
    <3>1. ~(e < mi)
      BY <1>2 DEF StateOf
    <3>. QED
      BY <1>1, <1>2, <1>5, <3>1 DEF StateOf
  <2>2. AfterEnd(c)
    BY <1>2, <2>1 DEF SiteOf, AfterEnd
  <2>3. AfterEnd(e) \/ Meets(e, "end")
    BY <1>1, <2>2, StageFacts
  <2>. QED
    BY <2>3 DEF AfterEnd, Meets, OfPool, PoolCall
<1>. QED
  BY <1>3, <1>4, <1>5 DEF Arrived

(* What a member knows of a child, after the step of any thread            *)
LEMMA TeamEdgeOthers ==
  ASSUME Control, NEW e \in Pool, Thread(e), ~(RootActs(e) /\ OfPool(e)),
         NEW p \in Teamed, NEW i \in TeamFan(p), NEW c, c = FanChild(p, i), p # e, c # e
  PROVE  TeamEdge(p, i, c)'
<1>1. /\ Typed /\ launch \in Launches /\ launch' = launch /\ p \in Pool /\ c \in Teamed /\ c \in Pool
      /\ Base(c) = Base(p) /\ SiteOf(p) /\ SiteOf(c)
  <2>1. Typed /\ launch \in Launches /\ launch' = launch /\ p \in Pool
    BY Others DEF Control, Typed, Teamed
  <2>2. c \in Teamed /\ Base(c) = Base(p)
    BY <2>1, TeamTree
  <2>. QED
    BY <2>1, <2>2 DEF Teamed, Control, Sites
<1>2. TeamEdge(p, i, c)
  BY DEF Control, TeamEdges
<1>3. PICK b \in Teamed : b = Base(p)
  BY <1>1, BaseFacts
<1>4. Out(p) => Heading(p)' = Heading(p)
  BY <1>3, HeadingOthers
<1>5. /\ pc'[p] = pc[p] /\ call'[p] = call[p] /\ wi'[p] = wi[p] /\ Meeting(p)' = Meeting(p)
      /\ (OfPool(p)' <=> OfPool(p)) /\ pc'[c] = pc[c] /\ call'[c] = call[c]
      /\ Meeting(c)' = Meeting(c)
  <2>1. Untouched(p) /\ Untouched(c)
    BY <1>1, Others, ThreadFacts
  <2>. QED
    BY <1>1, <2>1, ViewKept
<1>6. pc[p] = "release" => Out(p)
  BY DEF Out
<1>7. CASE Release(e) /\ c = Released(e, wi[e])
  <2>1. OfPool(e)
    <3>1. SUFFICES ASSUME ~OfPool(e) PROVE FALSE
      OBVIOUS
    <3>2. e \in Teamed /\ wi[e] \in TeamFan(e) /\ c = FanChild(e, wi[e])
      BY <1>7, <3>1, ReleaseTarget
    <3>3. PICK j : j = wi[e]
      OBVIOUS
    <3>4. j \in TeamFan(e) /\ FanChild(e, j) = FanChild(p, i)
      BY <3>2, <3>3
    <3>. QED
      BY <1>1, <3>2, <3>4, TeamOneParent
  <2>2. e = 0 /\ call[0] \in {"start", "end"} /\ Meets(c, call[0]) /\ OfPool(c)
    <3>1. e = 0 /\ call[0] \in {"start", "end"} /\ (c # 0 => Meets(c, call[0]))
      BY <1>7, <2>1, ReleaseTarget
    <3>2. Meets(c, call[0])
      BY <3>1
    <3>. QED
      BY <3>1, <3>2 DEF Meets, OfPool, PoolCall
  <2>3. ~Waiting(c)'
    BY <1>1, <1>7, Others, ThreadFacts DEF Release, Set, Waiting, Typed
  <2>4. ASSUME pc[p] \in {"fan_in", "met", "release"}, ~OfPool(p) PROVE ~Sits(p, c)
    BY <1>1, <2>2, <2>4, SitsKind
  <2>. QED
    BY <1>2, <1>5, <2>3, <2>4 DEF TeamEdge
<1>8. CASE ~(Release(e) /\ c = Released(e, wi[e]))
  <2>1. Waiting(c)' <=> Waiting(c)
    BY <1>1, <1>8, SameOthers DEF Same
  <2>2. CASE ~(Release(e) /\ ~OfPool(e) /\ p = Released(e, wi[e]))
    <3>1. Out(p)' <=> Out(p)
      BY <1>1, <2>2, SeenOthers DEF Seen
    <3>. QED
      BY <1>2, <1>4, <1>5, <1>6, <2>1, <3>1 DEF TeamEdge, Sits
  <2>3. CASE Release(e) /\ ~OfPool(e) /\ p = Released(e, wi[e])
    <3>1. Sits(e, p) /\ pc[e] = "release"
      BY <2>3, ReleaseTarget
    <3>2. pc[p] = "met" /\ ~OfPool(p)
      BY <1>1, <2>3, <3>1, SitsKind
    <3>3. state'[p] = "Active"
      BY <1>1, <2>3, ThreadFacts DEF Release, Set, Typed
    <3>4. Out(p)'
      BY <1>5, <3>2, <3>3 DEF Out
    <3>. QED
      BY <1>2, <1>5, <2>1, <3>2, <3>4 DEF TeamEdge, Sits
  <2>. QED
    BY <2>2, <2>3
<1>. QED
  BY <1>7, <1>8

(* The lead has waited for its children when it lets the team out.         *)
LEMMA TeamEdgeRoot ==
  ASSUME Control, NEW e \in Pool, RootActs(e), OfPool(e),
         NEW p \in Teamed, NEW i \in TeamFan(p), NEW c, c = FanChild(p, i)
  PROVE  TeamEdge(p, i, c)'
<1>1. /\ Typed /\ launch \in Launches /\ p \in Pool /\ c \in Pool /\ p < c /\ p \in Nat /\ c \in Nat
      /\ SiteOf(e)
  <2>1. Typed /\ launch \in Launches /\ p \in Pool
    BY DEF Control, Typed, Teamed
  <2>2. c \in Teamed /\ p < c
    BY <2>1, TeamTree
  <2>. QED
    BY <2>1, <2>2, ThreadFacts DEF Teamed, Control, Sites
<1>2. e = 0
  BY DEF RootActs, Root
<1>3. pc[e] = "fan_in" /\ wi[e] >= Fans(e) /\ call[e] \in {"start", "end"}
  BY DEF RootActs, FannedIn, OfPool, PoolCall
<1>4. pc'[e] = "release" /\ call' = call
  BY <1>1, Within
<1>5. \A x \in Pool : x # 0 => Meets(x, call[0])
  BY <1>2, <1>3, PoolWaits
<1>6. PoolOut(call[0])'
  BY <1>2, <1>3, <1>4 DEF PoolOut, BeforeStart, AfterEnd, Waiting
<1>7. call'[p] = call[0] /\ call'[c] = call[0] /\ OfPool(p)'
  <2>1. call[p] = call[0] /\ call[c] = call[0]
    BY <1>1, <1>5 DEF Meets
  <2>. QED
    BY <1>2, <1>3, <1>4, <2>1 DEF OfPool, PoolCall
<1>8. pc'[p] \in {"met", "release"}
  <2>1. CASE p = 0
    BY <1>2, <1>4, <2>1
  <2>2. CASE p # 0
    <3>1. pc[p] = "met"
      BY <1>1, <1>5, <2>2 DEF Meets, Waiting
    <3>2. pc'[p] = pc[p]
      BY <1>1, <1>2, <2>2, StageOthers DEF Thread, Collective
    <3>. QED
      BY <3>1, <3>2
  <2>. QED
    BY <2>1, <2>2
<1>9. Out(p)'
  <2>1. PoolOut(call[p])' <=> PoolOut(call[0])'
    BY <1>4, <1>7 DEF PoolOut
  <2>. QED
    BY <1>6, <1>7, <1>8, <2>1 DEF Out
<1>. QED
  BY <1>7, <1>9 DEF TeamEdge

(* A child's step keeps what its parent knows of it.                       *)
LEMMA TeamEdgeChild ==
  ASSUME Control, NEW e \in Pool, Thread(e), ~(RootActs(e) /\ OfPool(e)),
         NEW p \in Teamed, NEW i \in TeamFan(p), e = FanChild(p, i)
  PROVE  TeamEdge(p, i, e)'
<1>1. /\ Typed /\ launch \in Launches /\ launch' = launch /\ p \in Pool /\ e \in Teamed
      /\ Base(e) = Base(p) /\ Place(e) # 0 /\ p < e /\ p \in Nat /\ e \in Nat
      /\ SiteOf(p) /\ SiteOf(e) /\ StateOf(e)
  <2>1. Typed /\ launch \in Launches /\ launch' = launch /\ p \in Pool
    BY Others DEF Control, Typed, Teamed
  <2>2. e \in Teamed /\ Base(e) = Base(p) /\ Place(e) # 0 /\ p < e
    BY <2>1, TeamTree
  <2>. QED
    BY <2>1, <2>2, ThreadFacts DEF Teamed, Control, Sites
<1>2. TeamEdge(p, i, e)
  BY DEF Control, TeamEdges
<1>3. ASSUME Release(e) PROVE p # Released(e, wi[e])
  <2>1. CASE OfPool(e)
    <3>1. e = 0
      BY <1>3, <2>1, ReleaseTarget
    <3>. QED
      BY <1>1, <3>1
  <2>2. CASE ~OfPool(e)
    <3>1. e \in Teamed /\ wi[e] \in TeamFan(e) /\ Released(e, wi[e]) = FanChild(e, wi[e])
      BY <1>3, <2>2, ReleaseTarget
    <3>2. PICK x : x = FanChild(e, wi[e])
      OBVIOUS
    <3>3. e < x /\ x \in Teamed
      BY <1>1, <3>1, <3>2, TeamTree
    <3>4. x \in Nat
      BY <1>1, <3>3, ThreadFacts DEF Teamed
    <3>. QED
      BY <1>1, <3>1, <3>2, <3>3, <3>4
  <2>. QED
    BY <2>1, <2>2
<1>4. Same(p)
  BY <1>1, <1>3, SameOthers
<1>5. Heading(p)' = Heading(p)
  <2>1. PICK b \in Teamed : b = Base(p)
    BY <1>1, BaseFacts
  <2>2. b # e
    BY <1>1, <2>1, BaseFacts
  <2>. QED
    BY <1>1, <2>1, <2>2, HeadingOthers
<1>6. CASE ~Waiting(e) /\ ~Waiting(e)'
  BY <1>2, <1>4, <1>6 DEF TeamEdge, Same, Sits
<1>7. CASE Meet(e)
  <2>1. /\ pc[e] = "fan_in" /\ ~Inside(e) /\ ~Waiting(e) /\ Meeting(e)' = Meeting(e)
        /\ call[e] # "fan_in" /\ call' = call
    BY <1>1, <1>7, Within DEF Meet, Inside, Waiting
  <2>2. Out(p) => Meeting(e) = Heading(p)
    BY <1>1, <2>1, Compare
  <2>3. ~Out(p) => Meeting(e) = Meeting(p)
    <3>1. SUFFICES ASSUME ~Out(p), Inside(p), Heading(p) = Meeting(e) PROVE FALSE
      BY <1>1, <2>1, Compare
    <3>2. pc[p] = "met"
      BY <3>1 DEF Out, Inside
    <3>3. CASE ~OfPool(p)
      BY <1>2, <2>1, <3>2, <3>3 DEF TeamEdge, Sits
    <3>4. CASE OfPool(p)
      <4>1. call[p] \in {"start", "end"} /\ ~PoolOut(call[p])
        BY <1>1, <3>1, <3>2, <3>4 DEF SiteOf, OfPool, PoolCall, Out
      <4>2. CASE call[p] = "start"
        <5>1. BeforeStart(e)
          BY <1>1, <4>1, <4>2, StageFacts DEF PoolOut
        <5>2. Meeting(e)[1] = "start"
          BY <1>1, <5>1, MeetingKinds
        <5>. QED
          BY <1>1, <3>1, <5>2, HeadingKinds
      <4>3. CASE call[p] = "end"
        <5>1. Meeting(p)[1] = "end"
          BY <1>1, <3>2, <4>3, MeetingKinds
        <5>2. Meeting(e)[1] = "fan_in"
          BY <1>1, <3>1, <5>1, HeadingKinds
        <5>. QED
          BY <1>1, <2>1, <5>2, MeetingKinds
      <4>. QED
        BY <4>1, <4>2, <4>3
    <3>. QED
      BY <3>3, <3>4
  <2>4. pc[p] = "release" => Out(p)
    BY DEF Out
  <2>. QED
    BY <1>2, <1>4, <1>5, <2>1, <2>2, <2>3, <2>4 DEF TeamEdge, Same, Sits
<1>8. ASSUME ~Meet(e) PROVE ~Waiting(e) /\ ~Waiting(e)'
  <2>1. CASE Loop(e) \/ Claim(e) \/ Call(e)
    BY <1>1, <2>1, Stay DEF Stays, Waiting
  <2>2. CASE Leaving(e)
    BY <1>1, <2>2, Leave1 DEF Leaves, Leaving, Waiting
  <2>3. CASE FanIn(e) \/ RootActs(e) \/ Release(e) \/ Deactivate(e)
    BY <1>1, <2>3, Within DEF Waiting
  <2>4. CASE Resume(e)
    BY <1>1, <2>4, Within DEF Waiting, Resume
  <2>. QED
    BY <1>8, <2>1, <2>2, <2>3, <2>4 DEF Thread, Collective, Leave, Leaving
<1>. QED
  BY <1>6, <1>7, <1>8

(* A parent's step keeps what it knows of its child.                       *)
LEMMA TeamEdgeParent ==
  ASSUME Control, NEW e \in Teamed, Thread(e), ~(RootActs(e) /\ OfPool(e)),
         NEW i \in TeamFan(e), NEW c, c = FanChild(e, i)
  PROVE  TeamEdge(e, i, c)'
<1>1. /\ Typed /\ launch \in Launches /\ e \in Pool /\ c \in Teamed /\ c \in Pool /\ c # e
      /\ e < c /\ e \in Nat /\ c \in Nat /\ i \in Nat /\ wi[e] \in Nat
      /\ SiteOf(e) /\ SiteOf(c) /\ TeamFans(e) \in Nat /\ i < TeamFans(e)
  <2>1. Typed /\ launch \in Launches /\ e \in Pool
    BY DEF Control, Typed, Teamed
  <2>2. c \in Teamed /\ e < c /\ TeamFans(e) \in Nat /\ i \in Nat
    BY <2>1, TeamTree
  <2>3. e \in Nat /\ c \in Nat /\ wi[e] \in Nat
    BY <2>1, <2>2, ThreadFacts DEF Teamed
  <2>4. i < TeamFans(e)
    BY <2>2 DEF TeamFan
  <2>. QED
    BY <2>1, <2>2, <2>3, <2>4 DEF Teamed, Control, Sites
<1>2. TeamEdge(e, i, c)
  BY <1>1 DEF Control, TeamEdges
<1>3. ~OfPool(e) => Fans(e) = TeamFans(e) /\ Releases(e) = TeamFans(e)
  BY DEF Fans, Releases, TeamFans
<1>4. CASE Loop(e) \/ Claim(e) \/ Call(e)
  <2>1. /\ pc[e] \notin {"met", "release"} /\ pc'[e] \in {"valid", "functor", "claim", "fan_in"}
        /\ Meeting(e)' = Meeting(e) /\ (pc'[e] = "fan_in" => wi'[e] = 0)
    BY <1>1, <1>4, Stay DEF Stays, Teamed
  <2>2. ~Release(e)
    BY <2>1 DEF Release
  <2>3. Same(c)
    BY <1>1, <2>2, SameOthers
  <2>4. ~Out(e) /\ ~Out(e)'
    BY <2>1 DEF Out
  <2>. QED
    BY <1>1, <1>2, <2>1, <2>3, <2>4 DEF TeamEdge, Same, Sits
<1>5. CASE FanIn(e)
  <2>1. /\ pc[e] = "fan_in" /\ pc'[e] = "fan_in" /\ wi'[e] = wi[e] + 1 /\ call' = call
        /\ Meeting(e)' = Meeting(e) /\ (OfPool(e)' <=> OfPool(e))
    BY <1>1, <1>5, Within
  <2>2. Same(c)
    BY <1>1, <2>1, SameOthers DEF Release
  <2>3. ~Out(e) /\ ~Out(e)'
    BY <2>1 DEF Out
  <2>4. ~OfPool(e) /\ i < wi'[e] => Sits(e, c)
    <3>1. CASE i < wi[e]
      BY <1>2, <2>1, <3>1 DEF TeamEdge
    <3>2. CASE i = wi[e] /\ ~OfPool(e)
      <4>1. Arrived(c)
        BY <1>1, <1>5, <3>2 DEF FanIn
      <4>. QED
        BY <1>1, <2>1, <3>2, <4>1, ChildSits
    <3>. QED
      BY <1>1, <2>1, <3>1, <3>2
  <2>. QED
    BY <1>2, <2>1, <2>2, <2>3, <2>4 DEF TeamEdge, Same, Sits
<1>6. CASE Meet(e)
  <2>1. /\ pc[e] = "fan_in" /\ pc'[e] = "met" /\ wi[e] >= Fans(e)
        /\ Meeting(e)' = Meeting(e) /\ (OfPool(e)' <=> OfPool(e)) /\ ~RootActs(e) /\ ~Leaving(e)
    <3>1. pc[e] = "fan_in" /\ pc'[e] = "met" /\ wi[e] >= Fans(e) /\ ~RootActs(e)
      BY <1>1, <1>6, Within DEF Meet, FannedIn, RootActs
    <3>2. ~Leaving(e)
      BY <3>1 DEF Leaving, Return, Again, TakeChunk, LastFanIn, Left
    <3>. QED
      BY <1>1, <1>6, <3>1, <3>2, Within
  <2>2. Same(c)
    BY <1>1, <2>1, SameOthers DEF Release
  <2>3. ~Out(e) /\ ~Out(e)'
    BY <2>1, SeenSelf DEF Seen, Out
  <2>4. ~OfPool(e) => Sits(e, c)
    BY <1>1, <1>2, <1>3, <2>1 DEF TeamEdge
  <2>. QED
    BY <1>2, <2>1, <2>2, <2>3, <2>4 DEF TeamEdge, Same, Sits
<1>7. CASE RootActs(e)
  <2>1. /\ pc[e] = "fan_in" /\ pc'[e] = "release" /\ wi[e] >= Fans(e) /\ wi'[e] = 0
        /\ Meeting(e)' = Meeting(e) /\ ~OfPool(e) /\ ~OfPool(e)'
    BY <1>1, <1>7, Within DEF RootActs, FannedIn
  <2>2. Same(c)
    BY <1>1, <2>1, SameOthers DEF Release
  <2>3. Out(e)'
    BY <2>1 DEF Out
  <2>4. Sits(e, c)
    BY <1>1, <1>2, <1>3, <2>1 DEF TeamEdge
  <2>. QED
    BY <1>1, <1>2, <2>1, <2>2, <2>3, <2>4 DEF TeamEdge, Same, Sits
<1>8. CASE Resume(e)
  <2>1. /\ pc[e] = "met" /\ pc'[e] = "release" /\ state[e] # "Rendezvous" /\ wi'[e] = 0
        /\ call' = call
        /\ Meeting(e)' = Meeting(e) /\ Heading(e)' = Heading(e) /\ (OfPool(e)' <=> OfPool(e))
    BY <1>1, <1>8, Within DEF Resume
  <2>2. Same(c)
    BY <1>1, <2>1, SameOthers DEF Release
  <2>3. Out(e) /\ Out(e)'
    BY <1>1, <2>1, ResumesLate DEF Out
  <2>. QED
    BY <1>1, <1>2, <2>1, <2>2, <2>3 DEF TeamEdge, Same, Sits
<1>9. CASE Release(e)
  <2>1. /\ pc[e] = "release" /\ pc'[e] = "release" /\ wi'[e] = wi[e] + 1 /\ call' = call
        /\ Meeting(e)' = Meeting(e) /\ Heading(e)' = Heading(e) /\ (OfPool(e)' <=> OfPool(e))
    BY <1>1, <1>9, Within
  <2>2. Out(e) /\ Out(e)'
    BY <2>1 DEF Out
  <2>3. CASE c = Released(e, wi[e])
    <3>1. ~Waiting(c)'
      BY <1>1, <1>9, <2>3, ThreadFacts DEF Release, Set, Waiting, Typed
    <3>2. ~OfPool(e) => i = wi[e]
      <4>1. SUFFICES ASSUME ~OfPool(e) PROVE i = wi[e]
        OBVIOUS
      <4>2. PICK j : j = wi[e]
        OBVIOUS
      <4>3. j \in TeamFan(e) /\ c = FanChild(e, j)
        BY <1>1, <1>9, <2>3, <4>1, <4>2, ReleaseTarget
      <4>. QED
        BY <1>1, <4>2, <4>3, TeamOneParent
    <3>. QED
      BY <1>1, <2>1, <2>2, <3>1, <3>2 DEF TeamEdge, Sits
  <2>4. CASE c # Released(e, wi[e])
    <3>1. Same(c)
      BY <1>1, <2>4, SameOthers
    <3>2. ~OfPool(e) => i # wi[e]
      BY <1>1, <2>4 DEF Released
    <3>. QED
      BY <1>1, <1>2, <2>1, <2>2, <3>1, <3>2 DEF TeamEdge, Same, Sits
  <2>. QED
    BY <2>3, <2>4
<1>10. CASE Leaving(e)
  <2>1. /\ pc[e] = "release" /\ wi[e] >= Releases(e) /\ pc'[e] \in {"valid", "functor", "fan_in"}
        /\ Meeting(e)' = Heading(e) /\ (pc'[e] = "fan_in" => wi'[e] = 0)
    BY <1>1, <1>10, Leave1 DEF Leaves, Leaving
  <2>2. Same(c)
    <3>1. ~Release(e)
      BY <1>1, <2>1, FansType, ThreadFacts DEF Release
    <3>. QED
      BY <1>1, <3>1, SameOthers
  <2>3. Out(e) /\ ~Out(e)'
    BY <2>1 DEF Out
  <2>4. Waiting(c) => Meeting(c) = Heading(e)
    <3>1. SUFFICES ASSUME Waiting(c) PROVE Meeting(c) = Heading(e)
      OBVIOUS
    <3>2. CASE ~OfPool(e)
      BY <1>1, <1>2, <1>3, <2>1, <3>1, <3>2 DEF TeamEdge
    <3>3. CASE OfPool(e)
      <4>1. call[e] \in {"start", "end"}
        BY <1>1, <2>1, <3>3 DEF SiteOf, OfPool, PoolCall
      <4>2. e = 0 => wi[0] >= launch.pool
        BY <2>1, <3>3 DEF Releases
      <4>3. ~Meets(c, call[e])
        BY <1>1, <2>1, <4>1, <4>2, ReleaseOrder
      <4>. QED
        BY <1>2, <2>3, <3>1, <3>3, <4>3 DEF TeamEdge, Meets
    <3>. QED
      BY <3>2, <3>3
  <2>. QED
    BY <1>1, <2>1, <2>2, <2>3, <2>4 DEF TeamEdge, Same, Sits
<1>11. CASE Deactivate(e)
  <2>1. pc[e] = "fan_in" /\ pc'[e] = "done" /\ Meeting(e)' = Meeting(e)
    BY <1>1, <1>11, Within
  <2>2. Same(c)
    BY <1>1, <2>1, SameOthers DEF Release
  <2>3. ~Out(e) /\ ~Out(e)'
    BY <2>1 DEF Out
  <2>. QED
    BY <1>2, <2>1, <2>2, <2>3 DEF TeamEdge, Same, Sits
<1>. QED
  BY <1>4, <1>5, <1>6, <1>7, <1>8, <1>9, <1>10, <1>11 DEF Thread, Collective, Leave, Leaving

(* Every step keeps the trees of the teams.                                *)
LEMMA TeamEdgesThread ==
  ASSUME Control, NEW e \in Pool, Thread(e)
  PROVE  TeamEdges'
<1>1. /\ Teamed' = Teamed /\ \A p \in Teamed : p \in Pool /\ TeamFan(p)' = TeamFan(p)
  BY Others, LaunchKept DEF Control, Teamed
<1>2. ASSUME NEW p \in Teamed, NEW i \in TeamFan(p), NEW c, c = FanChild(p, i)
      PROVE  TeamEdge(p, i, c)'
  <2>1. CASE RootActs(e) /\ OfPool(e)
    BY <1>2, <2>1, TeamEdgeRoot
  <2>2. CASE ~(RootActs(e) /\ OfPool(e)) /\ p = e
    BY <1>2, <2>2, TeamEdgeParent
  <2>3. CASE ~(RootActs(e) /\ OfPool(e)) /\ c = e
    BY <1>2, <2>3, TeamEdgeChild
  <2>4. CASE ~(RootActs(e) /\ OfPool(e)) /\ p # e /\ c # e
    BY <1>2, <2>4, TeamEdgeOthers
  <2>. QED
    BY <2>1, <2>2, <2>3, <2>4
<1>3. ASSUME NEW p \in Teamed, NEW i \in TeamFan(p) PROVE TeamEdge(p, i, FanChild(p, i))'
  BY <1>2
<1>. QED
  BY <1>1, <1>3 DEF TeamEdges

-----------------------------------------------------------------------------
(* The fan-in of the pool                                                  *)

(* A child of the pool is idle, a lead, or a child in its team as well.    *)
LEMMA PoolChild ==
  ASSUME launch \in Launches, TreesAgree(launch), NEW p \in Pool, NEW i \in PoolFan(p),
         NEW d, d = FanChild(p, i)
  PROVE  /\ d \in Pool /\ p < d
         /\ Idle(d) \/ Place(d) = 0 \/ (p \in Teamed /\ i \in TeamFan(p))
<1>1. d \in Pool /\ p < d /\ i \in Nat
  BY PoolTree
<1>. DEFINE a == Alloc(launch)
            q == d \div a
            r == p \div a
<1>2. /\ d % a = Place(d) /\ p % a = Place(p) /\ Base(d) = a * q /\ Base(p) = a * r
  BY DEF Place, Base
<1>3. \/ d % a = 0 \/ d % a >= launch.team \/ q >= Teams(launch)
      \/ q = r /\ i < FanCount(p % a, launch.team)
  <2>1. p \in Entries(launch.pool) /\ i \in 0..(FanCount(p, launch.pool) - 1)
    BY DEF Pool, PoolFan, PoolFans
  <2>. QED
    BY <2>1 DEF TreesAgree
<1>4. /\ p \in Nat /\ d \in Nat /\ a \in Nat \ {0} /\ launch.team \in Nat
      /\ q \in Nat /\ r \in Nat /\ Teams(launch) \in Nat
  BY <1>1, EntryFacts, LaunchFacts
<1>5. /\ Base(d) \in Nat /\ d = Base(d) + Place(d) /\ Place(d) \in Nat
      /\ Base(p) \in Nat /\ p = Base(p) + Place(p) /\ Place(p) \in Nat
      /\ (~Idle(d) <=> Place(d) < launch.team /\ q < Teams(launch))
      /\ (~Idle(p) <=> Place(p) < launch.team /\ r < Teams(launch))
  <2>1. Place(d) \in 0..(a - 1) /\ Place(p) \in 0..(a - 1)
    BY <1>1, EntryFacts
  <2>. QED
    BY <1>1, <1>4, <2>1, EntryFacts
<1>. HIDE DEF a, q, r
<1>6. ASSUME ~Idle(d), Place(d) # 0 PROVE p \in Teamed /\ i \in TeamFan(p)
  <2>1. q = r /\ i < FanCount(Place(p), launch.team)
    BY <1>2, <1>3, <1>4, <1>5, <1>6
  <2>2. Place(p) < Place(d)
    BY <1>1, <1>2, <1>4, <1>5, <2>1
  <2>3. p \in Teamed
    BY <1>4, <1>5, <1>6, <2>1, <2>2 DEF Teamed
  <2>4. TeamFans(p) \in Nat
    BY <2>3, TeamTree
  <2>5. i \in TeamFan(p)
    BY <1>1, <2>1, <2>4 DEF TeamFan, TeamFans
  <2>. QED
    BY <2>3, <2>5
<1>. QED
  BY <1>1, <1>6

(* A thread that waits before the root has acted keeps waiting.            *)
LEMMA WaitingKept ==
  ASSUME Control, NEW e \in Pool, Thread(e), NEW d \in Pool, NEW c \in {"start", "end"},
         Meets(d, c), ~PoolOut(c)
  PROVE  Meets(d, c)'
<1>1. Typed /\ launch' = launch /\ SiteOf(d) /\ SiteOf(e) /\ c \in PoolCall
  BY Others DEF Control, Sites, PoolCall
<1>2. d # e
  <2>1. SUFFICES ASSUME d = e PROVE FALSE
    OBVIOUS
  <2>2. pc[e] = "met" /\ state[e] = "Rendezvous"
    BY <2>1 DEF Meets, Waiting
  <2>3. CASE Loop(e) \/ Claim(e) \/ Call(e)
    BY <1>1, <2>2, <2>3, Stay DEF Stays
  <2>4. CASE Leaving(e)
    BY <1>1, <2>2, <2>4, Leave1 DEF Leaves, Leaving
  <2>5. CASE FanIn(e) \/ Meet(e) \/ RootActs(e) \/ Resume(e) \/ Release(e) \/ Deactivate(e)
    BY <1>1, <2>2, <2>5, Within DEF Resume
  <2>. QED
    BY <2>3, <2>4, <2>5 DEF Thread, Collective, Leave, Leaving
<1>3. CASE ~(Release(e) /\ OfPool(e))
  BY <1>1, <1>2, <1>3, StageOthers
<1>4. CASE Release(e) /\ OfPool(e)
  <2>1. PICK t : t = Released(e, wi[e])
    OBVIOUS
  <2>2. /\ t \in Pool /\ e = 0 /\ call[0] \in {"start", "end"} /\ Releasing(call[0])
        /\ t # 0 => Meets(t, call[0])
    BY <1>4, <2>1, ReleaseTarget
  <2>3. PoolOut(call[0])
    BY <2>2 DEF Releasing, PoolOut, BeforeStart, AfterEnd, Waiting
  <2>4. d # t
    <3>1. SUFFICES ASSUME d = t PROVE FALSE
      OBVIOUS
    <3>2. c = call[0]
      BY <1>2, <2>2, <3>1 DEF Meets
    <3>. QED
      BY <2>3, <3>2
  <2>5. Untouched(d) /\ state'[d] = state[d]
    BY <1>1, <1>2, <2>1, <2>4, Others, ThreadFacts
  <2>. QED
    BY <2>5 DEF Meets, Waiting, Untouched
<1>. QED
  BY <1>3, <1>4

(* Who is done stays done.                                                 *)
LEMMA DoneKept ==
  ASSUME Control, NEW e \in Pool, Thread(e), NEW d \in Pool, pc[d] = "done"
  PROVE  pc'[d] = "done"
<1>1. Typed /\ SiteOf(e)
  BY DEF Control, Sites
<1>2. d # e
  <2>1. SUFFICES ASSUME pc[e] = "done" PROVE FALSE
    OBVIOUS
  <2>3. CASE Loop(e) \/ Claim(e) \/ Call(e)
    BY <1>1, <2>1, <2>3, Stay DEF Stays
  <2>4. CASE Leaving(e)
    BY <1>1, <2>1, <2>4, Leave1 DEF Leaves, Leaving
  <2>5. CASE FanIn(e) \/ Meet(e) \/ RootActs(e) \/ Resume(e) \/ Release(e) \/ Deactivate(e)
    BY <1>1, <2>1, <2>5, Within DEF Resume
  <2>. QED
    BY <2>3, <2>4, <2>5 DEF Thread, Collective, Leave, Leaving
<1>. QED
  BY <1>2, StageOthers

(* Once the root has acted it stays so.                                    *)
LEMMA RootStays ==
  ASSUME Control, NEW e \in Pool, Thread(e), NEW c \in {"start", "end"}, PoolOut(c)
  PROVE  PoolOut(c)'
<1>1. CASE ~(RootActs(e) /\ OfPool(e))
  BY <1>1, RootSame DEF PoolOut
<1>2. CASE RootActs(e) /\ OfPool(e)
  <2>1. e = 0 /\ Typed /\ SiteOf(e)
    BY <1>2 DEF RootActs, Root, Control, Sites
  <2>2. pc'[0] = "release" /\ call' = call /\ pc[0] = "fan_in" /\ call[0] # "fan_in"
    BY <1>2, <2>1, Within DEF RootActs
  <2>. QED
    BY <2>2 DEF PoolOut, BeforeStart, AfterEnd, Waiting
<1>. QED
  BY <1>1, <1>2

(* A fan-in child in the pool that has arrived waits for its parent.       *)
LEMMA PoolChildMeets ==
  ASSUME Control, TreesAgree(launch), NEW e \in Pool, NEW i \in PoolFan(e),
         NEW d, d = FanChild(e, i), pc[e] = "fan_in", OfPool(e), Arrived(d)
  PROVE  IF call[e] = "fan_in" THEN pc[d] = "done" ELSE Meets(d, call[e])
<1>1. /\ Typed /\ launch \in Launches /\ d \in Pool /\ e < d
      /\ Idle(d) \/ Place(d) = 0 \/ (e \in Teamed /\ i \in TeamFan(e))
      /\ PoolStages
  <2>1. Typed /\ launch \in Launches /\ PoolStages
    BY DEF Control, Typed
  <2>. QED
    BY <2>1, PoolChild
<1>2. /\ StateOf(d) /\ StateOf(e) /\ SiteOf(d) /\ SiteOf(e)
      /\ e \in Nat /\ d \in Nat /\ mi \in Nat /\ launch.pool \in Nat
      /\ pc[d] \in {"wait", "valid", "functor", "claim", "fan_in", "met", "release", "done"}
      /\ state[d] \in {"Inactive", "Active", "Rendezvous"}
  BY <1>1, ThreadFacts DEF Control, Sites
<1>3. wi[0] \in Nat
  BY <1>2, ThreadFacts, ZeroIsRoot, <1>1
<1>4. \/ state[d] = "Rendezvous" /\ pc[d] = "met" /\ Waiting(d)
      \/ state[d] = "Inactive" /\ pc[d] = "done" /\ call[d] = "fan_in"
  <2>1. CASE state[d] = "Rendezvous"
    BY <1>2, <2>1 DEF StateOf, Waiting
  <2>2. CASE state[d] = "Inactive"
    <3>1. ~(e < mi)
      BY <1>2 DEF StateOf
    <3>2. pc[d] = "done"
      BY <1>1, <1>2, <2>2, <3>1 DEF StateOf
    <3>. QED
      BY <1>2, <2>2, <3>2 DEF SiteOf
  <2>. QED
    BY <1>2, <2>1, <2>2 DEF Arrived
<1>5. Freed(e) => Freed(d)
  BY <1>1, <1>2, <1>3 DEF Freed
<1>6. CASE call[e] = "start"
  <2>1. BeforeStart(d)
    <3>1. ~PoolOut("start")
      BY <1>6, ArrivesEarly
    <3>. QED
      BY <1>1, <3>1, StageFacts DEF PoolOut
  <2>. QED
    BY <1>4, <1>6, <2>1 DEF BeforeStart, Meets
<1>7. CASE call[e] = "end"
  <2>1. ~AfterEnd(d)
    <3>1. ~PoolOut("end")
      BY <1>7, ArrivesEarly
    <3>. QED
      BY <1>1, <3>1, StageFacts DEF PoolOut
  <2>2. Waiting(d) /\ pc[d] = "met"
    BY <1>4, <2>1 DEF AfterEnd
  <2>3. CASE OfPool(d)
    <3>1. call[d] \in {"start", "end"}
      BY <1>2, <2>2, <2>3 DEF SiteOf, OfPool, PoolCall
    <3>2. ASSUME call[d] = "start" PROVE FALSE
      <4>1. BeforeStart(d) /\ ~BeforeStart(e)
        BY <1>2, <1>7, <2>2, <3>2 DEF BeforeStart, SiteOf
      <4>2. ~BeforeStart(0)
        BY <4>1, StageFacts
      <4>3. Releasing("start")
        BY <1>1, <4>1, <4>2, StageFacts
      <4>4. ~Freed(d)
        <5>1. d # 0
          BY <1>1, <1>2
        <5>. QED
          BY <1>1, <4>1, <4>3, <5>1 DEF PoolStages
      <4>5. e # 0
        BY <1>7, <4>3 DEF Releasing
      <4>6. Meets(e, "start")
        BY <1>1, <1>5, <4>3, <4>4, <4>5 DEF PoolStages
      <4>. QED
        BY <1>7, <4>6 DEF Meets
    <3>. QED
      BY <1>7, <2>2, <3>1, <3>2 DEF Meets
  <2>4. CASE ~OfPool(d)
    <3>1. ~Idle(d)
      BY <1>2, <2>2, <2>4 DEF SiteOf
    <3>2. Place(d) # 0
      BY <1>2, <2>2, <2>4 DEF SiteOf, Root
    <3>3. TeamEdge(e, i, d)
      BY <1>1, <3>1, <3>2 DEF Control, TeamEdges
    <3>4. Sits(e, d)
      BY <2>2, <3>3 DEF TeamEdge, Sits, Out
    <3>. QED
      BY <1>1, <1>7, <3>4, SitsKind
  <2>. QED
    BY <2>3, <2>4
<1>8. CASE call[e] = "fan_in"
  <2>1. AfterEnd(e) /\ AfterEnd(0)
    BY <1>8, StageFacts DEF AfterEnd
  <2>2. AfterEnd(d)
    <3>1. SUFFICES ASSUME Meets(d, "end"), Releasing("end"), ~AfterEnd(d) PROVE FALSE
      BY <1>1, <2>1, StageFacts
    <3>2. ~Freed(d)
      <4>1. d # 0
        BY <1>1, <1>2
      <4>. QED
        BY <1>1, <3>1, <4>1 DEF PoolStages
    <3>3. e # 0
      BY <1>8, <3>1 DEF Releasing
    <3>4. Meets(e, "end")
      BY <1>1, <1>5, <3>1, <3>2, <3>3 DEF PoolStages
    <3>. QED
      BY <1>8, <3>4 DEF Meets
  <2>3. ~Waiting(d)
    BY <1>2, <2>2 DEF AfterEnd, Waiting, SiteOf
  <2>. QED
    BY <1>4, <1>8, <2>3
<1>. QED
  BY <1>6, <1>7, <1>8 DEF OfPool, PoolCall

(* Every step keeps the tree of the pool.                                  *)
LEMMA PoolEdgesThread ==
  ASSUME Control, TreesAgree(launch), NEW e \in Pool, Thread(e)
  PROVE  PoolEdges'
<1>1. /\ Typed /\ launch \in Launches /\ launch' = launch /\ Pool' = Pool /\ SiteOf(e)
      /\ \A p \in Pool : PoolFan(p)' = PoolFan(p)
  <2>1. Typed /\ launch \in Launches /\ launch' = launch /\ SiteOf(e)
    BY Others DEF Control, Typed, Sites
  <2>. QED
    BY <2>1, LaunchKept
<1>2. ASSUME NEW p \in Pool, NEW i \in PoolFan(p), NEW d, d = FanChild(p, i)
      PROVE  PoolEdge(p, i, d)'
  <2>1. /\ d \in Pool /\ p < d /\ p \in Nat /\ d \in Nat /\ d # p /\ wi[p] \in Nat
        /\ PoolFans(p) \in Nat /\ i \in Nat /\ i < PoolFans(p)
    <3>1. /\ d \in Pool /\ p < d /\ p \in Nat /\ PoolFans(p) \in Nat /\ i \in Nat
      BY <1>1, <1>2, PoolTree
    <3>2. i < PoolFans(p)
      BY <3>1 DEF PoolFan
    <3>. QED
      BY <1>1, <3>1, <3>2, ThreadFacts
  <2>2. PoolEdge(p, i, d) /\ SiteOf(p)
    BY <1>2 DEF Control, PoolEdges, Sites
  <2>3. ASSUME NEW c \in {"start", "end"}, Meets(d, c), ~PoolOut(c)
        PROVE  Meets(d, c)'
    BY <2>1, <2>3, WaitingKept
  <2>4. pc[d] = "done" => pc'[d] = "done"
    BY <2>1, DoneKept
  <2>5. ASSUME pc'[p] \notin {"met", "done"}, pc'[p] = "fan_in" => wi'[p] = 0
        PROVE  PoolEdge(p, i, d)'
    BY <2>1, <2>5 DEF PoolEdge, Waiting
  <2>6. CASE p # e
    <3>1. pc'[p] = pc[p] /\ call'[p] = call[p] /\ wi'[p] = wi[p]
      BY <2>6, StageOthers
    <3>2. Waiting(p)' => Waiting(p)
      BY <1>1, <2>6, <3>1, Others, ThreadFacts DEF Waiting
    <3>3. CASE call[p] \in {"start", "end"}
      <4>1. PICK c \in {"start", "end"} : c = call[p]
        BY <3>3
      <4>2. pc[p] = "fan_in" => ~PoolOut(c)
        BY <4>1, ArrivesEarly
      <4>3. PoolOut(c) => PoolOut(c)'
        BY RootStays
      <4>4. pc'[p] = "fan_in" /\ i < wi'[p] => Meets(d, c)'
        BY <2>2, <2>3, <3>1, <4>1, <4>2 DEF PoolEdge
      <4>5. Waiting(p)' /\ ~PoolOut(c)' => Meets(d, c)'
        BY <2>2, <2>3, <3>2, <4>1, <4>3 DEF PoolEdge
      <4>6. pc'[p] # "done"
        BY <2>2, <3>1, <4>1 DEF SiteOf
      <4>7. call'[p] = c
        BY <3>1, <4>1
      <4>8. (PoolOut(call[p])' <=> PoolOut(c)') /\ (Meets(d, call[p])' <=> Meets(d, c)')
        BY <4>7 DEF PoolOut, Meets
      <4>. QED
        BY <3>1, <4>4, <4>5, <4>6, <4>7, <4>8 DEF PoolEdge
    <3>4. CASE call[p] \notin {"start", "end"}
      BY <2>2, <2>4, <3>1, <3>4 DEF PoolEdge
    <3>. QED
      BY <3>3, <3>4
  <2>7. CASE p = e
    <3>1. CASE Loop(e) \/ Claim(e) \/ Call(e)
      BY <1>1, <2>5, <2>7, <3>1, Stay DEF Stays
    <3>2. CASE Leaving(e)
      BY <1>1, <2>5, <2>7, <3>2, Leave1 DEF Leaves, Leaving
    <3>3. CASE RootActs(e) \/ Resume(e) \/ Release(e)
      BY <1>1, <2>5, <2>7, <3>3, Within
    <3>4. CASE FanIn(e)
      <4>1. /\ pc[e] = "fan_in" /\ pc'[e] = "fan_in" /\ wi'[e] = wi[e] + 1 /\ call' = call
        BY <1>1, <3>4, Within
      <4>2. CASE call[e] \in {"start", "end"}
        <5>1. PICK c \in {"start", "end"} : c = call[e]
          BY <4>2
        <5>2. ~PoolOut(c) /\ OfPool(e)
          BY <4>1, <5>1, ArrivesEarly DEF OfPool, PoolCall
        <5>3. i < wi[e] => Meets(d, c)
          BY <2>2, <2>7, <4>1, <5>1 DEF PoolEdge
        <5>4. i = wi[e] => Meets(d, c)
          <6>1. i = wi[e] => Arrived(d)
            BY <1>2, <2>7, <3>4 DEF FanIn
          <6>. QED
            BY <1>2, <2>7, <4>1, <5>1, <5>2, <6>1, PoolChildMeets
        <5>5. i < wi'[e] => Meets(d, c)'
          BY <2>1, <2>3, <2>7, <4>1, <5>2, <5>3, <5>4
        <5>6. Meets(d, call[e])' <=> Meets(d, c)'
          BY <4>1, <5>1 DEF Meets
        <5>. QED
          BY <2>7, <4>1, <5>1, <5>5, <5>6 DEF PoolEdge, Waiting
      <4>3. CASE call[e] = "fan_in"
        <5>1. i < wi[e] => pc[d] = "done"
          BY <2>2, <2>7, <4>1, <4>3 DEF PoolEdge
        <5>2. i = wi[e] => pc[d] = "done"
          <6>1. i = wi[e] => Arrived(d)
            BY <1>2, <2>7, <3>4 DEF FanIn
          <6>. QED
            BY <1>2, <2>7, <4>1, <4>3, <6>1, PoolChildMeets DEF OfPool, PoolCall
        <5>3. i < wi'[e] => pc'[d] = "done"
          BY <2>1, <2>4, <2>7, <4>1, <5>1, <5>2
        <5>. QED
          BY <2>7, <4>1, <4>3, <5>3 DEF PoolEdge, Waiting
      <4>4. CASE call[e] \notin {"start", "end", "fan_in"}
        BY <2>7, <4>1, <4>4 DEF PoolEdge, Waiting
      <4>. QED
        BY <4>2, <4>3, <4>4
    <3>5. CASE Meet(e)
      <4>1. /\ pc[e] = "fan_in" /\ pc'[e] = "met" /\ call' = call /\ wi[e] >= Fans(e)
        BY <1>1, <3>5, Within DEF Meet, FannedIn
      <4>2. CASE call[e] \in {"start", "end"}
        <5>1. PICK c \in {"start", "end"} : c = call[e]
          BY <4>2
        <5>2. ~PoolOut(c) /\ OfPool(e)
          BY <4>1, <5>1, ArrivesEarly DEF OfPool, PoolCall
        <5>3. Fans(e) = PoolFans(e)
          BY <5>2 DEF Fans, PoolFans
        <5>4. Meets(d, c)'
          BY <2>1, <2>2, <2>3, <2>7, <4>1, <5>1, <5>2, <5>3 DEF PoolEdge
        <5>5. Meets(d, call[e])' <=> Meets(d, c)'
          BY <4>1, <5>1 DEF Meets
        <5>. QED
          BY <2>7, <4>1, <5>4, <5>5 DEF PoolEdge
      <4>3. CASE call[e] \notin {"start", "end"}
        BY <2>7, <4>1, <4>3 DEF PoolEdge
      <4>. QED
        BY <4>2, <4>3
    <3>6. CASE Deactivate(e)
      <4>1. /\ pc[e] = "fan_in" /\ pc'[e] = "done" /\ call' = call /\ wi[e] >= Fans(e)
            /\ call[e] = "fan_in"
        BY <1>1, <3>6, Within DEF Deactivate, FannedIn
      <4>2. Fans(e) = PoolFans(e)
        BY <4>1 DEF Fans, PoolFans, OfPool, PoolCall
      <4>3. pc'[d] = "done"
        BY <2>1, <2>2, <2>4, <2>7, <4>1, <4>2 DEF PoolEdge
      <4>. QED
        BY <2>7, <4>1, <4>3 DEF PoolEdge, Waiting
    <3>. QED
      BY <3>1, <3>2, <3>3, <3>4, <3>5, <3>6 DEF Thread, Collective, Leave, Leaving
  <2>. QED
    BY <2>6, <2>7
<1>3. ASSUME NEW p \in Pool, NEW i \in PoolFan(p) PROVE PoolEdge(p, i, FanChild(p, i))'
  BY <1>2
<1>. QED
  BY <1>1, <1>3 DEF PoolEdges

(* Starting a thread changes nothing that was said of those started.       *)
LEMMA ControlActivate ==
  ASSUME Control, Activate
  PROVE  Control'
<1>1. /\ Typed /\ launch \in Launches /\ launch' = launch /\ mi \in 0..launch.pool
      /\ launch.pool \in Nat /\ launch.pool <= MaxThreads
  BY LaunchFacts DEF Control, Typed, Activate
<1>2. /\ mi > 0 /\ mi' = mi - 1 /\ state' = [state EXCEPT ![mi - 1] = "Active"]
      /\ pc' = pc /\ call' = call /\ wi' = wi /\ rank' = rank /\ end' = end /\ at' = at
      /\ ran' = ran /\ range' = range /\ index' = index /\ target' = target
      /\ stealing' = stealing
  BY DEF Activate, Set, claims, place
<1>3. mi - 1 \in Entry /\ mi - 1 \in Pool
  BY <1>1, <1>2 DEF Pool, Entries
<1>4. pc[mi - 1] = "wait"
  <2>1. PICK x : x = mi - 1
    OBVIOUS
  <2>2. StateOf(x) /\ x < mi
    BY <1>1, <1>3, <2>1 DEF Control, Sites
  <2>. QED
    BY <2>1, <2>2 DEF StateOf
<1>5. Typed'
  <2>1. state' \in [Entry -> {"Inactive", "Active", "Rendezvous"}]
    BY <1>1, <1>2, <1>3 DEF Typed
  <2>2. mi' \in 0..launch'.pool
    BY <1>1, <1>2
  <2>3. Item' = Item
    BY <1>1 DEF Item, Places
  <2>. QED
    BY <1>1, <1>2, <2>1, <2>2, <2>3 DEF Typed
<1>6. Sites'
  BY SitesActivate
<1>7. /\ Pool' = Pool /\ Teamed' = Teamed /\ 0 \in Pool
      /\ \A d \in Teamed : d \in Pool /\ TeamFan(d)' = TeamFan(d) /\ Base(d)' = Base(d)
      /\ \A d \in Pool : PoolFan(d)' = PoolFan(d)
  <2>1. 0 \in Pool
    BY <1>1, ZeroIsRoot
  <2>. QED
    BY <1>1, <2>1, LaunchKept DEF Teamed
<1>8. ASSUME NEW d \in Pool
      PROVE  /\ Untouched(d) /\ (state[d] # state'[d] => pc[d] = "wait")
             /\ (Waiting(d)' <=> Waiting(d)) /\ (BeforeStart(d)' <=> BeforeStart(d))
             /\ (AfterEnd(d)' <=> AfterEnd(d)) /\ (\A c : Meets(d, c)' <=> Meets(d, c))
             /\ (Freed(d)' <=> Freed(d)) /\ (Inside(d)' <=> Inside(d))
             /\ (OfPool(d)' <=> OfPool(d)) /\ Meeting(d)' = Meeting(d) /\ Heading(d)' = Heading(d)
  <2>1. state'[d] # state[d] => d = mi - 1
    BY <1>1, <1>2, <1>3, ThreadFacts DEF Typed
  <2>2. Untouched(d) /\ (state[d] # state'[d] => pc[d] = "wait")
    BY <1>2, <1>4, <2>1 DEF Untouched
  <2>3. (Waiting(d)' <=> Waiting(d)) /\ (AfterEnd(d)' <=> AfterEnd(d))
    <3>1. pc[d] = "wait" => ~AfterEnd(d) /\ ~AfterEnd(d)'
      <4>1. SiteOf(d)
        BY DEF Control, Sites
      <4>. QED
        BY <1>2, <4>1 DEF SiteOf, AfterEnd
    <3>. QED
      BY <1>2, <2>2, <3>1 DEF Waiting, AfterEnd
  <2>4. (BeforeStart(d)' <=> BeforeStart(d)) /\ (\A c : Meets(d, c)' <=> Meets(d, c))
    BY <1>1, <1>2, <2>3 DEF BeforeStart, Meets
  <2>5. index'[Base(d)] = index[Base(d)]
    BY <1>2
  <2>6. /\ (Inside(d)' <=> Inside(d)) /\ (OfPool(d)' <=> OfPool(d)) /\ Meeting(d)' = Meeting(d)
        /\ Heading(d)' = Heading(d)
    BY <1>1, <2>2, <2>5, ViewKept
  <2>7. Freed(d)' <=> Freed(d)
    BY <1>1, <1>2 DEF Freed
  <2>. QED
    BY <2>2, <2>3, <2>4, <2>6, <2>7
<1>9. \A c : PoolOut(c)' <=> PoolOut(c)
  BY <1>7, <1>8 DEF PoolOut
<1>10. ASSUME NEW d \in Pool PROVE (Out(d)' <=> Out(d)) /\ Seen(d)
  <2>1. PoolOut(call[d])' <=> PoolOut(call[d])
    BY <1>2, <1>7, <1>8 DEF PoolOut
  <2>2. Out(d)' <=> Out(d)
    <3>1. (OfPool(d)' <=> OfPool(d)) /\ pc' = pc /\ (pc[d] = "met" => state'[d] = state[d])
      BY <1>2, <1>8
    <3>. QED
      BY <2>1, <3>1 DEF Out, PoolOut
  <2>. QED
    BY <1>8, <2>2 DEF Seen
<1>11. Together'
  <2>1. SUFFICES ASSUME NEW d \in Teamed, NEW b \in Teamed, b = Base(d) PROVE With(d, b)'
    BY <1>7 DEF Together
  <2>2. With(d, b)
    BY <2>1 DEF Control, Together
  <2>. QED
    BY <1>7, <1>8, <1>10, <2>2, WithSeen
<1>12. TeamEdges'
  <2>1. ASSUME NEW p \in Teamed, NEW i \in TeamFan(p), NEW c, c = FanChild(p, i)
        PROVE  TeamEdge(p, i, c)'
    <3>1. TeamEdge(p, i, c) /\ p \in Pool /\ c \in Pool
      BY <1>1, <2>1, TeamTree DEF Control, TeamEdges, Teamed
    <3>. QED
      BY <1>2, <1>8, <1>10, <3>1 DEF TeamEdge, Sits
  <2>2. ASSUME NEW p \in Teamed, NEW i \in TeamFan(p) PROVE TeamEdge(p, i, FanChild(p, i))'
    BY <2>1
  <2>. QED
    BY <1>7, <2>2 DEF TeamEdges
<1>13. PoolEdges'
  <2>1. ASSUME NEW p \in Pool, NEW i \in PoolFan(p), NEW c, c = FanChild(p, i)
        PROVE  PoolEdge(p, i, c)'
    <3>1. PoolEdge(p, i, c) /\ c \in Pool
      BY <1>1, <2>1, PoolTree DEF Control, PoolEdges
    <3>2. /\ Meets(c, call[p])' <=> Meets(c, call[p])
          /\ PoolOut(call[p])' <=> PoolOut(call[p])
      <4>1. (PoolOut(call[p])' <=> PoolOut(call[p]))
        BY <1>2, <1>7, <1>8 DEF PoolOut
      <4>2. Meets(c, call[p])' <=> Meets(c, call[p])
        BY <1>2, <1>8, <3>1 DEF Meets
      <4>. QED
        BY <4>1, <4>2
    <3>. QED
      BY <1>2, <1>8, <3>1, <3>2 DEF PoolEdge
  <2>2. ASSUME NEW p \in Pool, NEW i \in PoolFan(p) PROVE PoolEdge(p, i, FanChild(p, i))'
    BY <2>1
  <2>. QED
    BY <1>7, <2>2 DEF PoolEdges
<1>14. PoolStages'
  <2>1. \A c : Releasing(c)' <=> Releasing(c)
    BY <1>2 DEF Releasing
  <2>2. call'[0] = call[0]
    BY <1>2
  <2>. QED
    BY <1>7, <1>8, <2>1, <2>2 DEF PoolStages, Control
<1>. QED
  BY <1>5, <1>6, <1>11, <1>12, <1>13, <1>14 DEF Control

(* The control of a launch to begin with, and after every step             *)
LEMMA ControlInit == Init => Control
<1>1. SUFFICES ASSUME Init PROVE Control
  OBVIOUS
<1>2. /\ Typed /\ launch \in Launches /\ mi = launch.pool
      /\ state = [e \in Entry |-> "Inactive"] /\ pc = [e \in Entry |-> "wait"]
      /\ call = [e \in Entry |-> "start"] /\ wi = [e \in Entry |-> 0]
      /\ rank = [e \in Entry |-> 0] /\ end = [e \in Entry |-> 0] /\ at = [e \in Entry |-> 1]
  BY <1>1, TypedInit DEF Init
<1>3. /\ 0 \in Pool /\ \A d \in Pool : d \in Entry /\ d \in Nat /\ d < launch.pool
      /\ \A d \in Teamed : d \in Pool
  BY <1>2, ThreadFacts, ZeroIsRoot DEF Teamed
<1>4. \A d \in Pool : /\ pc[d] = "wait" /\ call[d] = "start" /\ state[d] = "Inactive" /\ wi[d] = 0
                      /\ rank[d] = 0 /\ end[d] = 0 /\ at[d] = 1
  BY <1>2, <1>3
<1>5. Sites
  BY <1>2, <1>3, <1>4 DEF Sites, StateOf, SiteOf
<1>6. \A d \in Pool : /\ ~Inside(d) /\ ~Out(d) /\ ~Waiting(d) /\ ~AfterEnd(d)
                      /\ (BeforeStart(d) <=> launch.dynamic)
  BY <1>4 DEF Inside, Out, Waiting, AfterEnd, BeforeStart
<1>7. Together
  <2>1. SUFFICES ASSUME NEW d \in Teamed, NEW b \in Teamed, b = Base(d) PROVE With(d, b)
    BY DEF Together
  <2>2. LeagueRank(d) = LeagueRank(b)
    <3>1. PICK q : q = Place(b)
      OBVIOUS
    <3>2. Place(b) = 0 /\ 0 \in Places /\ Base(d) + 0 = b
      <4>1. Place(b) = 0
        BY <1>2, <2>1, BaseFacts
      <4>2. Base(d) \in Nat /\ launch.team \in Nat \ {0}
        BY <1>2, <2>1, TeamFacts, LaunchFacts
      <4>. QED
        BY <2>1, <4>1, <4>2 DEF Places
    <3>. QED
      BY <1>2, <2>1, <3>2, TeamFacts
  <2>3. Meeting(d) = Meeting(b)
    BY <1>3, <1>4, <2>1, <2>2 DEF Meeting, LeagueBegin, LeagueEnd
  <2>. QED
    BY <1>3, <1>6, <2>1, <2>3 DEF With
<1>8. TeamEdges
  <2>1. SUFFICES ASSUME NEW p \in Teamed, NEW i \in TeamFan(p), NEW c, c = FanChild(p, i)
                 PROVE  TeamEdge(p, i, c)
    BY DEF TeamEdges
  <2>2. c \in Teamed
    BY <1>2, <2>1, TeamTree
  <2>. QED
    BY <1>3, <1>4, <1>6, <2>1, <2>2 DEF TeamEdge
<1>9. PoolEdges
  BY <1>4, <1>6 DEF PoolEdges, PoolEdge
<1>10. PoolStages
  BY <1>3, <1>4, <1>6, <1>2 DEF PoolStages, Releasing
<1>. QED
  BY <1>2, <1>5, <1>7, <1>8, <1>9, <1>10 DEF Control

(* Nothing happens: the control is kept.                                   *)
LEMMA ControlStutters ==
  ASSUME Control, UNCHANGED vars
  PROVE  Control'
<1>1. /\ launch' = launch /\ mi' = mi /\ state' = state /\ range' = range /\ index' = index
      /\ target' = target /\ stealing' = stealing /\ pc' = pc /\ call' = call /\ wi' = wi
      /\ rank' = rank /\ end' = end /\ at' = at /\ ran' = ran
  BY DEF vars
<1>2. /\ Pool' = Pool /\ Teamed' = Teamed /\ launch \in Launches
      /\ \A d \in Pool : PoolFan(d)' = PoolFan(d) /\ TeamFan(d)' = TeamFan(d) /\ Base(d)' = Base(d)
      /\ \A d \in Teamed : d \in Pool
  BY <1>1, LaunchKept DEF Teamed, Control, Typed
<1>3. Typed'
  BY <1>1 DEF Control, Typed, Item, Places
<1>4. Sites'
  <2>1. SUFFICES ASSUME NEW d \in Pool PROVE StateOf(d)' /\ SiteOf(d)'
    BY <1>2 DEF Sites
  <2>2. SiteOf(d)'
    BY <1>1, SiteKept DEF Untouched, Control, Sites
  <2>3. StateOf(d)'
    BY <1>1 DEF Control, Sites, StateOf
  <2>. QED
    BY <2>2, <2>3
<1>5. ASSUME NEW d \in Pool
      PROVE  /\ Meeting(d)' = Meeting(d) /\ Heading(d)' = Heading(d) /\ (OfPool(d)' <=> OfPool(d))
             /\ (Inside(d)' <=> Inside(d)) /\ (Waiting(d)' <=> Waiting(d))
             /\ (BeforeStart(d)' <=> BeforeStart(d)) /\ (AfterEnd(d)' <=> AfterEnd(d))
  <2>1. Untouched(d) /\ state'[d] = state[d] /\ index'[Base(d)] = index[Base(d)]
    BY <1>1 DEF Untouched
  <2>. QED
    BY <1>1, <2>1, ViewKept
<1>6. 0 \in Pool
  BY <1>2, ZeroIsRoot
<1>7. \A c : PoolOut(c)' <=> PoolOut(c)
  BY <1>5, <1>6 DEF PoolOut
<1>8. \A d \in Pool : Out(d)' <=> Out(d)
  BY <1>1, <1>5, <1>6 DEF Out, PoolOut
<1>9. Together'
  <2>1. SUFFICES ASSUME NEW d \in Teamed, NEW b \in Teamed, b = Base(d) PROVE With(d, b)'
    BY <1>2 DEF Together
  <2>2. With(d, b)
    BY <2>1 DEF Control, Together
  <2>. QED
    BY <1>2, <1>5, <1>8, <2>2 DEF With
<1>10. TeamEdges'
  <2>1. ASSUME NEW p \in Teamed, NEW i \in TeamFan(p), NEW c, c = FanChild(p, i)
        PROVE  TeamEdge(p, i, c)'
    <3>1. TeamEdge(p, i, c) /\ p \in Pool /\ c \in Pool
      BY <1>2, <2>1, TeamTree DEF Control, TeamEdges, Teamed
    <3>. QED
      BY <1>1, <1>5, <1>8, <3>1 DEF TeamEdge, Sits
  <2>2. ASSUME NEW p \in Teamed, NEW i \in TeamFan(p) PROVE TeamEdge(p, i, FanChild(p, i))'
    BY <2>1
  <2>. QED
    BY <1>2, <2>2 DEF TeamEdges
<1>11. \A d \in Pool : \A c : Meets(d, c)' <=> Meets(d, c)
  BY <1>1, <1>5 DEF Meets
<1>12. PoolEdges'
  <2>1. ASSUME NEW p \in Pool, NEW i \in PoolFan(p), NEW c, c = FanChild(p, i)
        PROVE  PoolEdge(p, i, c)'
    <3>1. PoolEdge(p, i, c) /\ c \in Pool
      BY <1>2, <2>1, PoolTree DEF Control, PoolEdges
    <3>2. PoolOut(call[p])' <=> PoolOut(call[p])
      BY <1>1, <1>5, <1>6 DEF PoolOut
    <3>3. Meets(c, call[p])' <=> Meets(c, call[p])
      BY <1>1 DEF Meets, Waiting
    <3>. QED
      BY <1>1, <1>5, <3>1, <3>2, <3>3 DEF PoolEdge
  <2>2. ASSUME NEW p \in Pool, NEW i \in PoolFan(p) PROVE PoolEdge(p, i, FanChild(p, i))'
    BY <2>1
  <2>. QED
    BY <1>2, <2>2 DEF PoolEdges
<1>13. PoolStages'
  BY <1>1, <1>2, <1>5, <1>6, <1>11 DEF PoolStages, Releasing, Freed, Control
<1>. QED
  BY <1>3, <1>4, <1>9, <1>10, <1>12, <1>13 DEF Control

(* Every step keeps the control.                                           *)
LEMMA ControlNext ==
  ASSUME Control, TreesAgree(launch), [Next]_vars
  PROVE  Control'
<1>1. CASE Activate
  BY <1>1, ControlActivate
<1>2. ASSUME NEW e \in Pool, Thread(e) PROVE Control'
  <2>1. SiteOf(e) /\ Typed
    BY DEF Control, Sites
  <2>. QED
    BY <1>2, <2>1, TypedThread, SitesThread, TogetherThread, TeamEdgesThread, PoolEdgesThread,
       StagesThread DEF Control
<1>3. CASE UNCHANGED vars
  BY <1>3, ControlStutters
<1>. QED
  BY <1>1, <1>2, <1>3 DEF Next

(* The control of every launch whose teams and pool fan in alike: types,   *)
(* the order of the collectives, who waits for whom, and the barriers of   *)
(* the pool.                                                               *)
THEOREM ControlHolds ==
  ASSUME \A l \in Launches : TreesAgree(l)
  PROVE  Spec => []Control
<1>1. Control => TreesAgree(launch)
  BY DEF Control, Typed
<1>2. Control /\ [Next]_vars => Control'
  BY <1>1, ControlNext
<1>. QED
  BY <1>2, ControlInit, PTL DEF Spec

-----------------------------------------------------------------------------
(* What follows of a launch                                                *)

(* the item a collective belongs to, for a thread that is in the functor   *)
ItemOf(m) == IF m[1] \in TeamCall THEN m[2] ELSE m[2] - 1

(* The item of a meeting inside an item.                                   *)
LEMMA ItemOfIn ==
  ASSUME launch \in Launches, NEW r \in Int, NEW a \in Nat \ {0}, NEW n
  PROVE  ItemOf(InItem(r, a, n)) = r
<1>1. launch.program \in Seq(TeamCall)
  BY LaunchFacts
<1>2. "next" \notin TeamCall /\ "end" \notin TeamCall /\ (r + 1) - 1 = r
  BY DEF TeamCall
<1>3. CASE a <= Len(launch.program)
  <2>1. InItem(r, a, n) = <<launch.program[a], r, a, n>> /\ launch.program[a] \in TeamCall
    BY <1>1, <1>3 DEF InItem
  <2>. QED
    BY <2>1 DEF ItemOf
<1>4. CASE ~(a <= Len(launch.program))
  <2>1. InItem(r, a, n)[1] \notin TeamCall /\ InItem(r, a, n)[2] = r + 1
    BY <1>2, <1>4 DEF InItem
  <2>. QED
    BY <1>2, <2>1 DEF ItemOf
<1>. QED
  BY <1>3, <1>4

(* After a call of the functor it is still at the same item.               *)
LEMMA ItemAfter ==
  ASSUME launch \in Launches, NEW m, NEW c, m[1] \in TeamCall, m[2] \in Int, m[3] \in Nat
  PROVE  ItemOf(After(m, c)) = m[2]
<1>1. m[1] \notin {"start", "next", "index"}
  BY DEF TeamCall
<1>2. After(m, c) = InItem(m[2], m[3] + 1, m[4])
  BY <1>1 DEF After
<1>3. PICK r \in Int : r = m[2]
  OBVIOUS
<1>4. PICK a \in Nat \ {0} : a = m[3] + 1
  OBVIOUS
<1>5. PICK n : n = m[4]
  OBVIOUS
<1>6. ItemOf(InItem(r, a, n)) = r
  BY ItemOfIn
<1>. QED
  BY <1>2, <1>3, <1>4, <1>5, <1>6

(* A member in its functor is in a meeting of its item.                    *)
LEMMA InFunctorMeets ==
  ASSUME Typed, NEW e \in Pool, SiteOf(e), InFunctor(e)
  PROVE  /\ e \in Teamed /\ ItemOf(Meeting(e)) = rank[e]
         /\ Inside(e) => /\ Meeting(e)[1] \in TeamCall
                         /\ ItemOf(Heading(e)) = rank[e]
<1>1. /\ launch \in Launches /\ rank[e] \in Int /\ at[e] \in Nat \ {0} /\ Meeting(e)[3] \in Nat
  <2>1. at[e] \in 1..(Len(launch.program) + 1) /\ Len(launch.program) \in Nat
    BY ThreadFacts DEF Typed
  <2>. QED
    BY <2>1, ThreadFacts, MeetingKinds
<1>2. CASE pc[e] = "functor"
  <2>1. e \in Teamed /\ ~Inside(e)
    BY <1>2 DEF SiteOf, Teamed, Inside
  <2>2. Meeting(e) = InItem(rank[e], at[e], end[e])
    BY <1>2 DEF Meeting
  <2>3. ItemOf(Meeting(e)) = rank[e]
    <3>1. PICK r \in Int : r = rank[e]
      BY <1>1
    <3>2. PICK a \in Nat \ {0} : a = at[e]
      BY <1>1
    <3>3. PICK n : n = end[e]
      OBVIOUS
    <3>4. ItemOf(InItem(r, a, n)) = r
      BY <1>1, ItemOfIn
    <3>. QED
      BY <2>2, <3>1, <3>2, <3>3, <3>4
  <2>. QED
    BY <2>1, <2>3
<1>3. CASE pc[e] \in {"fan_in", "met"} /\ call[e] \in TeamCall
  <2>1. Meeting(e) = <<call[e], rank[e], at[e], end[e]>>
    BY <1>3, MeetingKinds
  <2>2. Meeting(e)[1] \in TeamCall /\ Meeting(e)[2] = rank[e] /\ ItemOf(Meeting(e)) = rank[e]
    BY <1>3, <2>1 DEF ItemOf
  <2>3. call[e] \notin PoolCall
    BY <1>3 DEF PoolCall, TeamCall
  <2>4. e \in Teamed
    BY <1>3, <2>3 DEF SiteOf, Teamed, OfPool
  <2>5. ItemOf(Heading(e)) = rank[e]
    <3>1. PICK m : m = Meeting(e)
      OBVIOUS
    <3>2. PICK c : c = index[Base(e)]
      OBVIOUS
    <3>3. ItemOf(After(m, c)) = m[2]
      BY <1>1, <2>2, <3>1, ItemAfter
    <3>. QED
      BY <2>2, <3>1, <3>2, <3>3 DEF Heading
  <2>. QED
    BY <2>2, <2>4, <2>5
<1>. QED
  BY <1>2, <1>3 DEF InFunctor

(* Two members in the functor agree with their lead, hence with each       *)
(* other.                                                                  *)
LEMMA ControlTogether == Control => TeamTogether
<1>1. SUFFICES ASSUME Control, NEW e \in Pool, InFunctor(e), NEW d \in TeamOf(e), InFunctor(d)
               PROVE  rank[d] = rank[e]
  BY DEF TeamTogether
<1>2. Typed /\ launch \in Launches /\ d \in Pool /\ Base(d) = Base(e) /\ SiteOf(e) /\ SiteOf(d)
  BY <1>1 DEF TeamOf, Control, Typed, Sites
<1>3. /\ e \in Teamed /\ ItemOf(Meeting(e)) = rank[e]
      /\ d \in Teamed /\ ItemOf(Meeting(d)) = rank[d]
      /\ Inside(e) => Meeting(e)[1] \in TeamCall /\ ItemOf(Heading(e)) = rank[e]
      /\ Inside(d) => Meeting(d)[1] \in TeamCall /\ ItemOf(Heading(d)) = rank[d]
  BY <1>1, <1>2, InFunctorMeets
<1>4. PICK b \in Teamed : b = Base(e) /\ Base(b) = b
  BY <1>2, <1>3, BaseFacts
<1>5. With(e, b) /\ With(d, b)
  BY <1>1, <1>2, <1>3, <1>4 DEF Control, Together
<1>6. /\ Meeting(e) = Meeting(b) => Heading(e) = Heading(b)
      /\ Meeting(d) = Meeting(b) => Heading(d) = Heading(b)
  BY <1>2, <1>4 DEF Heading
<1>. QED
  BY <1>3, <1>5, <1>6 DEF With

(* The members of a team work on one item together, whichever way they     *)
(* were given it.                                                          *)
THEOREM TeamIsTogether ==
  ASSUME \A l \in Launches : TreesAgree(l)
  PROVE  Spec => []TeamTogether
BY ControlHolds, ControlTogether, PTL

(* Once the root is done everybody is.                                     *)
LEMMA ControlJoined == Control => RootIsLast
<1>1. SUFFICES ASSUME Control, pc[0] = "done", NEW x \in Pool
               PROVE  pc[x] = "done" /\ state[x] = "Inactive"
  BY DEF RootIsLast
<1>2. Typed /\ launch \in Launches /\ 0 \in Pool
  BY <1>1, ThreadFacts DEF Control, Typed
<1>. DEFINE S == {d \in Pool : pc[d] # "done"}
<1>3. S = {}
  <2>1. SUFFICES ASSUME S # {} PROVE FALSE
    OBVIOUS
  <2>2. S \in SUBSET Nat
    BY <1>2, PoolTree
  <2>3. PICK m \in S : \A n \in S : m <= n
    <3>. HIDE DEF S
    <3>. QED
      BY <2>1, <2>2, LeastNumber
  <2>4. m \in Pool /\ m # 0 /\ m \in Nat /\ pc[m] # "done"
    BY <1>1, <2>2, <2>3
  <2>5. PICK p \in Pool : \E i \in PoolFan(p) : m = FanChild(p, i) /\ p < m
    BY <1>2, <2>4, PoolTree
  <2>6. PICK i \in PoolFan(p) : m = FanChild(p, i) /\ p < m
    BY <2>5
  <2>7. PoolEdge(p, i, m) /\ p \in Nat
    BY <1>1, <1>2, <2>6, PoolTree DEF Control, PoolEdges
  <2>8. pc[p] = "done"
    BY <2>3, <2>4, <2>6, <2>7
  <2>. QED
    BY <2>4, <2>7, <2>8 DEF PoolEdge
<1>4. pc[x] = "done"
  BY <1>3
<1>. QED
  BY <1>1, <1>4 DEF Control, Sites, StateOf

(* The launch is joined: the root is done after everybody else.            *)
THEOREM RootIsTheLast ==
  ASSUME \A l \in Launches : TreesAgree(l)
  PROVE  Spec => []RootIsLast
BY ControlHolds, ControlJoined, PTL

-----------------------------------------------------------------------------
(* Which launches fan in alike                                             *)

(* The fan of an entry has every child whose bits are all fans.            *)
LEMMA FansReach ==
  ASSUME NEW n \in Nat \ {0}, NEW e \in Entries(n), NEW i \in Nat,
         \A j \in 0..i : HasFan(e, j, n)
  PROVE  i < FanCount(e, n)
<1>. DEFINE k == FanCount(e, n)
<1>1. k \in 0..n /\ ~HasFan(e, k, n)
  BY FanCountIs
<1>. HIDE DEF k
<1>2. ~(k \in 0..i)
  BY <1>1
<1>3. i < k
  BY <1>1, <1>2
<1>. QED
  BY <1>3 DEF k

(* A child in the fan-in of the pool                                       *)
LEMMA ChildBits ==
  ASSUME NEW n \in Nat \ {0}, NEW e \in Entries(n), NEW i \in 0..(FanCount(e, n) - 1)
  PROVE  /\ i \in Nat /\ e \in Nat /\ Power[i] \in Nat /\ Power[i] > 0
         /\ FanChild(e, i) = e + Power[i] /\ FanChild(e, i) < n
         /\ \A j \in 0..i : (e \div Power[j]) % 2 = 0 /\ Power[j] \in Nat /\ Power[j] <= Power[i]
         /\ \E q \in Nat : e = q * Power[i + 1]
<1>1. FanCount(e, n) \in 0..n /\ e \in Nat /\ i \in Nat
  BY FanCountIs DEF Entries
<1>2. \A j \in 0..i : (e \div Power[j]) % 2 = 0
  <2>1. SUFFICES ASSUME NEW j \in 0..i PROVE (e \div Power[j]) % 2 = 0
    OBVIOUS
  <2>2. j \in 0..(FanCount(e, n) - 1)
    BY <1>1
  <2>. QED
    BY <1>1, <2>2, FanCountIs DEF HasFan
<1>3. \A j \in 0..i : Power[j] \in Nat /\ Power[j] <= Power[i]
  BY <1>1, PowerAbove, PowerGrows
<1>4. Power[i] \in Nat /\ Power[i] > 0
  BY <1>1, PowerAbove
<1>5. FanChild(e, i) = e + Power[i] /\ FanChild(e, i) < n
  BY ChildIs DEF FanChild, Entries
<1>6. \E q \in Nat : e = q * Power[i + 1]
  <2>1. (i + 1) - 1 = i /\ i + 1 \in Nat
    BY <1>1
  <2>. QED
    BY <1>1, <1>2, <2>1, ClearBits
<1>. QED
  BY <1>1, <1>2, <1>3, <1>4, <1>5, <1>6

(* The last thread of a pool of one team is at a place in it, or idle.     *)
LEMMA OneTeamAgrees ==
  ASSUME NEW l \in Launches, Teams(l) = 1
  PROVE  TreesAgree(l)
<1>1. /\ l.pool \in Nat \ {0} /\ l.team \in Nat \ {0}
  BY LaunchesAssumption DEF Launch
<1>2. Alloc(l) = l.pool
  BY <1>1 DEF Alloc
<1>3. SUFFICES ASSUME NEW e \in Entries(l.pool), NEW i \in 0..(FanCount(e, l.pool) - 1),
                      NEW d, d = FanChild(e, i), ~(d % l.pool >= l.team)
               PROVE  d \div l.pool = e \div l.pool /\ i < FanCount(e % l.pool, l.team)
  BY <1>2 DEF TreesAgree
<1>4. /\ i \in Nat /\ e \in Nat /\ Power[i] \in Nat /\ Power[i] > 0
      /\ d = e + Power[i] /\ d < l.pool
      /\ \A j \in 0..i : (e \div Power[j]) % 2 = 0 /\ Power[j] \in Nat /\ Power[j] <= Power[i]
  BY <1>1, <1>3, ChildBits
<1>. DEFINE a == l.pool
            p == Power[i]
<1>5. d \div a = 0 /\ d % a = d /\ e \div a = 0 /\ e % a = e
  <2>1. a \in Nat \ {0} /\ d \in 0..(a - 1) /\ e \in 0..(a - 1)
    BY <1>1, <1>4
  <2>. HIDE DEF a
  <2>2. a * 0 + d = d /\ a * 0 + e = e
    BY <2>1
  <2>. QED
    BY <2>1, <2>2, Quotient
<1>6. d < l.team /\ e \in Entries(l.team)
  BY <1>1, <1>3, <1>4, <1>5 DEF Entries
<1>7. \A j \in 0..i : HasFan(e, j, l.team)
  BY <1>1, <1>4, <1>6 DEF HasFan
<1>8. i < FanCount(e, l.team)
  BY <1>1, <1>4, <1>6, <1>7, FansReach
<1>. QED
  BY <1>5, <1>8

(* If the allocation of a team is a power of two, the bits below it are    *)
(* the tree of the team.                                                   *)
LEMMA PowersAgree ==
  ASSUME NEW l \in Launches, NEW k \in Nat, Alloc(l) = Power[k]
  PROVE  TreesAgree(l)
<1>1. l.pool \in Nat \ {0} /\ l.team \in Nat \ {0}
  BY LaunchesAssumption DEF Launch
<1>. DEFINE a == Power[k]
<1>2. a \in Nat \ {0}
  BY PowerAbove
<1>3. SUFFICES ASSUME NEW e \in Entries(l.pool), NEW i \in 0..(FanCount(e, l.pool) - 1),
                      NEW d, d = FanChild(e, i), ~(d % a >= l.team), d % a # 0
               PROVE  d \div a = e \div a /\ i < FanCount(e % a, l.team)
  BY DEF TreesAgree
<1>4. /\ i \in Nat /\ e \in Nat /\ Power[i] \in Nat /\ Power[i] > 0
      /\ d = e + Power[i]
      /\ \A j \in 0..i : (e \div Power[j]) % 2 = 0 /\ Power[j] \in Nat /\ Power[j] <= Power[i]
      /\ \E q \in Nat : e = q * Power[i + 1]
  BY <1>1, <1>3, ChildBits
<1>5. PICK q \in Nat : e = q * Power[i + 1]
  BY <1>4
<1>. DEFINE p == Power[i]
            b == Power[i + 1]
<1>6. b = 2 * p /\ b \in Nat \ {0}
  <2>1. b = 2 * p
    BY <1>4, PowerDoubles
  <2>. QED
    BY <1>4, <2>1
<1>7. p \in Nat \ {0}
  BY <1>4
<1>8. i < k
  <2>1. SUFFICES ASSUME k <= i PROVE FALSE
    BY <1>4
  <2>2. PICK r \in Nat : p = r * a
    <3>1. CASE k = i
      BY <1>2, <3>1
    <3>2. CASE k < i
      <4>1. PICK r \in Nat : r > 0 /\ Power[i] = (2 * r) * Power[k]
        BY <1>4, <3>2, PowerDivides
      <4>2. 2 * r \in Nat
        OBVIOUS
      <4>. QED
        BY <4>1, <4>2
    <3>. QED
      BY <1>4, <2>1, <3>1, <3>2
  <2>. HIDE DEF a, p, b
  <2>3. d = q * (2 * p) + p
    BY <1>4, <1>5, <1>6 DEF p, b
  <2>4. d = (2 * q + 1) * p
    BY <1>7, <2>3
  <2>5. PICK m \in Nat : m = 2 * q + 1
    OBVIOUS
  <2>6. d = m * (r * a)
    BY <2>2, <2>4, <2>5
  <2>7. m * r \in Nat /\ m * (r * a) = a * (m * r) + 0
    BY <1>2, <2>2, <2>5
  <2>8. 0 \in 0..(a - 1)
    BY <1>2
  <2>9. d % a = 0
    BY <1>2, <2>6, <2>7, <2>8, Quotient
  <2>. QED
    BY <1>3, <2>9 DEF a
<1>9. PICK r \in Nat : r > 0 /\ a = r * b
  <2>1. CASE i + 1 = k
    BY <1>6, <2>1
  <2>2. CASE i + 1 < k
    <3>1. PICK r \in Nat : r > 0 /\ Power[k] = (2 * r) * Power[i + 1]
      BY <1>4, <2>2, PowerDivides
    <3>2. 2 * r \in Nat /\ 2 * r > 0
      BY <3>1
    <3>. QED
      BY <3>1, <3>2
  <2>. QED
    BY <1>4, <1>8, <2>1, <2>2
<1>. DEFINE v == q \div r
            s == q % r
<1>10. v \in Nat /\ s \in 0..(r - 1) /\ s \in Nat /\ q = r * v + s
  <2>1. r \in Nat \ {0}
    BY <1>9
  <2>2. q \div r \in Nat /\ q % r \in 0..(r - 1) /\ q = r * (q \div r) + (q % r)
    BY <2>1, Remainders, Division
  <2>. QED
    BY <2>1, <2>2
<1>. HIDE DEF v, s
<1>11. PICK x \in Nat : x = s * b
  BY <1>6, <1>10
<1>12. x + b <= a
  <2>. HIDE DEF a, b
  <2>1. (s + 1) * b <= r * b
    BY <1>6, <1>9, <1>10, Grows
  <2>2. (s + 1) * b = s * b + b
    BY <1>6, <1>10
  <2>. QED
    BY <1>9, <1>11, <2>1, <2>2
<1>13. e = a * v + x /\ d = a * v + (x + p)
  <2>. HIDE DEF a, b, p
  <2>1. e = (r * v + s) * b
    BY <1>5, <1>10 DEF b
  <2>2. (r * v + s) * b = (r * b) * v + s * b
    BY <1>6, <1>9, <1>10
  <2>3. e = a * v + x
    BY <1>9, <1>11, <2>1, <2>2
  <2>4. a * v \in Nat
    BY <1>2, <1>10 DEF a
  <2>5. d = e + p
    BY <1>4 DEF p
  <2>. QED
    BY <1>7, <1>11, <2>3, <2>4, <2>5
<1>14. x \in 0..(a - 1) /\ x + p \in 0..(a - 1)
  <2>. HIDE DEF a, b, p
  <2>. QED
    BY <1>2, <1>6, <1>7, <1>11, <1>12
<1>15. e \div a = v /\ e % a = x /\ d \div a = v /\ d % a = x + p
  <2>. HIDE DEF a, b, p
  <2>. QED
    BY <1>2, <1>10, <1>13, <1>14, Quotient
<1>16. x + p < l.team /\ x \in Entries(l.team)
  BY <1>1, <1>3, <1>7, <1>14, <1>15 DEF Entries
<1>17. ASSUME NEW j \in 0..i PROVE HasFan(x, j, l.team)
  <2>1. PICK w \in Nat : b = (2 * w) * Power[j]
    <3>1. j \in Nat /\ j < i + 1 /\ i + 1 \in Nat
      BY <1>4
    <3>2. PICK w \in Nat : w > 0 /\ Power[i + 1] = (2 * w) * Power[j]
      BY <3>1, PowerDivides
    <3>. QED
      BY <3>2
  <2>2. PICK y \in Nat \ {0} : y = Power[j]
    BY <1>4, PowerAbove
  <2>. HIDE DEF a, b, p
  <2>3. x = y * (s * (2 * w)) + 0
    BY <1>10, <1>11, <2>1, <2>2
  <2>4. PICK z \in Nat : z = s * w
    BY <1>10, <2>1
  <2>5. s * (2 * w) = 2 * z + 0 /\ 2 * z \in Nat /\ s * (2 * w) = 2 * z
    BY <1>10, <2>1, <2>4
  <2>6. x \div y = 2 * z
    <3>1. 0 \in 0..(y - 1) /\ x = y * (2 * z) + 0
      BY <2>2, <2>3, <2>5
    <3>. QED
      BY <2>2, <2>5, <3>1, Quotient
  <2>7. (2 * z + 0) % 2 = 0
    BY <2>4, Quotient
  <2>8. (x \div Power[j]) % 2 = 0
    BY <2>2, <2>5, <2>6, <2>7
  <2>9. x + Power[j] < l.team
    <3>1. Power[j] <= p /\ Power[j] \in Nat
      BY <1>4 DEF p
    <3>. QED
      BY <1>1, <1>7, <1>11, <1>16, <3>1
  <2>. QED
    BY <2>8, <2>9 DEF HasFan
<1>18. i < FanCount(x, l.team)
  BY <1>1, <1>4, <1>16, <1>17, FansReach
<1>. QED
  BY <1>15, <1>18

(* In an allocation of a power of two, or in a pool of one team, the two   *)
(* trees agree: the launches whose teams meet, and are joined, as they     *)
(* should.                                                                 *)
THEOREM TeamsOfPowersOfTwo ==
  ASSUME \A l \in Launches : Teams(l) = 1 \/ \E k \in Nat : Alloc(l) = Power[k]
  PROVE  Spec => [](TeamTogether /\ RootIsLast)
<1>1. \A l \in Launches : TreesAgree(l)
  BY OneTeamAgrees, PowersAgree
<1>2. Spec => []TeamTogether
  BY <1>1, TeamIsTogether
<1>3. Spec => []RootIsLast
  BY <1>1, RootIsTheLast
<1>. QED
  BY <1>2, <1>3, PTL
-----------------------------------------------------------------------------
(* The league: which member has still to run which item                    *)

League == 0..(launch.league - 1)
Ranks(c) == {r \in League : r \div launch.chunk = c}

(* The chunks a lead publishes to be claimed, and their items              *)
Window(b) ==
  IF ~launch.dynamic THEN {}
  ELSE IF pc[b] = "wait"
    THEN FirstChunk(LeagueBegin(b), launch.chunk)
           ..(LastChunk(LeagueBegin(b), LeagueEnd(b), launch.chunk) - 1)
  ELSE range[b].first..(range[b].second - 1)
Held(b) == {r \in League : r \div launch.chunk \in Window(b)}

(* A chunk is published when its lead waits for the team; the lead has left *)
(* it to the members still in the collective, or is not there yet.         *)
Publishes(b) == pc[b] = "fan_in" /\ call[b] = "index"
Published(b) == Out(b) <=> Meeting(b)[1] = "index"

(* A member has still to read the chunk its lead published.                *)
Taking(e) ==
  \/ Publishes(Base(e))
  \/ Inside(e) /\ call[e] = "index" /\ Published(Base(e))

Running(e) ==
  pc[e] = "functor" \/ (pc[e] \in {"fan_in", "met", "release"} /\ call[e] \in TeamCall)
Counting(e) ==
  pc[e] = "valid" \/ (pc[e] \in {"fan_in", "met", "release"} /\ call[e] \in {"start", "next"})

(* The items the member runs before its team claims the next chunk         *)
Rest(e) ==
  IF Running(e) THEN (rank[e] + 1)..(end[e] - 1)
  ELSE IF Counting(e) THEN rank[e]..(end[e] - 1)
  ELSE IF pc[e] = "wait" /\ ~launch.dynamic THEN LeagueBegin(e)..(LeagueEnd(e) - 1)
  ELSE {}
Due(e) == IF Taking(e) THEN Ranks(index[Base(e)]) ELSE Rest(e)

(* No item is in two hands, and an item was run if it is in none.          *)
Has(e, r) == r \in Due(e) \/ r \in Held(Base(e))
OneHas == \A d, e \in Teamed : \A r \in League :
  Place(d) = Place(e) /\ Has(d, r) /\ Has(e, r) => d = e
DueOrHeld == \A e \in Teamed : \A r \in League : ~(r \in Due(e) /\ r \in Held(Base(e)))
Counts == \A r \in League : \A p \in Places :
  ran[<<r, p>>] = IF \E e \in Teamed : Place(e) = p /\ Has(e, r) THEN 0 ELSE 1
Shares == OneHas /\ DueOrHeld /\ Counts

(* A lead that gives up has found its own chunks claimed.                  *)
GivesUp(b) ==
  \/ call[b] = "index" /\ pc[b] \in {"fan_in", "release"} /\ index[b] < 0
  \/ call[b] \in {"end", "fan_in"}
GaveAway == \A b \in Teamed : launch.dynamic /\ Leads(b) =>
  /\ stealing[b] => Window(b) = {}
  /\ GivesUp(b) => stealing[b]

(* It claims from leads only.                                              *)
StealsFromLeads ==
  /\ \A e \in Entry : target[e] \in Pool
  /\ launch.left = 0 => \A e \in Pool : ~Leads(e) => Empty(range[e])
  /\ launch.dynamic /\ launch.left > 0 =>
       \A e \in Pool : Leads(e) /\ pc[e] # "wait" => Leads(target[e])

(* Nothing but the league is run.                                          *)
InLeague ==
  /\ \A e \in Teamed : Due(e) \subseteq League
  /\ \A e \in Teamed : Running(e) => rank[e] \in League
  /\ \A e \in Teamed : Leads(e) => \A c \in Window(e) : c * launch.chunk < launch.league
  /\ \A e \in Teamed : Taking(e) => index[Base(e)] * launch.chunk < launch.league

Shared == Shares /\ GaveAway /\ StealsFromLeads /\ InLeague

(* A thief starts at the entry team members on and steps by the            *)
(* allocation: it looks at the pairs of leads alone if these are the same, *)
(* and at pairs nobody set otherwise.                                      *)
StealsFromTeams(l) ==
  l.dynamic /\ l.left > 0 => Alloc(l) = l.team /\ l.pool = Alloc(l) * Teams(l)
-----------------------------------------------------------------------------
(* What a step changes of who has what                                     *)

(* A lead waits in the collective of the chunk only after it has published.*)
LEMMA EntersElse ==
  ASSUME Control, NEW b \in Teamed, Place(b) = 0, Loop(b) \/ Claim(b) \/ Call(b),
         ~(pc[b] = "claim" /\ pc'[b] = "fan_in")
  PROVE  ~Publishes(b) /\ ~Publishes(b)'
<1>1. /\ Typed /\ b \in Entry /\ b \in Pool /\ SiteOf(b) /\ Leads(b) /\ launch \in Launches
  BY ThreadFacts DEF Control, Sites, Teamed, Leads
<1>2. call \in [Entry -> TeamCall \cup PoolCall \cup {"index", "next"}]
  BY <1>1 DEF Typed
<1>3. pc \in [Entry -> {"wait", "valid", "functor", "claim", "fan_in", "met", "release", "done"}]
  BY <1>1 DEF Typed
<1>4. pc[b] \in {"wait", "valid", "functor", "claim"}
  BY <1>1, Stay DEF Stays
<1>5. ASSUME pc'[b] = "fan_in" PROVE call'[b] # "index"
  <2>1. CASE Loop(b)
    <3>1. \/ \E c \in {"start", "end", "next"} : \E from : Enter(b, from, c)
          \/ \E to \in {"valid", "functor", "claim"} : \E from : GoOn(b, from, to)
      BY <1>1, <2>1 DEF Loop, Construct, Valid, NotValid, NextItem
    <3>. QED
      BY <1>1, <1>2, <1>3, <1>5, <3>1 DEF Enter, GoOn, Go
  <2>2. CASE Claim(b)
    BY <1>1, <1>3, <1>5, <2>2
    DEF Claim, ClaimOwn, Exhausted, SkipTarget, Steal, NoTarget, Publish, Enter, Go
  <2>3. CASE Call(b)
    <3>1. launch.program[at[b]] \in TeamCall
      <4>1. at[b] \in 1..(Len(launch.program) + 1)
        BY <1>1 DEF Typed
      <4>2. Len(launch.program) \in Nat /\ launch.program \in Seq(TeamCall)
        BY <1>1, ThreadFacts, LaunchFacts
      <4>3. at[b] \in Nat /\ at[b] # 0 /\ at[b] <= Len(launch.program)
        BY <2>3, <4>1, <4>2 DEF Call
      <4>. QED
        BY <4>2, <4>3
    <3>. QED
      BY <1>1, <1>2, <2>3, <3>1 DEF Call, Enter, TeamCall
  <2>. QED
    BY <2>1, <2>2, <2>3
<1>. QED
  BY <1>4, <1>5 DEF Publishes

(* Another thread changes nothing of what a lead has published.            *)
LEMMA LeadSeen ==
  ASSUME Control, NEW e \in Pool, Thread(e), ~(RootActs(e) /\ OfPool(e)),
         NEW b \in Teamed, Place(b) = 0, b # e
  PROVE  (Publishes(b)' <=> Publishes(b)) /\ (Published(b)' <=> Published(b))
<1>1. Typed /\ b \in Pool /\ b \in Entry /\ launch \in Launches
  BY ThreadFacts DEF Control, Teamed
<1>2. ASSUME Release(e), ~OfPool(e) PROVE b # Released(e, wi[e])
  <2>1. PICK c : c = Released(e, wi[e])
    OBVIOUS
  <2>2. PICK j : j = wi[e]
    OBVIOUS
  <2>3. e \in Teamed /\ j \in TeamFan(e) /\ c = FanChild(e, j)
    BY <1>2, <2>1, <2>2, ReleaseTarget
  <2>4. Place(FanChild(e, j)) # 0
    BY <1>1, <2>3, TeamTree
  <2>. QED
    BY <2>1, <2>3, <2>4
<1>3. Seen(b)
  BY <1>1, <1>2, SeenOthers
<1>4. pc'[b] = pc[b] /\ call'[b] = call[b]
  BY <1>1, Others DEF Untouched
<1>. QED
  BY <1>3, <1>4 DEF Publishes, Published, Seen

(* What a member has left is no other thread's doing, and whether it has a *)
(* chunk to take changes only when its lead publishes one.                 *)
LEMMA TakingOthers ==
  ASSUME Control, NEW e \in Pool, Thread(e), NEW d \in Teamed, d # e, NEW b, b = Base(d),
         ~(b = e /\ pc[e] = "claim" /\ pc'[e] = "fan_in")
  PROVE  (Taking(d)' <=> Taking(d)) /\ Rest(d)' = Rest(d)
<1>1. /\ Typed /\ launch' = launch /\ launch \in Launches /\ Untouched(d) /\ d \in Pool
      /\ SiteOf(e) /\ SiteOf(d) /\ Base(d)' = b
  BY ThreadFacts, Others, LaunchKept DEF Control, Teamed, Sites
<1>2. /\ b \in Teamed /\ b \in Pool /\ b \in Entry /\ Base(b) = b /\ Place(b) = 0 /\ SiteOf(b)
      /\ With(d, b)
  BY <1>1, BaseFacts, ThreadFacts DEF Control, Sites, Together
<1>3. /\ pc'[d] = pc[d] /\ call'[d] = call[d] /\ (Inside(d)' <=> Inside(d))
      /\ Rest(d)' = Rest(d)
  BY <1>1 DEF Untouched, Inside, Rest, Running, Counting, LeagueBegin, LeagueEnd, LeagueRank
<1>4. /\ Taking(d) <=> Publishes(b) \/ (Inside(d) /\ call[d] = "index" /\ Published(b))
      /\ Taking(d)' <=> Publishes(b)' \/ (Inside(d) /\ call[d] = "index" /\ Published(b)')
  BY <1>1, <1>3 DEF Taking, Publishes, Published, Out, Meeting, OfPool, PoolOut
<1>5. pc[b] = "met" => OfPool(b)
  BY <1>2 DEF SiteOf, Root
<1>6. CASE RootActs(e) /\ OfPool(e)
  <2>1. e = 0 /\ pc[0] = "fan_in" /\ call[0] \in {"start", "end"} /\ wi[0] >= Fans(0)
    BY <1>6 DEF RootActs, Root, FannedIn, OfPool, PoolCall
  <2>2. call' = call /\ pc'[0] = "release"
    BY <1>1, <1>6, <2>1, Within
  <2>3. Meets(d, call[0])
    BY <1>1, <2>1, PoolWaits
  <2>4. call[d] # "index" /\ call[0] # "index"
    BY <2>1, <2>3 DEF Meets
  <2>5. ASSUME b # 0 PROVE ~Publishes(b) /\ ~Publishes(b)'
    <3>1. Meets(b, call[0])
      BY <1>2, <2>1, <2>5, PoolWaits
    <3>. QED
      BY <2>1, <2>2, <2>4, <3>1 DEF Meets, Publishes
  <2>6. b = 0 => ~Publishes(b) /\ ~Publishes(b)'
    BY <2>1, <2>2, <2>4 DEF Publishes
  <2>. QED
    BY <1>3, <1>4, <2>4, <2>5, <2>6
<1>7. CASE ~(RootActs(e) /\ OfPool(e)) /\ b # e
  BY <1>2, <1>3, <1>4, <1>7, LeadSeen
<1>8. CASE ~(RootActs(e) /\ OfPool(e)) /\ b = e
  <2>. DEFINE D == Inside(d) /\ call[d] = "index"
  <2>1. CASE RootActs(b)
    <3>1. /\ pc[b] = "fan_in" /\ pc'[b] = "release" /\ call' = call /\ Meeting(b)' = Meeting(b)
          /\ wi[b] >= Fans(b) /\ ~OfPool(b)
      <4>1. pc[b] = "fan_in" /\ pc'[b] = "release" /\ call' = call /\ Meeting(b)' = Meeting(b)
        BY <1>1, <1>2, <2>1, Within
      <4>2. wi[b] >= Fans(b)
        BY <2>1 DEF RootActs, FannedIn
      <4>. QED
        BY <1>8, <2>1, <4>1, <4>2
    <3>2. Sits(b, d)
      BY <1>2, <1>8, <3>1, TeamWaits
    <3>3. pc[d] = "met" /\ Meeting(d) = Meeting(b)
      BY <3>2 DEF Sits, Waiting
    <3>4. Meeting(d)[1] = call[d] /\ Meeting(b)[1] = call[b]
      BY <1>1, <1>2, <3>1, <3>3, MeetingKinds
    <3>5. ~Out(b) /\ Out(b)'
      BY <3>1 DEF Out
    <3>6. /\ Publishes(b) <=> call[b] = "index"
          /\ ~Publishes(b)'
          /\ Published(b)' <=> call[b] = "index"
          /\ D <=> call[b] = "index"
      BY <3>1, <3>3, <3>4, <3>5 DEF Publishes, Published, Inside
    <3>. QED
      BY <1>3, <1>4, <3>6
  <2>2. CASE Leaving(b)
    <3>1. Leaves(b)
      BY <1>1, <1>2, <1>8, <2>2, Leave1 DEF Leaving
    <3>2. /\ pc[b] = "release" /\ pc'[b] \in {"valid", "functor", "fan_in"}
          /\ Meeting(b)' = Heading(b)
      BY <3>1 DEF Leaves
    <3>3. Out(b) /\ ~Out(b)'
      BY <3>2 DEF Out
    <3>4. Meeting(b)[1] = call[b] /\ (call[b] = "index" => Heading(b)[1] # "index")
      BY <1>1, <1>2, <3>2, MeetingKinds, HeadingKinds
    <3>5. pc'[b] = "fan_in" => call'[b] # "index"
      <4>1. call \in [Entry -> TeamCall \cup PoolCall \cup {"index", "next"}]
        BY <1>1 DEF Typed
      <4>2. CASE Return(b) \/ Again(b)
        <5>1. pc \in [Entry -> {"wait", "valid", "functor", "claim", "fan_in", "met", "release",
                                "done"}]
          BY <1>1 DEF Typed
        <5>. QED
          BY <1>2, <4>2, <5>1 DEF Return, Again, GoOn, Go
      <4>3. CASE TakeChunk(b)
        <5>1. GoOn(b, "release", "functor") \/ Enter(b, "release", "end")
          BY <4>3 DEF TakeChunk
        <5>2. pc \in [Entry -> {"wait", "valid", "functor", "claim", "fan_in", "met", "release",
                                "done"}]
          BY <1>1 DEF Typed
        <5>. QED
          BY <1>2, <4>1, <5>1, <5>2 DEF Enter, GoOn, Go
      <4>4. CASE LastFanIn(b)
        BY <1>2, <4>1, <4>4 DEF LastFanIn, Enter
      <4>. QED
        BY <2>2, <4>2, <4>3, <4>4 DEF Leaving
    <3>6. ~Publishes(b) /\ ~Publishes(b)'
      BY <3>2, <3>5 DEF Publishes
    <3>7. /\ Published(b) <=> call[b] = "index"
          /\ Published(b)' <=> Heading(b)[1] # "index"
      BY <3>2, <3>3, <3>4 DEF Published
    <3>8. ASSUME call[b] # "index", Heading(b)[1] # "index" PROVE ~D
      <4>1. Meeting(d)[1] # "index"
        BY <1>2, <3>3, <3>4, <3>8 DEF With
      <4>2. Inside(d) => Meeting(d)[1] = call[d]
        BY <1>1, MeetingKinds DEF Inside
      <4>. QED
        BY <4>1, <4>2
    <3>. QED
      BY <1>3, <1>4, <3>4, <3>6, <3>7, <3>8
  <2>3. CASE ~RootActs(b) /\ ~Leaving(b)
    <3>1. Seen(b)
      BY <1>2, <1>8, <2>3, SeenSelf
    <3>2. Publishes(b)' <=> Publishes(b)
      <4>1. CASE Loop(b) \/ Claim(b) \/ Call(b)
        BY <1>2, <1>8, <4>1, EntersElse
      <4>2. CASE FanIn(b) \/ Meet(b) \/ Resume(b) \/ Release(b) \/ Deactivate(b)
        <5>1. call' = call
          BY <1>1, <1>2, <4>2, Within
        <5>2. CASE FanIn(b) \/ Resume(b) \/ Release(b) \/ Deactivate(b)
          <6>1. Deactivate(b) => call[b] # "index"
            BY DEF Deactivate
          <6>. QED
            BY <1>1, <1>2, <5>1, <5>2, <6>1, Within DEF Publishes
        <5>3. CASE Meet(b)
          <6>1. OfPool(b) /\ call[b] # "index"
            BY <1>2, <5>3 DEF Meet, Root, OfPool, PoolCall
          <6>. QED
            BY <5>1, <6>1 DEF Publishes
        <5>. QED
          BY <4>2, <5>2, <5>3
      <4>. QED
        BY <1>8, <2>3, <4>1, <4>2 DEF Thread, Collective, Leave, Leaving
    <3>3. Published(b)' <=> Published(b)
      BY <3>1 DEF Seen, Published
    <3>. QED
      BY <1>3, <1>4, <3>2, <3>3
  <2>. QED
    BY <2>1, <2>2, <2>3
<1>. QED
  BY <1>6, <1>7, <1>8
(* So are the chunk it has to take and the items of it.                    *)
LEMMA DueOthers ==
  ASSUME Control, NEW e \in Pool, Thread(e), NEW d \in Teamed, d # e, NEW b, b = Base(d),
         ~(b = e /\ pc[e] = "claim" /\ pc'[e] = "fan_in")
  PROVE  Due(d)' = Due(d) /\ (Taking(d) => index'[b] = index[b])
<1>1. /\ Typed /\ launch' = launch /\ launch \in Launches /\ d \in Pool /\ Base(d)' = b
      /\ e \in Entry
  BY ThreadFacts, Others, LaunchKept DEF Control, Teamed
<1>2. b \in Teamed /\ b \in Pool /\ b \in Entry
  BY <1>1, BaseFacts, ThreadFacts
<1>3. (Taking(d)' <=> Taking(d)) /\ Rest(d)' = Rest(d)
  BY TakingOthers
<1>4. index'[b] = index[b]
  <2>1. CASE b # e
    BY <1>1, <1>2, <2>1, Others
  <2>2. CASE b = e
    <3>1. pc \in [Entry -> {"wait", "valid", "functor", "claim", "fan_in", "met", "release",
                            "done"}]
      BY <1>1 DEF Typed
    <3>2. CASE Claim(e)
      BY <1>1, <2>2, <3>1, <3>2
      DEF Claim, ClaimOwn, Exhausted, SkipTarget, Steal, NoTarget, Publish, Enter, Go
    <3>3. CASE ~Claim(e)
      BY <3>3 DEF Thread, Loop, Construct, Valid, NotValid, NextItem, Collective, Call, FanIn,
                  Meet, RootActs, Resume, Release, Leave, Return, Again, TakeChunk, LastFanIn,
                  Deactivate, claims
    <3>. QED
      BY <3>2, <3>3
  <2>. QED
    BY <2>1, <2>2
<1>5. Ranks(index[b])' = Ranks(index[b])
  BY <1>1, <1>4 DEF Ranks, League
<1>. QED
  BY <1>1, <1>3, <1>4, <1>5 DEF Due

(* A member takes a chunk just when it leaves the collective of the chunk. *)
LEMMA TakingSelf ==
  ASSUME Control, NEW e \in Teamed, Thread(e), ~TakeChunk(e),
         ~(pc[e] = "claim" /\ pc'[e] = "fan_in")
  PROVE  Taking(e)' <=> Taking(e)
<1>1. /\ Typed /\ launch' = launch /\ launch \in Launches /\ e \in Pool /\ e \in Entry
      /\ SiteOf(e) /\ StateOf(e) /\ Place(e)' = Place(e)
  BY ThreadFacts, Others, LaunchKept DEF Control, Teamed, Sites
<1>2. PICK b \in Teamed : b = Base(e) /\ Base(b) = b /\ Place(b) = 0
  BY <1>1, BaseFacts
<1>3. Base(e)' = b
  BY <1>1, <1>2, LaunchKept
<1>4. /\ Taking(e) <=> Publishes(b) \/ (Inside(e) /\ call[e] = "index" /\ Published(b))
      /\ Taking(e)' <=> Publishes(b)' \/ (Inside(e)' /\ call'[e] = "index" /\ Published(b)')
  BY <1>2, <1>3 DEF Taking, Publishes, Published, Out, Meeting, OfPool, PoolOut
<1>5. pc \in [Entry -> {"wait", "valid", "functor", "claim", "fan_in", "met", "release", "done"}]
  BY <1>1 DEF Typed
<1>6. call \in [Entry -> TeamCall \cup PoolCall \cup {"index", "next"}]
  BY <1>1 DEF Typed
<1>7. ASSUME Return(e) \/ Again(e) \/ LastFanIn(e)
      PROVE  ~Inside(e)' /\ call[e] # "index" /\ ~Publishes(e)' /\ ~Publishes(e)
  <2>1. CASE Return(e) \/ Again(e)
    BY <1>1, <1>5, <2>1 DEF Return, Again, GoOn, Go, Inside, Publishes, TeamCall, Left
  <2>2. CASE LastFanIn(e)
    BY <1>1, <1>5, <1>6, <2>2 DEF LastFanIn, Enter, Go, Inside, Publishes, Left
  <2>. QED
    BY <1>7, <2>1, <2>2
<1>8. ASSUME Loop(e) \/ Claim(e) \/ Call(e) PROVE ~Inside(e) /\ ~Inside(e)'
  BY <1>1, <1>8, Stay DEF Stays, Inside
<1>9. CASE b = e
  <2>1. SiteOf(e)'
    BY <1>1, SiteThread
  <2>2. call[e] = "index" => pc[e] # "met"
    BY <1>1, <1>2, <1>9 DEF SiteOf, Root, OfPool, PoolCall
  <2>3. call'[e] = "index" => pc'[e] # "met"
    BY <1>1, <1>2, <1>9, <2>1 DEF SiteOf, Root, OfPool, PoolCall
  <2>4. CASE Loop(e) \/ Claim(e) \/ Call(e)
    BY <1>2, <1>4, <1>8, <1>9, <2>4, EntersElse
  <2>5. CASE Return(e) \/ Again(e) \/ LastFanIn(e)
    BY <1>4, <1>7, <1>9, <2>5
  <2>6. CASE FanIn(e) \/ Meet(e) \/ RootActs(e) \/ Resume(e) \/ Release(e) \/ Deactivate(e)
    <3>1. /\ call' = call /\ Meeting(e)' = Meeting(e) /\ pc[e] \in {"fan_in", "met", "release"}
          /\ pc'[e] \in {"fan_in", "met", "release", "done"}
          /\ pc'[e] = "done" => call[e] = "fan_in"
          /\ pc'[e] = "fan_in" => pc[e] = "fan_in"
      BY <1>1, <2>6, Within
    <3>2. Meeting(e)[1] = call[e]
      BY <1>1, <3>1, MeetingKinds
    <3>3. Taking(e) <=> call[e] = "index"
      BY <1>4, <1>9, <2>2, <3>1, <3>2 DEF Publishes, Published, Inside, Out
    <3>4. Taking(e)' <=> call[e] = "index"
      BY <1>4, <1>9, <2>3, <3>1, <3>2 DEF Publishes, Published, Inside, Out
    <3>. QED
      BY <3>3, <3>4
  <2>. QED
    BY <2>4, <2>5, <2>6 DEF Thread, Collective, Leave
<1>10. CASE b # e
  <2>1. ~RootActs(e)
    <3>1. e # 0
      BY <1>1, <1>2, <1>10, ZeroIsRoot, BaseFacts
    <3>2. Place(e) # 0
      BY <1>1, <1>2, <1>10, BaseFacts
    <3>. QED
      BY <3>1, <3>2 DEF RootActs, Root
  <2>2. (Publishes(b)' <=> Publishes(b)) /\ (Published(b)' <=> Published(b))
    BY <1>1, <1>2, <1>10, <2>1, LeadSeen
  <2>3. CASE Loop(e) \/ Claim(e) \/ Call(e)
    BY <1>4, <1>8, <2>2, <2>3
  <2>4. CASE Return(e) \/ Again(e) \/ LastFanIn(e)
    BY <1>4, <1>7, <2>2, <2>4
  <2>5. CASE FanIn(e) \/ Resume(e) \/ Release(e) \/ Deactivate(e)
    <3>1. call' = call /\ (Inside(e)' <=> Inside(e))
      BY <1>1, <2>5, Within DEF Inside
    <3>. QED
      BY <1>4, <2>2, <3>1
  <2>6. CASE Meet(e)
    <3>1. /\ call' = call /\ pc[e] = "fan_in" /\ ~Inside(e)
      BY <1>1, <2>6, Within DEF Inside
    <3>2. Meeting(e)[1] = call[e]
      BY <1>1, <3>1, MeetingKinds
    <3>3. /\ Out(b) => Meeting(e) = Heading(b)
          /\ ~Out(b) => Meeting(e) = Meeting(b) \/ (Inside(b) /\ Heading(b) = Meeting(e))
      BY <1>2, <3>1, Compare
    <3>4. SiteOf(b) /\ b \in Pool
      BY <1>1, <1>2 DEF Control, Sites, Teamed
    <3>5. Meeting(b)[1] = "index" => Heading(b)[1] # "index"
      BY <1>1, <3>4, HeadingKinds
    <3>6. ASSUME call[e] = "index", ~Out(b), Meeting(b) # Meeting(e) PROVE FALSE
      <4>1. With(e, b)
        BY <1>2 DEF Control, Together
      <4>. QED
        BY <3>1, <3>6, <4>1 DEF With
    <3>7. call[e] = "index" => ~Published(b)
      BY <3>2, <3>3, <3>5, <3>6 DEF Published
    <3>. QED
      BY <1>4, <2>2, <3>1, <3>7
  <2>. QED
    BY <2>1, <2>3, <2>4, <2>5, <2>6 DEF Thread, Collective, Leave
<1>. QED
  BY <1>9, <1>10
(* Its own steps leave the rest of its items as it is, but for the one it  *)
(* runs.                                                                   *)
LEMMA RestSelf ==
  ASSUME Control, NEW e \in Teamed, Thread(e), ~TakeChunk(e)
  PROVE  IF Valid(e)
           THEN /\ rank[e] \in Rest(e) /\ Rest(e)' = Rest(e) \ {rank[e]}
                /\ ran' = [i \in Item |-> IF i = <<rank[e], Place(e)>> THEN ran[i] + 1 ELSE ran[i]]
                /\ Running(e)' /\ rank'[e] = rank[e]
           ELSE /\ Rest(e)' = Rest(e) /\ ran' = ran
                /\ Running(e)' => Running(e) /\ rank'[e] = rank[e]
<1>1. /\ Typed /\ launch' = launch /\ launch \in Launches /\ e \in Pool /\ e \in Entry
      /\ SiteOf(e) /\ ~Idle(e) /\ rank[e] \in Int /\ end[e] \in Nat
  BY ThreadFacts, Others DEF Control, Teamed, Sites
<1>2. pc \in [Entry -> {"wait", "valid", "functor", "claim", "fan_in", "met", "release", "done"}]
  BY <1>1 DEF Typed
<1>3. call \in [Entry -> TeamCall \cup PoolCall \cup {"index", "next"}]
  BY <1>1 DEF Typed
<1>4. rank \in [Entry -> Int] /\ end \in [Entry -> Nat]
  BY <1>1 DEF Typed
<1>5. ASSUME Running(e), NEW r, r = rank[e], NEW n, n = end[e] PROVE Rest(e) = (r + 1)..(n - 1)
  BY <1>5 DEF Rest
<1>6. CASE Valid(e)
  <2>1. /\ pc[e] = "valid" /\ pc'[e] = "functor" /\ rank' = rank /\ end' = end /\ rank[e] < end[e]
    BY <1>1, <1>2, <1>6 DEF Valid, GoOn, Go, HasItem
  <2>2. Rest(e) = rank[e]..(end[e] - 1)
    BY <2>1 DEF Rest, Running, Counting
  <2>3. Rest(e)' = (rank[e] + 1)..(end[e] - 1) /\ Running(e)'
    BY <2>1 DEF Rest, Running
  <2>4. rank[e] \in Rest(e) /\ Rest(e)' = Rest(e) \ {rank[e]}
    BY <1>1, <2>1, <2>2, <2>3
  <2>5. ran' = [i \in Item |-> IF i = <<rank[e], Place(e)>> THEN ran[i] + 1 ELSE ran[i]]
    BY <1>6 DEF Valid, RunFunctor
  <2>. QED
    BY <1>6, <2>1, <2>3, <2>4, <2>5
<1>7. CASE Construct(e)
  <2>1. /\ pc[e] = "wait" /\ rank'[e] = LeagueBegin(e) /\ ran' = ran
        /\ end'[e] = IF launch.dynamic THEN 0 ELSE LeagueEnd(e)
    BY <1>1, <1>4, <1>7 DEF Construct, Enter, GoOn, Go
  <2>2. LeagueBegin(e) \in Nat /\ LeagueEnd(e) \in Nat
    BY <1>1, LeagueFacts DEF Teamed
  <2>3. CASE launch.dynamic
    <3>1. pc'[e] = "fan_in" /\ call'[e] = "start"
      BY <1>1, <1>2, <1>3, <1>7, <2>3 DEF Construct, Enter, Go
    <3>2. Rest(e)' = rank'[e]..(end'[e] - 1) /\ ~Running(e)'
      BY <3>1 DEF Rest, Running, Counting, TeamCall
    <3>3. Rest(e)' = {}
      BY <2>1, <2>2, <2>3, <3>2
    <3>4. Rest(e) = {}
      BY <2>1, <2>3 DEF Rest, Running, Counting
    <3>. QED
      BY <2>1, <3>2, <3>3, <3>4 DEF Construct, Valid, GoOn, Go
  <2>4. CASE ~launch.dynamic
    <3>1. pc'[e] = "valid"
      BY <1>1, <1>2, <1>7, <2>4 DEF Construct, GoOn, Go
    <3>2. Rest(e)' = rank'[e]..(end'[e] - 1) /\ ~Running(e)'
      BY <3>1 DEF Rest, Running, Counting
    <3>3. Rest(e) = LeagueBegin(e)..(LeagueEnd(e) - 1)
      BY <2>1, <2>4 DEF Rest, Running, Counting
    <3>. QED
      BY <2>1, <2>4, <3>2, <3>3 DEF Valid, GoOn, Go
  <2>. QED
    BY <2>3, <2>4
<1>8. CASE NotValid(e)
  <2>1. /\ pc[e] = "valid" /\ rank' = rank /\ end' = end /\ ran' = ran /\ ~(rank[e] < end[e])
    BY <1>8 DEF NotValid, Enter, GoOn, Go, HasItem, place
  <2>2. pc'[e] = "claim" \/ (pc'[e] = "fan_in" /\ call'[e] \in {"end", "index"})
    BY <1>1, <1>2, <1>3, <1>8 DEF NotValid, Enter, GoOn, Go
  <2>3. Rest(e)' = {} /\ ~Running(e)'
    BY <2>2 DEF Rest, Running, Counting, TeamCall
  <2>4. Rest(e) = rank[e]..(end[e] - 1)
    BY <2>1 DEF Rest, Running, Counting
  <2>5. Rest(e) = {}
    BY <1>1, <2>1, <2>4
  <2>. QED
    BY <2>1, <2>3, <2>5 DEF Valid, HasItem
<1>9. CASE NextItem(e)
  <2>1. /\ pc[e] = "functor" /\ rank'[e] = rank[e] + 1 /\ end' = end /\ ran' = ran
    BY <1>1, <1>4, <1>9 DEF NextItem, Enter, GoOn, Go
  <2>2. pc'[e] = "valid" \/ (pc'[e] = "fan_in" /\ call'[e] = "next")
    BY <1>1, <1>2, <1>3, <1>9 DEF NextItem, Enter, GoOn, Go
  <2>3. Rest(e)' = (rank[e] + 1)..(end[e] - 1) /\ ~Running(e)'
    BY <2>1, <2>2 DEF Rest, Running, Counting, TeamCall
  <2>4. Rest(e) = (rank[e] + 1)..(end[e] - 1)
    BY <2>1 DEF Rest, Running
  <2>. QED
    BY <2>1, <2>3, <2>4 DEF Valid, GoOn, Go
<1>10. CASE Claim(e)
  <2>1. /\ pc[e] = "claim" /\ ran' = ran /\ rank' = rank
        /\ pc'[e] = "claim" \/ (pc'[e] = "fan_in" /\ call'[e] = "index")
    BY <1>1, <1>2, <1>3, <1>10
    DEF Claim, ClaimOwn, Exhausted, SkipTarget, Steal, NoTarget, Publish, Enter, Go, ClaimStep, place
  <2>2. Rest(e)' = {} /\ ~Running(e)'
    BY <2>1 DEF Rest, Running, Counting, TeamCall
  <2>3. Rest(e) = {}
    BY <2>1 DEF Rest, Running, Counting
  <2>. QED
    BY <2>1, <2>2, <2>3 DEF Valid, GoOn, Go
<1>11. CASE Call(e)
  <2>1. launch.program[at[e]] \in TeamCall
    <3>1. at[e] \in 1..(Len(launch.program) + 1)
      BY <1>1 DEF Typed
    <3>2. Len(launch.program) \in Nat /\ launch.program \in Seq(TeamCall)
      BY <1>1, ThreadFacts, LaunchFacts
    <3>3. at[e] \in Nat /\ at[e] # 0 /\ at[e] <= Len(launch.program)
      BY <1>11, <3>1, <3>2 DEF Call
    <3>. QED
      BY <3>2, <3>3
  <2>2. /\ pc[e] = "functor" /\ pc'[e] = "fan_in" /\ call'[e] \in TeamCall
        /\ rank' = rank /\ end' = end /\ ran' = ran
    BY <1>1, <1>2, <1>3, <1>11, <2>1 DEF Call, Enter, Go, place
  <2>3. Running(e) /\ Running(e)'
    BY <2>2 DEF Running
  <2>4. Rest(e)' = Rest(e)
    BY <2>2, <2>3 DEF Rest
  <2>. QED
    BY <2>2, <2>3, <2>4 DEF Valid, GoOn, Go
<1>12. CASE FanIn(e) \/ Meet(e) \/ RootActs(e) \/ Resume(e) \/ Release(e) \/ Deactivate(e)
  <2>1. rank' = rank /\ end' = end /\ ran' = ran
    BY <1>12 DEF FanIn, Meet, RootActs, Resume, Release, Deactivate, place
  <2>2. /\ call' = call /\ pc[e] \in {"fan_in", "met", "release"}
        /\ \/ pc'[e] \in {"fan_in", "met", "release"}
           \/ pc'[e] = "done" /\ call[e] = "fan_in"
    BY <1>1, <1>12, Within
  <2>3. Rest(e)' = Rest(e) /\ (Running(e)' => Running(e))
    BY <2>1, <2>2 DEF Rest, Running, Counting, TeamCall
  <2>. QED
    BY <2>1, <2>2, <2>3 DEF Valid, GoOn, Go
<1>13. CASE Return(e)
  <2>1. /\ pc[e] = "release" /\ pc'[e] = "functor" /\ call[e] \in TeamCall
        /\ rank' = rank /\ end' = end /\ ran' = ran
    BY <1>1, <1>2, <1>13 DEF Return, GoOn, Go
  <2>2. Running(e) /\ Running(e)'
    BY <2>1 DEF Running
  <2>3. Rest(e)' = Rest(e)
    BY <2>1, <2>2 DEF Rest
  <2>. QED
    BY <2>1, <2>2, <2>3 DEF Valid, GoOn, Go
<1>14. CASE Again(e)
  <2>1. /\ pc[e] = "release" /\ pc'[e] = "valid" /\ call[e] \in {"start", "next"}
        /\ rank' = rank /\ end' = end /\ ran' = ran
    BY <1>1, <1>2, <1>14 DEF Again, GoOn, Go, place
  <2>2. Rest(e)' = Rest(e) /\ ~Running(e)'
    BY <2>1 DEF Rest, Running, Counting, TeamCall
  <2>. QED
    BY <2>1, <2>2 DEF Valid, GoOn, Go
<1>15. CASE LastFanIn(e)
  <2>1. /\ pc[e] = "release" /\ pc'[e] = "fan_in" /\ call[e] = "end" /\ call'[e] = "fan_in"
        /\ rank' = rank /\ end' = end /\ ran' = ran
    BY <1>1, <1>2, <1>3, <1>15 DEF LastFanIn, Enter, Go, place
  <2>2. Rest(e)' = Rest(e) /\ ~Running(e)'
    BY <2>1 DEF Rest, Running, Counting, TeamCall
  <2>. QED
    BY <2>1, <2>2 DEF Valid, GoOn, Go
<1>. QED
  BY <1>6, <1>7, <1>8, <1>9, <1>10, <1>11, <1>12, <1>13, <1>14, <1>15
  DEF Thread, Loop, Collective, Leave

(* A member whose team has published a chunk has no other items.           *)
LEMMA NothingLeft ==
  ASSUME Control, NEW d \in Teamed, NEW b, b = Base(d),
         ~Out(b), Meeting(b)[1] = "index"
  PROVE  Rest(d) = {}
<1>1. Typed /\ launch \in Launches /\ d \in Pool /\ SiteOf(d) /\ With(d, b)
  BY BaseFacts DEF Control, Typed, Teamed, Sites, Together
<1>2. rank[d] \in Int /\ end[d] \in Nat /\ at[d] \in Nat \ {0}
  <2>1. d \in Entry /\ Len(launch.program) \in Nat
    BY <1>1, ThreadFacts
  <2>2. at[d] \in 1..(Len(launch.program) + 1)
    BY <1>1, <2>1 DEF Typed
  <2>. QED
    BY <1>1, <2>1, <2>2, ThreadFacts
<1>3. PICK r : r = rank[d]
  OBVIOUS
<1>4. PICK n : n = end[d]
  OBVIOUS
<1>5. ASSUME AtValid(r, n)[1] = "index" PROVE ~(r < n)
  <2>1. SUFFICES ASSUME r < n PROVE FALSE
    OBVIOUS
  <2>2. AtValid(r, n) = InItem(r, 1, n)
    BY <2>1 DEF AtValid
  <2>3. InItem(r, 1, n)[1] \in TeamCall \cup {"next", "end"}
    BY <1>1, ItemKinds
  <2>. QED
    BY <1>5, <2>2, <2>3 DEF TeamCall
<1>6. Meeting(d)[1] = "index" \/ (Inside(d) /\ Heading(d)[1] = "index")
  BY <1>1 DEF With
<1>7. CASE Meeting(d)[1] = "index"
  <2>1. CASE pc[d] = "wait"
    <3>1. CASE launch.dynamic
      BY <1>7, <2>1, <3>1 DEF Meeting
    <3>2. CASE ~launch.dynamic
      <4>1. Meeting(d) = AtValid(LeagueBegin(d), LeagueEnd(d))
        BY <2>1, <3>2 DEF Meeting
      <4>2. 1 \in Nat \ {0}
        OBVIOUS
      <4>3. AtValid(LeagueBegin(d), LeagueEnd(d))[1] = "index" => launch.dynamic
        BY <1>1, <4>2, ItemKinds
      <4>. QED
        BY <1>7, <3>2, <4>1, <4>3
    <3>. QED
      BY <3>1, <3>2
  <2>2. CASE pc[d] = "valid"
    <3>1. Meeting(d) = AtValid(r, n)
      BY <1>3, <1>4, <2>2 DEF Meeting
    <3>2. ~(r < n)
      BY <1>5, <1>7, <3>1
    <3>3. Rest(d) = r..(n - 1)
      BY <1>3, <1>4, <2>2 DEF Rest, Running, Counting
    <3>. QED
      BY <1>2, <1>3, <1>4, <3>2, <3>3
  <2>3. CASE pc[d] = "functor"
    <3>1. Meeting(d) = InItem(rank[d], at[d], end[d])
      BY <2>3 DEF Meeting
    <3>2. Meeting(d)[1] \in TeamCall \cup {"next", "end"}
      BY <1>1, <1>2, <3>1, ItemKinds
    <3>. QED
      BY <1>7, <3>2 DEF TeamCall
  <2>4. CASE pc[d] = "claim"
    BY <2>4 DEF Rest, Running, Counting
  <2>5. CASE pc[d] \in {"fan_in", "met", "release", "done"}
    <3>1. call[d] = "index"
      BY <1>1, <1>7, <2>5, MeetingKinds
    <3>. QED
      BY <2>5, <3>1 DEF Rest, Running, Counting, TeamCall
  <2>. QED
    BY <1>1, <2>1, <2>2, <2>3, <2>4, <2>5, ThreadFacts
<1>8. CASE Inside(d) /\ Heading(d)[1] = "index"
  <2>1. Meeting(d) = <<call[d], rank[d], IF call[d] \in TeamCall THEN at[d] ELSE 0, end[d]>>
    BY <1>1, <1>8, MeetingKinds DEF Inside
  <2>2. PICK m : m = Meeting(d)
    OBVIOUS
  <2>3. PICK c : c = index[Base(d)]
    OBVIOUS
  <2>4. m[1] = call[d] /\ m[2] = r /\ m[4] = n /\ After(m, c)[1] = "index"
    BY <1>3, <1>4, <1>8, <2>1, <2>2, <2>3 DEF Heading
  <2>5. CASE m[1] \in TeamCall
    <3>1. m[3] \in Nat
      BY <1>1, <2>2, MeetingKinds
    <3>2. After(m, c) = InItem(m[2], m[3] + 1, m[4])
      BY <2>5 DEF After, TeamCall
    <3>3. m[3] + 1 \in Nat \ {0}
      BY <3>1
    <3>4. After(m, c)[1] \in TeamCall \cup {"next", "end"}
      BY <1>1, <3>2, <3>3, ItemKinds
    <3>. QED
      BY <2>4, <3>4 DEF TeamCall
  <2>6. CASE m[1] \in {"start", "next"}
    <3>1. After(m, c) = AtValid(r, n)
      BY <2>4, <2>6 DEF After, TeamCall
    <3>2. ~(r < n)
      BY <1>5, <2>4, <3>1
    <3>3. Rest(d) = r..(n - 1)
      BY <1>3, <1>4, <1>8, <2>4, <2>6 DEF Rest, Running, Counting, Inside, TeamCall
    <3>. QED
      BY <1>2, <1>3, <1>4, <3>2, <3>3
  <2>7. CASE m[1] \notin TeamCall \cup {"start", "next"}
    BY <1>8, <2>4, <2>7 DEF Rest, Running, Counting, Inside
  <2>. QED
    BY <2>5, <2>6, <2>7
<1>. QED
  BY <1>6, <1>7, <1>8
-----------------------------------------------------------------------------
(* The items of a chunk are those from its first to the next one's, or to  *)
(* the end of the league.                                                  *)
LEMMA RanksAre ==
  ASSUME launch \in Launches, NEW c \in Nat \cup {-1}, c * launch.chunk < launch.league
  PROVE  /\ c < 0 => Ranks(c) = {}
         /\ c >= 0 => /\ c * launch.chunk \in Ranks(c) /\ c * launch.chunk \in League
                      /\ (c * launch.chunk + 1)..(Least((c + 1) * launch.chunk, launch.league) - 1)
                           = Ranks(c) \ {c * launch.chunk}
<1>. DEFINE k == launch.chunk
            n == launch.league
<1>1. k \in Nat \ {0} /\ n \in Nat
  BY LaunchFacts
<1>2. Ranks(c) = {r \in 0..(n - 1) : r \div k = c} /\ League = 0..(n - 1)
  BY DEF Ranks, League
<1>3. c * k < n
  OBVIOUS
<1>. SUFFICES /\ c < 0 => Ranks(c) = {}
              /\ c >= 0 => /\ c * k \in Ranks(c) /\ c * k \in League
                           /\ (c * k + 1)..(Least((c + 1) * k, n) - 1) = Ranks(c) \ {c * k}
  OBVIOUS
<1>. HIDE DEF k, n
<1>4. CASE c < 0
  <2>1. ASSUME NEW r \in 0..(n - 1) PROVE r \div k # c
    <3>1. r \in Int /\ r >= 0
      BY <1>1
    <3>2. r \div k >= 0 /\ r \div k \in Int
      BY <1>1, <3>1, Division
    <3>. QED
      BY <1>4, <3>2
  <2>. QED
    BY <1>2, <1>4, <2>1
<1>5. CASE c >= 0
  <2>1. c \in Nat /\ c * k \in Nat /\ (c + 1) * k = c * k + k
    BY <1>1, <1>5
  <2>2. ASSUME NEW r \in Nat PROVE r \div k = c <=> (c * k <= r /\ r < c * k + k)
    <3>1. PICK q : q = r \div k
      OBVIOUS
    <3>2. q \in Nat /\ k * q <= r /\ r < k * q + k
      BY <1>1, <3>1, Division
    <3>3. k * q = q * k /\ k * q \in Nat /\ k * c = c * k /\ k * c \in Nat
      BY <1>1, <2>1, <3>2
    <3>4. CASE q < c
      <4>1. k * q + k <= k * c
        BY <1>1, <2>1, <3>2, <3>4, MultiplesApart
      <4>2. r < k * c
        BY <1>1, <3>2, <3>3, <4>1
      <4>. QED
        BY <1>1, <3>1, <3>3, <3>4, <4>2, <2>1, <3>2
    <3>5. CASE c < q
      <4>1. k * c + k <= k * q
        BY <1>1, <2>1, <3>2, <3>5, MultiplesApart
      <4>2. k * c + k <= r
        BY <1>1, <3>2, <3>3, <4>1
      <4>. QED
        BY <1>1, <3>1, <3>3, <3>5, <4>2, <2>1, <3>2
    <3>6. CASE q = c
      BY <3>1, <3>2, <3>3, <3>6
    <3>. QED
      BY <2>1, <3>2, <3>4, <3>5, <3>6
  <2>3. PICK f : f = c * k
    OBVIOUS
  <2>4. PICK m : m = (c + 1) * k
    OBVIOUS
  <2>5. f \in Nat /\ m = f + k /\ f < n
    BY <1>3, <2>1, <2>3, <2>4
  <2>6. ASSUME NEW r \in Nat PROVE r \div k = c <=> (f <= r /\ r < m)
    BY <2>1, <2>2, <2>3, <2>4
  <2>7. f \in Ranks(c) /\ f \in League
    BY <1>1, <1>2, <2>5, <2>6
  <2>8. (f + 1)..(Least(m, n) - 1) = Ranks(c) \ {f}
    <3>1. Least(m, n) = IF m < n THEN m ELSE n
      BY DEF Least
    <3>2. ASSUME NEW r \in (f + 1)..(Least(m, n) - 1) PROVE r \in Ranks(c) \ {f}
      <4>1. r \in Nat /\ f < r /\ r < m /\ r < n
        BY <1>1, <2>5, <3>1
      <4>2. r \div k = c
        BY <2>5, <2>6, <4>1
      <4>3. r \in 0..(n - 1) /\ r # f
        BY <1>1, <2>5, <4>1
      <4>. QED
        BY <1>2, <4>2, <4>3
    <3>3. ASSUME NEW r \in Ranks(c) \ {f} PROVE r \in (f + 1)..(Least(m, n) - 1)
      <4>1. r \in Nat /\ r < n /\ r # f /\ r \div k = c
        BY <1>1, <1>2
      <4>2. f <= r /\ r < m
        BY <2>6, <4>1
      <4>. QED
        BY <1>1, <2>5, <3>1, <4>1, <4>2
    <3>. QED
      BY <3>2, <3>3
  <2>. QED
    BY <1>5, <2>3, <2>4, <2>7, <2>8
<1>. QED
  BY <1>1, <1>4, <1>5

(* A member that leaves the collective of the chunk takes it there.        *)
LEMMA TakesChunk ==
  ASSUME Control, InLeague, NEW e \in Pool, TakeChunk(e)
  PROVE  /\ e \in Teamed /\ Taking(e) /\ ~Taking(e)'
         /\ IF index[Base(e)] >= 0
              THEN /\ rank'[e] \in Due(e) /\ Due(e)' = Due(e) \ {rank'[e]}
                   /\ rank'[e] \in League
                   /\ ran' = [i \in Item |-> IF i = <<rank'[e], Place(e)>> THEN ran[i] + 1
                                             ELSE ran[i]]
                   /\ pc'[e] = "functor"
              ELSE Due(e)' = Due(e) /\ ran' = ran /\ ~Running(e)'
<1>0. PICK b : b = Base(e)
  OBVIOUS
<1>1. /\ Typed /\ launch' = launch /\ launch \in Launches /\ e \in Entry /\ SiteOf(e) /\ Thread(e)
  BY ThreadFacts, Others DEF Control, Sites, Thread, Leave
<1>2. pc \in [Entry -> {"wait", "valid", "functor", "claim", "fan_in", "met", "release", "done"}]
  BY <1>1 DEF Typed
<1>3. call \in [Entry -> TeamCall \cup PoolCall \cup {"index", "next"}]
  BY <1>1 DEF Typed
<1>4. rank \in [Entry -> Int] /\ end \in [Entry -> Nat]
  BY <1>1 DEF Typed
<1>5. pc[e] = "release" /\ call[e] = "index" /\ Inside(e) /\ Out(e)
  BY DEF TakeChunk, Left, Inside, Out
<1>6. e \in Teamed
  BY <1>1, <1>5 DEF SiteOf, Teamed, OfPool, PoolCall
<1>7. /\ b \in Teamed /\ b \in Pool /\ b \in Entry /\ Base(b) = b /\ Place(b) = 0 /\ SiteOf(b)
      /\ With(e, b) /\ Base(e)' = b
  BY <1>0, <1>1, <1>6, BaseFacts, ThreadFacts, LaunchKept DEF Control, Sites, Together
<1>8. Meeting(e)[1] = "index" /\ Heading(e)[1] # "index"
  BY <1>1, <1>5, MeetingKinds, HeadingKinds
<1>9. IF Out(b) THEN Meeting(b)[1] = "index" ELSE Meeting(b)[1] # "index"
  BY <1>5, <1>7, <1>8 DEF With
<1>10. Published(b) /\ ~Publishes(b)
  <2>1. Publishes(b) => ~Out(b) /\ Meeting(b)[1] = "index"
    BY <1>1, <1>7, MeetingKinds DEF Publishes, Out
  <2>. QED
    BY <1>9, <2>1 DEF Published
<1>11. Taking(e)
  BY <1>0, <1>5, <1>10 DEF Taking
<1>12. PICK c : c = index[b]
  OBVIOUS
<1>13. c \in Nat \cup {-1} /\ c * launch.chunk < launch.league
  <2>1. c \in Nat \cup {-1}
    BY <1>7, <1>12, <1>1 DEF Typed
  <2>. QED
    BY <1>0, <1>6, <1>11, <1>12, <2>1 DEF InLeague
<1>14. /\ rank'[e] = c * launch.chunk
       /\ end'[e] = Least((c + 1) * launch.chunk, launch.league)
       /\ IF c >= 0 THEN GoOn(e, "release", "functor") /\ RunFunctor(e, c * launch.chunk)
          ELSE Enter(e, "release", "end") /\ UNCHANGED <<at, ran>>
  BY <1>0, <1>1, <1>4, <1>12 DEF TakeChunk
<1>15. /\ c >= 0 => pc'[e] = "functor" /\ call'[e] = call[e]
       /\ c < 0 => pc'[e] = "fan_in" /\ call'[e] = "end"
  BY <1>1, <1>2, <1>3, <1>13, <1>14 DEF GoOn, Go, Enter
<1>16. ~Taking(e)'
  <2>1. ~Inside(e)' /\ ~Publishes(e)'
    BY <1>13, <1>15 DEF Inside, Publishes
  <2>2. ~Publishes(b)'
    <3>1. CASE b = e
      BY <2>1, <3>1
    <3>2. CASE b # e
      <4>1. ~RootActs(e)
        BY <1>5 DEF RootActs, FannedIn
      <4>. QED
        BY <1>1, <1>7, <1>10, <3>2, <4>1, LeadSeen
    <3>. QED
      BY <3>1, <3>2
  <2>3. Publishes(Base(e))' <=> Publishes(b)'
    BY <1>7 DEF Publishes
  <2>. QED
    BY <2>1, <2>2, <2>3 DEF Taking
<1>17. Due(e) = Ranks(c) /\ Due(e)' = Rest(e)'
  BY <1>0, <1>11, <1>12, <1>16 DEF Due
<1>18. CASE c >= 0
  <2>1. Rest(e)' = (rank'[e] + 1)..(end'[e] - 1)
    BY <1>15, <1>18 DEF Rest, Running
  <2>2. /\ rank'[e] \in Ranks(c) /\ rank'[e] \in League
        /\ Rest(e)' = Ranks(c) \ {rank'[e]}
    BY <1>1, <1>13, <1>14, <1>18, <2>1, RanksAre
  <2>3. ran' = [i \in Item |-> IF i = <<rank'[e], Place(e)>> THEN ran[i] + 1 ELSE ran[i]]
    BY <1>14, <1>18 DEF RunFunctor
  <2>. QED
    BY <1>0, <1>6, <1>11, <1>12, <1>15, <1>16, <1>17, <1>18, <2>2, <2>3
<1>19. CASE ~(c >= 0)
  <2>1. Rest(e)' = {} /\ ~Running(e)'
    BY <1>13, <1>15, <1>19 DEF Rest, Running, Counting, TeamCall
  <2>2. Ranks(c) = {}
    BY <1>1, <1>13, <1>19, RanksAre
  <2>. QED
    BY <1>0, <1>6, <1>11, <1>12, <1>14, <1>16, <1>17, <1>19, <2>1, <2>2
<1>. QED
  BY <1>18, <1>19

(* A member that goes to an item has not one to take.                      *)
LEMMA ValidTakesNone ==
  ASSUME Control, NEW e \in Teamed, Valid(e)
  PROVE  ~Taking(e)
<1>1. /\ Typed /\ launch \in Launches /\ e \in Pool /\ Thread(e)
  BY DEF Control, Typed, Teamed, Thread, Loop
<1>2. pc[e] = "valid" /\ ~TakeChunk(e)
  BY DEF Valid, GoOn, Go, TakeChunk, Left
<1>3. PICK b : b = Base(e)
  OBVIOUS
<1>4. b \in Pool /\ SiteOf(b)
  BY <1>1, <1>3, BaseFacts DEF Control, Sites
<1>5. SUFFICES ASSUME Publishes(b) PROVE FALSE
  BY <1>2, <1>3 DEF Taking, Inside
<1>6. ~Out(b) /\ Meeting(b)[1] = "index"
  BY <1>1, <1>4, <1>5, MeetingKinds DEF Publishes, Out
<1>7. Rest(e) = {}
  BY <1>3, <1>6, NothingLeft
<1>. QED
  BY <1>1, <1>2, <1>7, RestSelf

(* A lead that claims a chunk, or finds there is none, gives it to members *)
(* that have nothing left.                                                 *)
LEMMA Publication ==
  ASSUME Control, NEW e \in Pool, Thread(e), pc[e] = "claim", pc'[e] = "fan_in"
  PROVE  /\ e \in Teamed /\ Leads(e) /\ Base(e) = e /\ launch.dynamic
         /\ \A d \in Teamed : Base(d) = e =>
              Due(d) = {} /\ Due(d)' = Ranks(index'[e]) /\ Taking(d)'
<1>1. /\ Typed /\ launch' = launch /\ launch \in Launches /\ e \in Entry /\ SiteOf(e)
  BY ThreadFacts, Others DEF Control, Sites
<1>2. Leads(e) /\ launch.dynamic /\ e \in Teamed /\ Base(e) = e
  <2>1. Leads(e) /\ launch.dynamic /\ e \in Teamed
    BY <1>1 DEF SiteOf, Teamed, Leads
  <2>. QED
    BY <1>1, <2>1, BaseFacts DEF Leads
<1>3. call'[e] = "index"
  <2>1. call \in [Entry -> TeamCall \cup PoolCall \cup {"index", "next"}]
    BY <1>1 DEF Typed
  <2>2. Claim(e)
    BY DEF Thread, Loop, Construct, Valid, NotValid, NextItem, Collective, Call, FanIn, Meet,
           RootActs, Resume, Release, Leave, Return, Again, TakeChunk, LastFanIn, Deactivate,
           Enter, GoOn, Go, FannedIn, Left
  <2>3. pc \in [Entry -> {"wait", "valid", "functor", "claim", "fan_in", "met", "release", "done"}]
    BY <1>1 DEF Typed
  <2>. QED
    BY <1>1, <2>1, <2>2, <2>3
    DEF Claim, ClaimOwn, Exhausted, SkipTarget, Steal, NoTarget, Publish, Enter, Go
<1>4. ~Out(e) /\ Meeting(e)[1] = "index" /\ ~Publishes(e) /\ Publishes(e)'
  BY <1>3 DEF Out, Meeting, Publishes
<1>5. ASSUME NEW d \in Teamed, Base(d) = e
      PROVE  Due(d) = {} /\ Due(d)' = Ranks(index'[e]) /\ Taking(d)'
  <2>1. Rest(d) = {}
    BY <1>4, <1>5, NothingLeft
  <2>2. ~Taking(d)
    BY <1>4, <1>5 DEF Taking, Published
  <2>3. Base(d)' = e
    BY <1>1, <1>5, LaunchKept DEF Teamed
  <2>4. Taking(d)'
    BY <1>4, <2>3 DEF Taking, Publishes
  <2>5. Due(d)' = Ranks(index[Base(d)])'
    BY <2>4 DEF Due
  <2>6. Ranks(index[Base(d)])' = Ranks(index'[e])
    BY <1>1, <2>3 DEF Ranks, League
  <2>. QED
    BY <2>1, <2>2, <2>4, <2>5, <2>6 DEF Due
<1>. QED
  BY <1>2, <1>5
-----------------------------------------------------------------------------
(* The chunks of a lead                                                    *)

(* A team of an empty league is given no base, and claims nothing.         *)
LEMMA ClaimsNeedWork ==
  ASSUME launch \in Launches, launch.dynamic
  PROVE  launch.league > 0
<1>1. launch.league \in Nat /\ ~LosesBase(launch)
  BY LaunchesAssumption, LaunchFacts
<1>. QED
  BY <1>1 DEF LosesBase

(* They are its lead's doing, or that of one that claims a chunk.          *)
LEMMA WindowKept ==
  ASSUME Control, NEW e \in Pool, Thread(e), ~ClaimOwn(e), ~Steal(e),
         NEW b \in Teamed, Place(b) = 0
  PROVE  Window(b)' = Window(b)
<1>1. /\ Typed /\ launch' = launch /\ launch \in Launches /\ e \in Entry /\ b \in Pool
      /\ b \in Entry /\ SiteOf(b) /\ Leads(b)
  BY ThreadFacts, Others DEF Control, Sites, Teamed, Leads
<1>2. range \in [Entry -> Pair]
  BY <1>1 DEF Typed
<1>3. pc \in [Entry -> {"wait", "valid", "functor", "claim", "fan_in", "met", "release", "done"}]
  BY <1>1 DEF Typed
<1>4. ~Construct(e) => range' = range
  BY DEF Thread, Loop, Valid, NotValid, NextItem, Claim, Exhausted, SkipTarget, NoTarget,
         Collective, Call, FanIn, Meet, RootActs, Resume, Release, Leave, Return, Again,
         TakeChunk, LastFanIn, Deactivate, claims
<1>5. /\ LeagueBegin(b)' = LeagueBegin(b) /\ LeagueEnd(b)' = LeagueEnd(b)
  BY <1>1 DEF LeagueBegin, LeagueEnd, LeagueRank
<1>6. CASE b # e
  <2>1. pc'[b] = pc[b]
    BY <1>1, <1>6, Others DEF Untouched
  <2>2. range'[b] = range[b]
    BY <1>1, <1>2, <1>4, <1>6 DEF Construct
  <2>. QED
    BY <1>1, <1>5, <2>1, <2>2 DEF Window
<1>7. CASE b = e /\ Construct(e)
  <2>1. pc[b] = "wait" /\ pc'[b] # "wait"
    BY <1>1, <1>3, <1>7 DEF Construct, Enter, GoOn, Go
  <2>2. launch.dynamic => launch.league > 0
    BY <1>1, ClaimsNeedWork
  <2>3. launch.dynamic =>
          range'[b] = [first |-> FirstChunk(LeagueBegin(b), launch.chunk),
                       second |-> LastChunk(LeagueBegin(b), LeagueEnd(b), launch.chunk)]
    BY <1>1, <1>2, <1>7, <2>2 DEF Construct
  <2>. QED
    BY <1>1, <1>5, <2>1, <2>3 DEF Window
<1>8. CASE b = e /\ ~Construct(e)
  <2>1. pc[b] # "wait" /\ pc'[b] # "wait"
    BY <1>1, <1>3, <1>8
    DEF Thread, Loop, Valid, NotValid, NextItem, Claim, Exhausted, SkipTarget, NoTarget, Publish,
        Collective, Call, FanIn, Meet, RootActs, Resume, Release, Leave, Return, Again,
        TakeChunk, LastFanIn, Deactivate, Enter, GoOn, Go, FannedIn, Left
  <2>. QED
    BY <1>1, <1>4, <1>8, <2>1 DEF Window
<1>. QED
  BY <1>6, <1>7, <1>8

(* Nobody claims before every lead has published its own.                  *)
LEMMA ClaimsLate ==
  ASSUME Control, NEW e \in Pool, pc[e] = "claim", NEW t \in Pool
  PROVE  pc[t] # "wait"
<1>1. Typed /\ SiteOf(e) /\ launch.dynamic /\ launch \in Launches
  BY DEF Control, Sites, SiteOf, Typed
<1>2. ~BeforeStart(e)
  BY DEF BeforeStart, Waiting
<1>3. ~BeforeStart(0)
  BY <1>2, StageFacts
<1>4. BeforeStart(t) => pc[t] = "met"
  BY <1>3, StageFacts DEF Meets, Waiting
<1>. QED
  BY <1>1, <1>4 DEF BeforeStart

(* A claim takes one chunk off one of the ends of one pair.                *)
LEMMA WindowClaimed ==
  ASSUME Control, StealsFromLeads, NEW e \in Pool, ClaimOwn(e) \/ Steal(e)
  PROVE  /\ pc[e] = "claim" /\ pc'[e] = "fan_in" /\ index'[e] \in Nat
         /\ \E t \in Teamed :
              /\ Place(t) = 0 /\ index'[e] \in Window(t)
              /\ Window(t)' = Window(t) \ {index'[e]}
              /\ \A b \in Teamed : Place(b) = 0 /\ b # t => Window(b)' = Window(b)
              /\ \A d \in Entry : d # t => range'[d] = range[d]
<1>1. /\ Typed /\ launch \in Launches /\ e \in Entry /\ SiteOf(e) /\ Thread(e)
  BY ThreadFacts DEF Control, Sites, Thread, Claim
<1>2. launch' = launch
  BY <1>1, Others
<1>3. range \in [Entry -> Pair] /\ index \in [Entry -> Nat \cup {-1}]
  BY <1>1 DEF Typed
<1>4. pc \in [Entry -> {"wait", "valid", "functor", "claim", "fan_in", "met", "release", "done"}]
  BY <1>1 DEF Typed
<1>5. /\ pc[e] = "claim" /\ pc'[e] = "fan_in"
      /\ \A d \in Entry : d # e => pc'[d] = pc[d]
  BY <1>1, <1>4 DEF ClaimOwn, Steal, Publish, Enter, Go
<1>6. Leads(e) /\ launch.dynamic /\ e \in Teamed
  BY <1>1, <1>5 DEF SiteOf, Leads, Teamed
<1>7. PICK t : /\ t \in Teamed /\ Place(t) = 0 /\ ~Empty(range[t])
               /\ \/ t = e /\ ClaimOwn(e)
                  \/ t = target[e] /\ Steal(e)
  <2>1. CASE ClaimOwn(e)
    BY <1>6, <2>1 DEF ClaimOwn, Leads
  <2>2. CASE Steal(e)
    <3>1. target[e] \in Pool /\ ~Empty(range[target[e]])
      BY <1>1, <2>2 DEF Steal, StealsFromLeads
    <3>2. launch.left \in Nat
      BY <1>1, LaunchFacts
    <3>3. Leads(target[e])
      BY <1>5, <1>6, <3>1, <3>2 DEF StealsFromLeads
    <3>. QED
      BY <2>2, <3>1, <3>3 DEF Leads, Teamed
  <2>. QED
    BY <2>1, <2>2
<1>8. /\ t \in Entry /\ t \in Pool /\ range[t].first \in Nat /\ range[t].second \in Nat
      /\ range[t].first < range[t].second
  <2>1. t \in Entry /\ t \in Pool
    BY <1>1, <1>7, TeamFacts
  <2>2. range[t] \in Pair
    BY <1>3, <2>1
  <2>. QED
    BY <1>7, <2>1, <2>2 DEF Pair, Empty
<1>9. pc[t] # "wait" /\ pc'[t] # "wait"
  BY <1>5, <1>8, ClaimsLate
<1>10. /\ Window(t) = range[t].first..(range[t].second - 1)
       /\ Window(t)' = range'[t].first..(range'[t].second - 1)
  BY <1>2, <1>6, <1>9 DEF Window
<1>11. /\ index'[e] \in Nat /\ index'[e] \in Window(t)
       /\ Window(t)' = Window(t) \ {index'[e]}
  <2>1. CASE t = e /\ ClaimOwn(e)
    <3>1. index'[e] = range[t].first
      BY <1>1, <1>3, <2>1 DEF ClaimOwn, Publish
    <3>2. range'[t].first = range[t].first + 1 /\ range'[t].second = range[t].second
      BY <1>3, <1>8, <2>1 DEF ClaimOwn, Pair
    <3>. QED
      BY <1>8, <1>10, <3>1, <3>2
  <2>2. CASE t = target[e] /\ Steal(e)
    <3>1. index'[e] = range[t].second - 1
      BY <1>1, <1>3, <2>2 DEF Steal, Publish
    <3>2. range'[t].first = range[t].first /\ range'[t].second = range[t].second - 1
      BY <1>3, <1>8, <2>2 DEF Steal, Pair
    <3>. QED
      BY <1>8, <1>10, <3>1, <3>2
  <2>. QED
    BY <1>7, <2>1, <2>2
<1>12. \A d \in Entry : d # t => range'[d] = range[d]
  BY <1>3, <1>7 DEF ClaimOwn, Steal
<1>13. ASSUME NEW b \in Teamed, Place(b) = 0, b # t PROVE Window(b)' = Window(b)
  <2>1. b \in Entry /\ b \in Pool
    BY <1>1, TeamFacts
  <2>2. range'[b] = range[b] /\ pc[b] # "wait" /\ pc'[b] # "wait"
    BY <1>5, <1>12, <1>13, <2>1, ClaimsLate
  <2>. QED
    BY <1>2, <2>2 DEF Window
<1>. QED
  BY <1>5, <1>7, <1>11, <1>12, <1>13
-----------------------------------------------------------------------------
(* What a step does to the league: nothing; a member runs an item it has;  *)
(* or a team is given a chunk, out of its lead's or another lead's hands.  *)

LeadsKeep(T) == \A b \in Teamed \ T : Place(b) = 0 => Window(b)' = Window(b)
MembersKeep(T) == \A d \in Teamed \ T : Due(d)' = Due(d)
Runs(e, r) ==
  /\ r \in Due(e) /\ Due(e)' = Due(e) \ {r} /\ MembersKeep({e}) /\ LeadsKeep({})
  /\ ran' = [i \in Item |-> IF i = <<r, Place(e)>> THEN ran[i] + 1 ELSE ran[i]]
TeamWith(b) == {d \in Teamed : Base(d) = b}
Claims(b, t, c) ==
  /\ c \in Window(t) /\ Window(t)' = Window(t) \ {c} /\ LeadsKeep({t})
  /\ \A d \in TeamWith(b) : Due(d) = {} /\ Due(d)' = Ranks(c)
  /\ MembersKeep(TeamWith(b)) /\ ran' = ran
Keeps == MembersKeep({}) /\ LeadsKeep({}) /\ ran' = ran

(* Every step is one of the three.                                         *)
LEMMA LeagueSteps ==
  ASSUME Control, StealsFromLeads, InLeague, NEW e \in Pool, Thread(e)
  PROVE  \/ Keeps
         \/ e \in Teamed /\ \E r \in League : Runs(e, r)
         \/ /\ e \in Teamed /\ Place(e) = 0 /\ index'[e] \in Nat
            /\ \E t \in Teamed : Place(t) = 0 /\ Claims(e, t, index'[e])
<1>1. /\ Typed /\ launch' = launch /\ launch \in Launches /\ e \in Entry /\ SiteOf(e)
  BY ThreadFacts, Others DEF Control, Sites
<1>2. CASE pc[e] = "claim" /\ pc'[e] = "fan_in"
  <2>1. /\ e \in Teamed /\ Place(e) = 0 /\ Base(e) = e
        /\ \A d \in TeamWith(e) : Due(d) = {} /\ Due(d)' = Ranks(index'[e])
    BY <1>2, Publication DEF Leads, TeamWith
  <2>2. MembersKeep(TeamWith(e))
    <3>1. SUFFICES ASSUME NEW d \in Teamed, Base(d) # e PROVE Due(d)' = Due(d)
      BY DEF MembersKeep, TeamWith
    <3>2. d # e
      BY <2>1, <3>1
    <3>. QED
      BY <3>1, <3>2, DueOthers
  <2>3. ran' = ran /\ Claim(e)
    BY <1>2 DEF Thread, Loop, Construct, Valid, NotValid, NextItem, Collective, Call, FanIn, Meet,
      RootActs, Resume, Release, Leave, Return, Again, TakeChunk, LastFanIn, Deactivate,
      Enter, GoOn, Go, FannedIn, Left, Claim, ClaimOwn, Exhausted, SkipTarget, Steal, NoTarget,
      ClaimStep, place
  <2>4. CASE ClaimOwn(e) \/ Steal(e)
    <3>1. PICK t \in Teamed :
            /\ Place(t) = 0 /\ index'[e] \in Window(t)
            /\ Window(t)' = Window(t) \ {index'[e]}
            /\ \A b \in Teamed : Place(b) = 0 /\ b # t => Window(b)' = Window(b)
      BY <2>4, WindowClaimed
    <3>2. index'[e] \in Nat
      BY <2>4, WindowClaimed
    <3>3. LeadsKeep({t})
      BY <3>1 DEF LeadsKeep
    <3>4. Claims(e, t, index'[e])
      BY <2>1, <2>2, <2>3, <3>1, <3>3 DEF Claims
    <3>. QED
      BY <2>1, <3>1, <3>2, <3>4
  <2>5. CASE ~ClaimOwn(e) /\ ~Steal(e)
    <3>1. NoTarget(e)
      BY <1>2, <2>3, <2>5 DEF Claim, Exhausted, SkipTarget
    <3>2. index'[e] = -1
      BY <1>1, <3>1 DEF NoTarget, Publish, Typed
    <3>3. Ranks(-1) = {}
      <4>1. PICK c : c = -1
        OBVIOUS
      <4>2. c * launch.chunk < launch.league
        <5>1. launch.chunk \in Nat \ {0} /\ launch.league \in Nat
          BY <1>1, LaunchFacts
        <5>. QED
          BY <4>1, <5>1
      <4>3. c \in Nat \cup {-1} /\ c < 0
        BY <4>1
      <4>. QED
        BY <1>1, <4>1, <4>2, <4>3, RanksAre
    <3>4. MembersKeep({})
      <4>1. SUFFICES ASSUME NEW d \in Teamed PROVE Due(d)' = Due(d)
        BY DEF MembersKeep
      <4>2. CASE d \in TeamWith(e)
        BY <2>1, <3>2, <3>3, <4>2
      <4>3. CASE d \notin TeamWith(e)
        BY <2>2, <4>3 DEF MembersKeep
      <4>. QED
        BY <4>2, <4>3
    <3>5. LeadsKeep({})
      BY <2>5, WindowKept DEF LeadsKeep
    <3>. QED
      BY <2>3, <3>4, <3>5 DEF Keeps
  <2>. QED
    BY <2>4, <2>5
<1>3. CASE ~(pc[e] = "claim" /\ pc'[e] = "fan_in")
  <2>1. ~ClaimOwn(e) /\ ~Steal(e)
    BY <1>3, WindowClaimed
  <2>2. LeadsKeep({})
    BY <2>1, WindowKept DEF LeadsKeep
  <2>3. MembersKeep({e})
    <3>1. SUFFICES ASSUME NEW d \in Teamed, d # e PROVE Due(d)' = Due(d)
      BY DEF MembersKeep
    <3>. QED
      BY <1>3, <3>1, DueOthers
  <2>4. CASE e \notin Teamed
    <3>1. Idle(e)
      BY <2>4 DEF Teamed
    <3>2. ~Valid(e)
      BY <1>1, <3>1 DEF SiteOf, Valid, HasItem
    <3>3. ~TakeChunk(e)
      BY <2>4, TakesChunk
    <3>4. ran' = ran
      BY <3>2, <3>3
      DEF Thread, Loop, Construct, NotValid, NextItem, Collective, Call, FanIn, Meet,
        RootActs, Resume, Release, Leave, Return, Again, LastFanIn, Deactivate,
        Claim, ClaimOwn, Exhausted, SkipTarget, Steal, NoTarget, ClaimStep, place
    <3>5. MembersKeep({})
      BY <2>3, <2>4 DEF MembersKeep
    <3>. QED
      BY <2>2, <3>4, <3>5 DEF Keeps
  <2>5. CASE e \in Teamed /\ Valid(e)
    <3>1. ~TakeChunk(e)
      BY <2>5 DEF Valid, GoOn, Go, TakeChunk, Left
    <3>2. ~Taking(e) /\ ~Taking(e)'
      BY <1>3, <2>5, <3>1, ValidTakesNone, TakingSelf
    <3>3. /\ rank[e] \in Rest(e) /\ Rest(e)' = Rest(e) \ {rank[e]}
          /\ ran' = [i \in Item |-> IF i = <<rank[e], Place(e)>> THEN ran[i] + 1 ELSE ran[i]]
      BY <2>5, <3>1, RestSelf
    <3>4. Due(e) = Rest(e) /\ Due(e)' = Rest(e)'
      BY <3>2 DEF Due
    <3>5. rank[e] \in League
      BY <2>5, <3>3, <3>4 DEF InLeague
    <3>6. Runs(e, rank[e])
      BY <2>2, <2>3, <3>3, <3>4 DEF Runs
    <3>. QED
      BY <2>5, <3>5, <3>6
  <2>6. CASE e \in Teamed /\ TakeChunk(e)
    <3>1. CASE index[Base(e)] >= 0
      <4>1. /\ rank'[e] \in Due(e) /\ Due(e)' = Due(e) \ {rank'[e]} /\ rank'[e] \in League
            /\ ran' = [i \in Item |-> IF i = <<rank'[e], Place(e)>> THEN ran[i] + 1 ELSE ran[i]]
        BY <2>6, <3>1, TakesChunk
      <4>2. Runs(e, rank'[e])
        BY <2>2, <2>3, <4>1 DEF Runs
      <4>. QED
        BY <2>6, <4>1, <4>2
    <3>2. CASE ~(index[Base(e)] >= 0)
      <4>1. Due(e)' = Due(e) /\ ran' = ran
        BY <2>6, <3>2, TakesChunk
      <4>. QED
        BY <2>2, <2>3, <4>1 DEF Keeps, MembersKeep
    <3>. QED
      BY <3>1, <3>2
  <2>7. CASE e \in Teamed /\ ~Valid(e) /\ ~TakeChunk(e)
    <3>1. /\ Taking(e)' <=> Taking(e)
          /\ Rest(e)' = Rest(e) /\ ran' = ran
      BY <1>3, <2>7, TakingSelf, RestSelf
    <3>2. PICK b : b = Base(e) /\ Base(e)' = b /\ b \in Entry
      BY <1>1, <2>7, BaseFacts, ThreadFacts, LaunchKept
    <3>3. index'[b] = index[b]
      <4>1. CASE b # e
        BY <1>1, <3>2, <4>1, Others
      <4>2. CASE Claim(e)
        <5>1. pc \in [Entry -> {"wait", "valid", "functor", "claim", "fan_in", "met", "release",
                                "done"}]
          BY <1>1 DEF Typed
        <5>. QED
          BY <1>1, <1>3, <4>2, <5>1
          DEF Claim, ClaimOwn, Exhausted, SkipTarget, Steal, NoTarget, Publish, Enter, Go
      <4>3. CASE ~Claim(e)
        BY <4>3 DEF Thread, Loop, Construct, Valid, NotValid, NextItem, Collective, Call, FanIn,
                    Meet, RootActs, Resume, Release, Leave, Return, Again, TakeChunk, LastFanIn,
                    Deactivate, claims
      <4>. QED
        BY <4>1, <4>2, <4>3
    <3>4. Ranks(index[Base(e)])' = Ranks(index[Base(e)])
      BY <1>1, <3>2, <3>3 DEF Ranks, League
    <3>5. Due(e)' = Due(e)
      BY <3>1, <3>4 DEF Due
    <3>. QED
      BY <2>2, <2>3, <3>1, <3>5 DEF Keeps, MembersKeep
  <2>. QED
    BY <2>4, <2>5, <2>6, <2>7
<1>. QED
  BY <1>2, <1>3
-----------------------------------------------------------------------------
(* No item is lost or doubled                                              *)

Holds(e, r) == r \in Held(Base(e))

(* Who has an item, in terms of the chunks of the lead                     *)
LEMMA HasIs ==
  ASSUME launch \in Launches, launch' = launch, NEW e \in Teamed, NEW b, b = Base(e),
         NEW r \in League
  PROVE  /\ Holds(e, r) <=> r \div launch.chunk \in Window(b)
         /\ Holds(e, r)' <=> r \div launch.chunk \in Window(b)'
         /\ Has(e, r) <=> r \in Due(e) \/ Holds(e, r)
         /\ Has(e, r)' <=> r \in Due(e)' \/ Holds(e, r)'
<1>1. Base(e)' = b /\ League' = League /\ launch'.chunk = launch.chunk
  BY LaunchKept DEF Teamed, League
<1>2. Held(Base(e))' = {x \in League : x \div launch.chunk \in Window(b)'}
  <2>1. Window(Base(e))' = Window(b)'
    BY <1>1 DEF Window, LeagueBegin, LeagueEnd, LeagueRank
  <2>. QED
    BY <1>1, <2>1 DEF Held
<1>3. Held(Base(e)) = {x \in League : x \div launch.chunk \in Window(b)}
  BY DEF Held
<1>. QED
  BY <1>2, <1>3 DEF Has, Holds

(* What is to be shown of the next state                                   *)
LEMMA SharesNext ==
  ASSUME launch \in Launches, launch' = launch,
         \A d, e \in Teamed : \A r \in League :
           Place(d) = Place(e) /\ Has(d, r)' /\ Has(e, r)' => d = e,
         \A e \in Teamed : \A r \in League : ~(r \in Due(e)' /\ Holds(e, r)'),
         \A r \in League : \A p \in Places :
           ran'[<<r, p>>] = IF \E e \in Teamed : Place(e) = p /\ Has(e, r)' THEN 0 ELSE 1
  PROVE  Shares'
<1>1. /\ Teamed' = Teamed /\ League' = League /\ Places' = Places
      /\ \A e \in Teamed : Place(e)' = Place(e)
  BY LaunchKept DEF Teamed, League, Places
<1>2. OneHas'
  <2>1. SUFFICES ASSUME NEW d \in Teamed, NEW e \in Teamed, NEW r \in League,
                        Place(d) = Place(e), Has(d, r)', Has(e, r)'
                 PROVE  d = e
    BY <1>1 DEF OneHas
  <2>. QED
    BY <2>1
<1>3. DueOrHeld'
  BY <1>1 DEF DueOrHeld, Holds
<1>4. Counts'
  <2>1. SUFFICES ASSUME NEW r \in League, NEW p \in Places
                 PROVE  ran'[<<r, p>>] =
                          IF \E e \in Teamed : Place(e)' = p /\ Has(e, r)' THEN 0 ELSE 1
    BY <1>1 DEF Counts
  <2>2. ran'[<<r, p>>] = IF \E e \in Teamed : Place(e) = p /\ Has(e, r)' THEN 0 ELSE 1
    OBVIOUS
  <2>. QED
    BY <1>1, <2>2
<1>. QED
  BY <1>2, <1>3, <1>4 DEF Shares

(* Nothing changes hands.                                                  *)
LEMMA SharesKeep ==
  ASSUME launch \in Launches, launch' = launch, Shares, Keeps
  PROVE  Shares'
<1>1. ASSUME NEW e \in Teamed, NEW r \in League
      PROVE  /\ Has(e, r)' <=> Has(e, r)
             /\ Holds(e, r)' <=> Holds(e, r)
             /\ Due(e)' = Due(e)
  <2>1. PICK b \in Teamed : b = Base(e) /\ Place(b) = 0
    BY BaseFacts
  <2>2. Window(b)' = Window(b) /\ Due(e)' = Due(e)
    BY <2>1 DEF Keeps, LeadsKeep, MembersKeep
  <2>. QED
    BY <2>1, <2>2, HasIs
<1>2. ran' = ran
  BY DEF Keeps
<1>3. \A d, e \in Teamed : \A r \in League :
        Place(d) = Place(e) /\ Has(d, r)' /\ Has(e, r)' => d = e
  BY <1>1 DEF Shares, OneHas
<1>4. \A e \in Teamed : \A r \in League : ~(r \in Due(e)' /\ Holds(e, r)')
  BY <1>1 DEF Shares, DueOrHeld, Holds
<1>5. ASSUME NEW r \in League, NEW p \in Places
      PROVE  ran'[<<r, p>>] = IF \E e \in Teamed : Place(e) = p /\ Has(e, r)' THEN 0 ELSE 1
  BY <1>1, <1>2 DEF Shares, Counts
<1>. QED
  BY <1>3, <1>4, <1>5, SharesNext

(* A member runs an item it has: it is in no hand, and was run once.       *)
LEMMA SharesRun ==
  ASSUME launch \in Launches, launch' = launch, Shares, ran \in [Item -> Nat],
         NEW x \in Teamed, NEW i \in League, Runs(x, i)
  PROVE  Shares'
<1>1. ASSUME NEW e \in Teamed, NEW r \in League
      PROVE  /\ Holds(e, r)' <=> Holds(e, r)
             /\ r \in Due(e)' <=> r \in Due(e) /\ ~(e = x /\ r = i)
             /\ Has(e, r) <=> r \in Due(e) \/ Holds(e, r)
             /\ Has(e, r)' <=> r \in Due(e)' \/ Holds(e, r)'
  <2>1. PICK b \in Teamed : b = Base(e) /\ Place(b) = 0
    BY BaseFacts
  <2>2. Window(b)' = Window(b)
    BY <2>1 DEF Runs, LeadsKeep
  <2>3. r \in Due(e)' <=> r \in Due(e) /\ ~(e = x /\ r = i)
    BY DEF Runs, MembersKeep
  <2>. QED
    BY <2>1, <2>2, <2>3, HasIs
<1>2. i \in Due(x) /\ ~Holds(x, i)
  BY DEF Runs, Shares, DueOrHeld, Holds
<1>3. ASSUME NEW e \in Teamed, NEW r \in League
      PROVE  Has(e, r)' <=> Has(e, r) /\ ~(e = x /\ r = i)
  BY <1>1, <1>2
<1>4. \A d, e \in Teamed : \A r \in League :
        Place(d) = Place(e) /\ Has(d, r)' /\ Has(e, r)' => d = e
  BY <1>3 DEF Shares, OneHas
<1>5. \A e \in Teamed : \A r \in League : ~(r \in Due(e)' /\ Holds(e, r)')
  BY <1>1 DEF Shares, DueOrHeld, Holds
<1>6. ASSUME NEW r \in League, NEW p \in Places
      PROVE  ran'[<<r, p>>] = IF \E e \in Teamed : Place(e) = p /\ Has(e, r)' THEN 0 ELSE 1
  <2>1. <<r, p>> \in Item
    BY DEF Item, League, Places
  <2>2. ran[<<r, p>>] = IF \E e \in Teamed : Place(e) = p /\ Has(e, r) THEN 0 ELSE 1
    BY DEF Shares, Counts
  <2>3. ran'[<<r, p>>] = IF r = i /\ p = Place(x) THEN ran[<<r, p>>] + 1 ELSE ran[<<r, p>>]
    BY <2>1 DEF Runs
  <2>4. CASE r = i /\ p = Place(x)
    <3>1. Has(x, i)
      BY <1>1, <1>2
    <3>2. ran'[<<r, p>>] = 1
      BY <2>2, <2>3, <2>4, <3>1
    <3>3. ASSUME NEW e \in Teamed, Place(e) = p, Has(e, r)' PROVE FALSE
      <4>1. Has(e, i) /\ e # x
        BY <1>3, <2>4, <3>3
      <4>2. e = x
        BY <2>4, <3>1, <3>3, <4>1 DEF Shares, OneHas
      <4>. QED
        BY <4>1, <4>2
    <3>. QED
      BY <3>2, <3>3
  <2>5. CASE ~(r = i /\ p = Place(x))
    <3>1. ASSUME NEW e \in Teamed, Place(e) = p PROVE Has(e, r)' <=> Has(e, r)
      BY <1>3, <2>5, <3>1
    <3>. QED
      BY <2>2, <2>3, <2>5, <3>1
  <2>. QED
    BY <2>4, <2>5
<1>. QED
  BY <1>4, <1>5, <1>6, SharesNext

(* A chunk goes from a window to a team's members.                         *)
LEMMA SharesClaim ==
  ASSUME launch \in Launches, launch' = launch, Shares,
         NEW b \in Teamed, Place(b) = 0, NEW t \in Teamed, Place(t) = 0,
         NEW c, Claims(b, t, c)
  PROVE  Shares'
<1>1. Base(b) = b /\ Base(t) = t
  BY BaseFacts
<1>2. ASSUME NEW e \in Teamed, NEW r \in League
      PROVE  /\ Holds(e, r)' <=> Holds(e, r) /\ ~(Base(e) = t /\ r \in Ranks(c))
             /\ r \in Due(e)' <=> IF Base(e) = b THEN r \in Ranks(c) ELSE r \in Due(e)
             /\ Base(e) = b => r \notin Due(e)
             /\ r \in Ranks(c) /\ Base(e) = t => Holds(e, r)
             /\ Has(e, r) <=> r \in Due(e) \/ Holds(e, r)
             /\ Has(e, r)' <=> r \in Due(e)' \/ Holds(e, r)'
  <2>1. PICK l \in Teamed : l = Base(e) /\ Place(l) = 0
    BY BaseFacts
  <2>2. r \in Ranks(c) <=> r \div launch.chunk = c
    BY DEF Ranks
  <2>3. Window(l)' = IF l = t THEN Window(l) \ {c} ELSE Window(l)
    BY <2>1 DEF Claims, LeadsKeep
  <2>4. l = t => c \in Window(l)
    BY DEF Claims
  <2>5. /\ Holds(e, r) <=> r \div launch.chunk \in Window(l)
        /\ Holds(e, r)' <=> r \div launch.chunk \in Window(l)'
        /\ Has(e, r) <=> r \in Due(e) \/ Holds(e, r)
        /\ Has(e, r)' <=> r \in Due(e)' \/ Holds(e, r)'
    BY <2>1, HasIs
  <2>6. IF Base(e) = b THEN Due(e) = {} /\ Due(e)' = Ranks(c) ELSE Due(e)' = Due(e)
    BY DEF Claims, TeamWith, MembersKeep
  <2>. QED
    BY <2>1, <2>2, <2>3, <2>4, <2>5, <2>6
<1>3. ASSUME NEW r \in Ranks(c), NEW e \in Teamed
      PROVE  /\ r \in Due(e)' <=> Base(e) = b
             /\ ~Holds(e, r)'
  <2>1. r \in League
    BY DEF Ranks
  <2>2. PICK x \in Teamed : Place(x) = Place(e) /\ Base(x) = t
    BY <1>1, TeamFacts
  <2>3. Holds(x, r) /\ Has(x, r) /\ r \notin Due(x)
    BY <1>2, <2>1, <2>2 DEF Shares, DueOrHeld, Holds
  <2>4. Has(e, r) => e = x
    BY <2>1, <2>2, <2>3 DEF Shares, OneHas
  <2>. QED
    BY <1>2, <2>1, <2>2, <2>3, <2>4
<1>4. ASSUME NEW r \in League, r \notin Ranks(c), NEW e \in Teamed
      PROVE  /\ r \in Due(e)' <=> r \in Due(e)
             /\ Holds(e, r)' <=> Holds(e, r)
  BY <1>2, <1>4
<1>5. ASSUME NEW d \in Teamed, NEW e \in Teamed, Base(d) = Base(e), Place(d) = Place(e)
      PROVE  d = e
  BY <1>5, TeamFacts
<1>6. ASSUME NEW d \in Teamed, NEW e \in Teamed, NEW r \in League,
             Place(d) = Place(e), Has(d, r)', Has(e, r)'
      PROVE  d = e
  <2>1. CASE r \in Ranks(c)
    <3>1. Base(d) = b /\ Base(e) = b
      BY <1>2, <1>3, <1>6, <2>1
    <3>. QED
      BY <1>5, <1>6, <3>1
  <2>2. CASE r \notin Ranks(c)
    <3>1. Has(d, r) /\ Has(e, r)
      BY <1>2, <1>4, <1>6, <2>2
    <3>. QED
      BY <1>6, <3>1 DEF Shares, OneHas
  <2>. QED
    BY <2>1, <2>2
<1>7. ASSUME NEW e \in Teamed, NEW r \in League PROVE ~(r \in Due(e)' /\ Holds(e, r)')
  <2>1. CASE r \in Ranks(c)
    BY <1>3, <2>1
  <2>2. CASE r \notin Ranks(c)
    BY <1>4, <2>2 DEF Shares, DueOrHeld, Holds
  <2>. QED
    BY <2>1, <2>2
<1>8. ASSUME NEW r \in League, NEW p \in Places
      PROVE  ran'[<<r, p>>] = IF \E e \in Teamed : Place(e) = p /\ Has(e, r)' THEN 0 ELSE 1
  <2>1. ran'[<<r, p>>] = IF \E e \in Teamed : Place(e) = p /\ Has(e, r) THEN 0 ELSE 1
    BY DEF Shares, Counts, Claims
  <2>2. CASE r \in Ranks(c)
    <3>1. PICK x \in Teamed : Place(x) = p /\ Base(x) = t
      BY <1>1, TeamFacts
    <3>2. PICK y \in Teamed : Place(y) = p /\ Base(y) = b
      BY <1>1, TeamFacts
    <3>3. Has(x, r)
      BY <1>2, <2>2, <3>1
    <3>4. Has(y, r)'
      BY <1>2, <1>3, <2>2, <3>2
    <3>. QED
      BY <2>1, <3>1, <3>2, <3>3, <3>4
  <2>3. CASE r \notin Ranks(c)
    <3>1. ASSUME NEW e \in Teamed PROVE Has(e, r)' <=> Has(e, r)
      BY <1>2, <1>4, <2>3
    <3>. QED
      BY <2>1, <3>1
  <2>. QED
    BY <2>2, <2>3
<1>. QED
  BY <1>6, <1>7, <1>8, SharesNext
-----------------------------------------------------------------------------
(* The other parts of the invariant                                        *)

(* A lead comes to give up by way of stealing only.                        *)
LEMMA GivesUpSelf ==
  ASSUME Control, NEW e \in Pool, Thread(e), Leads(e), launch.dynamic, GivesUp(e)',
         ~GivesUp(e)
  PROVE  NoTarget(e)
<1>1. /\ Typed /\ launch' = launch /\ launch \in Launches /\ e \in Entry /\ SiteOf(e)
      /\ e \in Teamed /\ Base(e) = e /\ Place(e) = 0
  <2>1. Typed /\ launch \in Launches /\ e \in Entry /\ SiteOf(e) /\ e \in Teamed /\ Place(e) = 0
    BY ThreadFacts DEF Control, Sites, Teamed, Leads
  <2>. QED
    BY <2>1, Others, BaseFacts
<1>2. pc \in [Entry -> {"wait", "valid", "functor", "claim", "fan_in", "met", "release", "done"}]
  BY <1>1 DEF Typed
<1>3. call \in [Entry -> TeamCall \cup PoolCall \cup {"index", "next"}]
  BY <1>1 DEF Typed
<1>4. index \in [Entry -> Nat \cup {-1}]
  BY <1>1 DEF Typed
<1>5. /\ \/ call'[e] = "index" /\ pc'[e] \in {"fan_in", "release"} /\ index'[e] < 0
         \/ call'[e] \in {"end", "fan_in"}
      /\ ~(call[e] = "index" /\ pc[e] \in {"fan_in", "release"} /\ index[e] < 0)
      /\ call[e] \notin {"end", "fan_in"}
  BY DEF GivesUp
<1>6. CASE Loop(e)
  <2>1. ~Idle(e)
    BY DEF Leads
  <2>2. /\ index' = index
        /\ \/ pc[e] = "wait" /\ pc'[e] = "fan_in" /\ call'[e] = "start"
           \/ pc[e] = "valid" /\ pc'[e] \in {"functor", "claim"} /\ call'[e] = call[e]
           \/ pc[e] = "functor" /\ pc'[e] = "fan_in" /\ call'[e] = "next"
           \/ pc[e] = "functor" /\ pc'[e] = "valid" /\ call'[e] = call[e]
    BY <1>1, <1>2, <1>3, <1>6, <2>1
    DEF Loop, Construct, Valid, NotValid, NextItem, Enter, GoOn, Go, claims
  <2>. QED
    BY <1>5, <2>2
<1>7. CASE ClaimOwn(e) \/ Steal(e)
  <2>1. pc'[e] = "fan_in" /\ call'[e] = "index"
    BY <1>1, <1>2, <1>3, <1>7 DEF ClaimOwn, Steal, Publish, Enter, Go
  <2>2. ClaimOwn(e) => index'[e] = range[e].first
    BY <1>1, <1>4 DEF ClaimOwn, Publish
  <2>3. Steal(e) => index'[e] = range[target[e]].second - 1 /\ ~Empty(range[target[e]])
    BY <1>1, <1>4 DEF Steal, Publish
  <2>4. range[e] \in Pair /\ range[target[e]] \in Pair
    <3>1. range \in [Entry -> Pair] /\ target \in [Entry -> Entry]
      BY <1>1 DEF Typed
    <3>. QED
      BY <1>1, <3>1
  <2>5. ~(index'[e] < 0)
    BY <1>7, <2>2, <2>3, <2>4 DEF Pair, Empty
  <2>. QED
    BY <1>5, <2>1, <2>5
<1>8. CASE Exhausted(e) \/ SkipTarget(e)
  <2>1. pc' = pc /\ call' = call /\ index' = index
    BY <1>8 DEF Exhausted, SkipTarget
  <2>. QED
    BY <1>5, <2>1
<1>9. CASE Call(e)
  <2>1. launch.program[at[e]] \in TeamCall
    <3>1. at[e] \in 1..(Len(launch.program) + 1)
      BY <1>1 DEF Typed
    <3>2. Len(launch.program) \in Nat /\ launch.program \in Seq(TeamCall)
      BY <1>1, ThreadFacts, LaunchFacts
    <3>3. at[e] \in Nat /\ at[e] # 0 /\ at[e] <= Len(launch.program)
      BY <1>9, <3>1, <3>2 DEF Call
    <3>. QED
      BY <3>2, <3>3
  <2>2. call'[e] \in TeamCall
    BY <1>1, <1>3, <1>9, <2>1 DEF Call, Enter, Go
  <2>. QED
    BY <1>5, <2>2 DEF TeamCall
<1>10. CASE FanIn(e) \/ Meet(e) \/ RootActs(e) \/ Resume(e) \/ Release(e) \/ Deactivate(e)
  <2>1. call' = call /\ index' = index /\ pc[e] \in {"fan_in", "met", "release"}
    BY <1>1, <1>10, Within
  <2>2. call[e] = "index" => pc[e] # "met"
    BY <1>1 DEF SiteOf, Root, OfPool, PoolCall
  <2>. QED
    BY <1>5, <2>1, <2>2
<1>11. CASE Return(e) \/ Again(e)
  <2>1. call' = call /\ pc'[e] \in {"functor", "valid"}
    BY <1>1, <1>2, <1>11 DEF Return, Again, GoOn, Go
  <2>. QED
    BY <1>5, <2>1
<1>12. CASE TakeChunk(e)
  <2>1. pc[e] = "release" /\ call[e] = "index" /\ ~(index[e] < 0)
    BY <1>5, <1>12 DEF TakeChunk, Left
  <2>2. index[e] >= 0
    BY <1>1, <1>4, <2>1
  <2>3. GoOn(e, "release", "functor")
    BY <1>1, <1>12, <2>2 DEF TakeChunk
  <2>4. call' = call /\ pc'[e] = "functor"
    BY <1>1, <1>2, <2>3 DEF GoOn, Go
  <2>. QED
    BY <1>5, <2>1, <2>4
<1>13. CASE LastFanIn(e)
  BY <1>5, <1>13 DEF LastFanIn
<1>. QED
  BY <1>6, <1>7, <1>8, <1>9, <1>10, <1>11, <1>12, <1>13
  DEF Thread, Claim, Collective, Leave

(* Every step keeps what giving up means.                                  *)
LEMMA GaveAwayThread ==
  ASSUME Control, GaveAway, StealsFromLeads, NEW e \in Pool, Thread(e)
  PROVE  GaveAway'
<1>1. /\ Typed /\ launch' = launch /\ launch \in Launches /\ e \in Entry
  BY ThreadFacts, Others DEF Control
<1>2. SUFFICES ASSUME NEW b \in Teamed, launch.dynamic, Leads(b)
               PROVE  /\ stealing'[b] => Window(b)' = {}
                      /\ GivesUp(b)' => stealing'[b]
  <2>1. Teamed' = Teamed /\ \A b \in Teamed : Leads(b)' = Leads(b)
    BY <1>1, LaunchKept DEF Teamed
  <2>. QED
    BY <1>1, <2>1 DEF GaveAway
<1>3. b \in Pool /\ b \in Entry /\ Place(b) = 0
  BY <1>1, <1>2, TeamFacts DEF Leads
<1>4. (stealing[b] => Window(b) = {}) /\ (GivesUp(b) => stealing[b])
  BY <1>2 DEF GaveAway
<1>5. Window(b)' \subseteq Window(b)
  <2>1. CASE ClaimOwn(e) \/ Steal(e)
    BY <1>3, <2>1, WindowClaimed
  <2>2. CASE ~ClaimOwn(e) /\ ~Steal(e)
    BY <1>3, <2>2, WindowKept
  <2>. QED
    BY <2>1, <2>2
<1>6. stealing \in [Entry -> BOOLEAN]
  BY <1>1 DEF Typed
<1>7. ~Construct(e) /\ ~Exhausted(e) => stealing' = stealing
  BY DEF Thread, Loop, Valid, NotValid, NextItem, Claim, ClaimOwn, SkipTarget, Steal, NoTarget,
         Collective, Call, FanIn, Meet, RootActs, Resume, Release, Leave, Return, Again,
         TakeChunk, LastFanIn, Deactivate, claims
<1>8. CASE b # e
  <2>1. stealing'[b] = stealing[b]
    BY <1>1, <1>3, <1>6, <1>7, <1>8 DEF Construct, Exhausted
  <2>2. GivesUp(b)' <=> GivesUp(b)
    BY <1>1, <1>3, <1>8, Others DEF Untouched, GivesUp
  <2>. QED
    BY <1>4, <1>5, <2>1, <2>2
<1>9. CASE b = e /\ Construct(e)
  <2>1. ~stealing'[b]
    BY <1>1, <1>2, <1>6, <1>9, ClaimsNeedWork DEF Construct
  <2>2. call'[b] = "start"
    <3>1. call \in [Entry -> TeamCall \cup PoolCall \cup {"index", "next"}]
      BY <1>1 DEF Typed
    <3>. QED
      BY <1>1, <1>2, <1>9, <3>1 DEF Construct, Enter
  <2>. QED
    BY <2>1, <2>2 DEF GivesUp
<1>10. CASE b = e /\ Exhausted(e)
  <2>1. stealing'[b] /\ pc[b] = "claim" /\ Empty(range[b])
    BY <1>1, <1>6, <1>10 DEF Exhausted
  <2>2. Window(b) = range[b].first..(range[b].second - 1)
    BY <1>2, <2>1 DEF Window
  <2>3. range[b] \in Pair
    BY <1>1, <1>3 DEF Typed
  <2>4. Window(b) = {}
    BY <2>1, <2>2, <2>3 DEF Empty, Pair
  <2>. QED
    BY <1>5, <2>1, <2>4
<1>11. CASE b = e /\ ~Construct(e) /\ ~Exhausted(e)
  <2>1. stealing' = stealing
    BY <1>7, <1>11
  <2>2. GivesUp(b)' => stealing[b]
    <3>1. CASE GivesUp(b)
      BY <1>4, <3>1
    <3>2. CASE ~GivesUp(b) /\ GivesUp(b)'
      <4>1. NoTarget(e)
        BY <1>2, <1>11, <3>2, GivesUpSelf
      <4>. QED
        BY <1>11, <4>1 DEF NoTarget
    <3>. QED
      BY <3>1, <3>2
  <2>. QED
    BY <1>4, <1>5, <2>1, <2>2
<1>. QED
  BY <1>8, <1>9, <1>10, <1>11

(* One team after the other                                                *)
LEMMA TargetFacts ==
  ASSUME launch \in Launches, NEW t \in Pool
  PROVE  /\ FirstTarget(t) \in Pool /\ NextTarget(t) \in Pool
         /\ Alloc(launch) = launch.team /\ launch.pool = Alloc(launch) * Teams(launch)
              /\ Leads(t) => Leads(FirstTarget(t)) /\ Leads(NextTarget(t))
<1>1. /\ launch.pool \in Nat \ {0} /\ launch.team \in Nat \ {0} /\ Alloc(launch) \in Nat \ {0}
      /\ Teams(launch) \in Nat \ {0}
  BY LaunchFacts
<1>2. t \in Nat
  BY <1>1 DEF Pool, Entries
<1>3. FirstTarget(t) \in Pool /\ NextTarget(t) \in Pool
  BY <1>1, <1>2 DEF FirstTarget, NextTarget, Pool, Entries
<1>4. ASSUME Alloc(launch) = launch.team, launch.pool = Alloc(launch) * Teams(launch), Leads(t)
      PROVE  Leads(FirstTarget(t)) /\ Leads(NextTarget(t))
  <2>. DEFINE a == Alloc(launch)
              n == Teams(launch)
              q == t \div a
  <2>1. /\ q \in Nat /\ q < n /\ t = a * q
    <3>1. t \in Teamed /\ Place(t) = 0 /\ ~Idle(t)
      BY <1>4 DEF Leads, Teamed
    <3>2. q \in Nat /\ q < n /\ t = Base(t) + Place(t) /\ Base(t) \in Nat
      BY <3>1, EntryFacts
    <3>3. Base(t) = a * q
      BY DEF Base
    <3>. HIDE DEF a, q, n
    <3>. QED
      BY <3>1, <3>2, <3>3
  <2>2. a \in Nat \ {0} /\ n \in Nat \ {0} /\ launch.pool = a * n
    BY <1>1, <1>4
  <2>3. FirstTarget(t) = NextTarget(t)
    <3>1. NextTarget(t) = IF t + a < launch.pool THEN t + a ELSE 0
      BY DEF NextTarget
    <3>2. FirstTarget(t) = IF t + a >= launch.pool THEN 0 ELSE t + a
      BY <1>4 DEF FirstTarget
    <3>. HIDE DEF a
    <3>. QED
      BY <1>1, <1>2, <2>2, <3>1, <3>2
  <2>4. NextTarget(t) = IF t + a < a * n THEN t + a ELSE 0
    BY <2>2 DEF NextTarget
  <2>. HIDE DEF a, n, q
  <2>5. ASSUME NEW x \in Pool, NEW k \in Nat, k < n, x = a * k PROVE Leads(x)
    <3>1. 0 \in 0..(a - 1) /\ x = a * k + 0
      BY <2>2, <2>5
    <3>2. x \div a = k /\ x % a = 0
      BY <2>2, <3>1, Quotient
    <3>3. Place(x) = 0 /\ x \div Alloc(launch) = k /\ k < Teams(launch)
      BY <2>5, <3>2 DEF Place, a, n
    <3>4. ~Idle(x)
      BY <1>1, <3>3, EntryFacts
    <3>. QED
      BY <3>3, <3>4 DEF Leads
  <2>6. CASE t + a < a * n
    <3>1. t + a = a * (q + 1) /\ q + 1 \in Nat
      BY <2>1, <2>2
    <3>2. q + 1 < n
      <4>1. SUFFICES ASSUME n <= q + 1 PROVE FALSE
        BY <2>1, <2>2
      <4>2. n * a <= (q + 1) * a
        BY <2>1, <2>2, <4>1, Grows
      <4>3. PICK u : u = n * a
        OBVIOUS
      <4>4. PICK v : v = (q + 1) * a
        OBVIOUS
      <4>5. u = a * n /\ v = a * (q + 1) /\ u \in Nat /\ v \in Nat
        BY <2>1, <2>2, <4>3, <4>4
      <4>. QED
        BY <2>6, <3>1, <4>2, <4>3, <4>4, <4>5
    <3>. QED
      BY <1>3, <2>3, <2>4, <2>5, <2>6, <3>1, <3>2
  <2>7. CASE ~(t + a < a * n)
    <3>1. NextTarget(t) = 0 /\ 0 = a * 0 /\ 0 < n
      BY <2>2, <2>4, <2>7
    <3>. QED
      BY <1>3, <2>3, <2>5, <3>1
  <2>. QED
    BY <2>6, <2>7
<1>. QED
  BY <1>3, <1>4
(* Every step keeps thieves on leads.                                      *)
LEMMA StealsThread ==
  ASSUME Control, StealsFromLeads, StealsFromTeams(launch), NEW e \in Pool, Thread(e)
  PROVE  StealsFromLeads'
<1>1. /\ Typed /\ launch' = launch /\ launch \in Launches /\ e \in Entry /\ Pool' = Pool
  BY ThreadFacts, Others, LaunchKept DEF Control
<1>2. range \in [Entry -> Pair] /\ target \in [Entry -> Entry]
  BY <1>1 DEF Typed
<1>3. ~Construct(e) /\ ~SkipTarget(e) => target' = target
  BY DEF Thread, Loop, Valid, NotValid, NextItem, Claim, ClaimOwn, Exhausted, Steal, NoTarget,
         Collective, Call, FanIn, Meet, RootActs, Resume, Release, Leave, Return, Again,
         TakeChunk, LastFanIn, Deactivate, claims
<1>4. \A d \in Pool : /\ d \in Entry /\ FirstTarget(d) \in Pool /\ NextTarget(d) \in Pool
                      /\ (Leads(d)' <=> Leads(d))
  BY <1>1, ThreadFacts, TargetFacts, LaunchKept
<1>5. ASSUME NEW d \in Entry PROVE target'[d] \in Pool
  <2>1. target[d] \in Pool
    BY DEF StealsFromLeads
  <2>2. target'[d] = target[d] \/ (d = e /\ target'[d] \in {FirstTarget(e), NextTarget(target[e])})
    BY <1>1, <1>2, <1>3 DEF Construct, SkipTarget
  <2>3. target[e] \in Pool
    BY <1>1 DEF StealsFromLeads
  <2>. QED
    BY <1>4, <2>1, <2>2, <2>3
<1>6. ASSUME launch.left = 0, NEW d \in Pool, ~Leads(d) PROVE Empty(range[d])'
  <2>1. Empty(range[d])
    BY <1>6 DEF StealsFromLeads
  <2>2. range'[d] = range[d]
    <3>1. CASE Construct(e)
      BY <1>1, <1>2, <1>4, <1>6, <3>1 DEF Construct
    <3>2. CASE ClaimOwn(e) \/ Steal(e)
      <4>1. PICK t \in Teamed : Place(t) = 0 /\ \A b \in Entry : b # t => range'[b] = range[b]
        BY <3>2, WindowClaimed
      <4>2. t # d
        BY <1>6, <4>1 DEF Leads, Teamed
      <4>. QED
        BY <1>4, <4>1, <4>2
    <3>3. CASE ~Construct(e) /\ ~ClaimOwn(e) /\ ~Steal(e)
      BY <3>3 DEF Thread, Loop, Valid, NotValid, NextItem, Claim, Exhausted, SkipTarget, NoTarget,
         Collective, Call, FanIn, Meet, RootActs, Resume, Release, Leave, Return, Again,
         TakeChunk, LastFanIn, Deactivate, claims
    <3>. QED
      BY <3>1, <3>2, <3>3
  <2>. QED
    BY <2>1, <2>2 DEF Empty
<1>7. ASSUME launch.dynamic, launch.left > 0, NEW d \in Pool, Leads(d), pc'[d] # "wait"
      PROVE  Leads(target'[d])
  <2>1. Alloc(launch) = launch.team /\ launch.pool = Alloc(launch) * Teams(launch)
    BY <1>7 DEF StealsFromTeams
  <2>2. CASE d = e /\ Construct(e)
    <3>1. target'[d] = FirstTarget(d)
      BY <1>1, <1>2, <1>7, <2>2, ClaimsNeedWork DEF Construct
    <3>. QED
      BY <1>1, <1>7, <2>1, <3>1, TargetFacts
  <2>3. CASE d = e /\ SkipTarget(e)
    <3>1. pc[d] = "claim" /\ target'[d] = NextTarget(target[d])
      BY <1>1, <1>2, <2>3 DEF SkipTarget
    <3>2. target[d] \in Pool /\ Leads(target[d])
      BY <1>4, <1>7, <3>1 DEF StealsFromLeads
    <3>. QED
      BY <1>1, <2>1, <3>1, <3>2, TargetFacts
  <2>4. CASE d # e \/ (~Construct(e) /\ ~SkipTarget(e))
    <3>1. target'[d] = target[d]
      BY <1>1, <1>2, <1>3, <1>4, <2>4 DEF Construct, SkipTarget
    <3>2. pc[d] # "wait"
      <4>1. CASE d # e
        BY <1>1, <1>4, <1>7, <4>1, Others DEF Untouched
      <4>2. CASE d = e /\ ~Construct(e)
        BY <4>2, <1>7 DEF Thread, Loop, Valid, NotValid, NextItem, Claim, ClaimOwn, Exhausted,
          SkipTarget, Steal, NoTarget, Publish, Collective, Call, FanIn, Meet, RootActs, Resume,
          Release, Leave, Return, Again, TakeChunk, LastFanIn, Deactivate, Enter, GoOn, Go,
          FannedIn, Left
      <4>. QED
        BY <2>4, <4>1, <4>2
    <3>. QED
      BY <1>7, <3>1, <3>2 DEF StealsFromLeads
  <2>. QED
    BY <2>2, <2>3, <2>4
<1>8. \A d \in Pool : launch.dynamic /\ launch.left > 0 /\ Leads(d) /\ pc'[d] # "wait" =>
        Leads(target[d])'
  <2>1. SUFFICES ASSUME NEW d \in Pool, launch.dynamic, launch.left > 0, Leads(d),
                        pc'[d] # "wait"
                 PROVE  Leads(target[d])'
    OBVIOUS
  <2>2. PICK t : t = target'[d]
    OBVIOUS
  <2>3. t \in Pool /\ Leads(t)
    BY <1>4, <1>5, <1>7, <2>1, <2>2
  <2>4. Leads(t)'
    BY <1>4, <2>3
  <2>. QED
    BY <2>2, <2>4 DEF Leads, Idle, Place
<1>. QED
  BY <1>1, <1>4, <1>5, <1>6, <1>8 DEF StealsFromLeads

(* Every step keeps to the league.                                         *)
LEMMA InLeagueThread ==
  ASSUME Control, StealsFromLeads, InLeague, NEW e \in Pool, Thread(e)
  PROVE  InLeague'
<1>1. /\ Typed /\ launch' = launch /\ launch \in Launches /\ e \in Entry
      /\ Teamed' = Teamed /\ League' = League
      /\ \A d \in Teamed : /\ d \in Pool /\ d \in Entry /\ Base(d)' = Base(d)
                           /\ Place(d)' = Place(d)
                           /\ (Leads(d) <=> Place(d) = 0) /\ (Leads(d)' <=> Leads(d))
  <2>1. Typed /\ launch' = launch /\ launch \in Launches /\ e \in Entry
    BY ThreadFacts, Others DEF Control
  <2>. QED
    BY <2>1, LaunchKept, TeamFacts DEF Teamed, League, Leads
<1>2. /\ \A d \in Teamed : Due(d) \subseteq League
      /\ \A d \in Teamed : Running(d) => rank[d] \in League
      /\ \A d \in Teamed : Place(d) = 0 => \A c \in Window(d) : c * launch.chunk < launch.league
      /\ \A d \in Teamed : Taking(d) => index[Base(d)] * launch.chunk < launch.league
  BY <1>1 DEF InLeague
<1>3. ASSUME NEW d \in Teamed PROVE Due(d)' \subseteq League
  <2>1. CASE Keeps
    BY <1>2, <2>1 DEF Keeps, MembersKeep
  <2>2. CASE \E r \in League : Runs(e, r)
    BY <1>2, <2>2 DEF Runs, MembersKeep
  <2>3. ASSUME NEW t, Claims(e, t, index'[e]) PROVE Due(d)' \subseteq League
    <3>1. Ranks(index'[e]) \subseteq League
      BY DEF Ranks
    <3>. QED
      BY <1>2, <2>3, <3>1 DEF Claims, MembersKeep
  <2>. QED
    BY <2>1, <2>2, <2>3, LeagueSteps
<1>4. ASSUME NEW d \in Teamed, Running(d)' PROVE rank'[d] \in League
  <2>1. CASE d # e
    <3>1. Running(d) /\ rank'[d] = rank[d]
      BY <1>1, <1>4, <2>1, Others DEF Running, Untouched
    <3>. QED
      BY <1>2, <3>1
  <2>2. CASE d = e /\ TakeChunk(e)
    BY <1>4, <2>2, TakesChunk
  <2>3. CASE d = e /\ Valid(e)
    <3>1. ~TakeChunk(e)
      BY <2>3 DEF Valid, GoOn, Go, TakeChunk, Left
    <3>2. rank[e] \in Rest(e) /\ rank'[e] = rank[e] /\ ~Taking(e)
      BY <2>3, <3>1, RestSelf, ValidTakesNone
    <3>. QED
      BY <1>2, <2>3, <3>2 DEF Due
  <2>4. CASE d = e /\ ~TakeChunk(e) /\ ~Valid(e)
    <3>1. Running(e)' => Running(e) /\ rank'[e] = rank[e]
      BY <2>4, RestSelf
    <3>. QED
      BY <1>2, <1>4, <2>4, <3>1
  <2>. QED
    BY <2>1, <2>2, <2>3, <2>4
<1>5. ASSUME NEW d \in Teamed, Place(d) = 0, NEW c \in Window(d)'
      PROVE  c * launch.chunk < launch.league
  <2>1. Window(d)' \subseteq Window(d)
    <3>1. CASE ClaimOwn(e) \/ Steal(e)
      BY <1>5, <3>1, WindowClaimed
    <3>2. CASE ~ClaimOwn(e) /\ ~Steal(e)
      BY <1>5, <3>2, WindowKept
    <3>. QED
      BY <3>1, <3>2
  <2>. QED
    BY <1>2, <1>5, <2>1
<1>6. ASSUME NEW d \in Teamed, Taking(d)', NEW b, b = Base(d)
      PROVE  index'[b] * launch.chunk < launch.league
  <2>1. b \in Teamed /\ b \in Entry /\ Base(b) = b /\ Place(b) = 0
    BY <1>1, <1>6, BaseFacts
  <2>2. CASE b = e /\ pc[e] = "claim" /\ pc'[e] = "fan_in"
    <3>1. CASE ClaimOwn(e) \/ Steal(e)
      BY <1>2, <2>2, <3>1, WindowClaimed
    <3>2. CASE ~ClaimOwn(e) /\ ~Steal(e)
      <4>1. Claim(e)
        BY <2>2 DEF Thread, Loop, Construct, Valid, NotValid, NextItem, Collective, Call, FanIn,
          Meet, RootActs, Resume, Release, Leave, Return, Again, TakeChunk, LastFanIn, Deactivate,
          Enter, GoOn, Go, FannedIn, Left
      <4>2. NoTarget(e)
        BY <2>2, <3>2, <4>1 DEF Claim, Exhausted, SkipTarget
      <4>3. index'[e] = -1
        BY <1>1, <4>2 DEF NoTarget, Publish, Typed
      <4>4. launch.chunk \in Nat \ {0} /\ launch.league \in Nat
        BY <1>1, LaunchFacts
      <4>5. PICK c : c = index'[e]
        OBVIOUS
      <4>6. c * launch.chunk < launch.league
        BY <4>3, <4>4, <4>5
      <4>. QED
        BY <2>2, <4>5, <4>6
    <3>. QED
      BY <3>1, <3>2
  <2>3. CASE ~(b = e /\ pc[e] = "claim" /\ pc'[e] = "fan_in")
    <3>1. Taking(d)
      <4>1. CASE d # e
        BY <1>6, <2>3, <4>1, TakingOthers
      <4>2. CASE d = e
        <5>1. ~TakeChunk(e)
          BY <1>6, <4>2, TakesChunk
        <5>2. ~(pc[e] = "claim" /\ pc'[e] = "fan_in")
          BY <1>6, <2>3, <4>2, Publication
        <5>. QED
          BY <1>6, <4>2, <5>1, <5>2, TakingSelf
      <4>. QED
        BY <4>1, <4>2
    <3>2. index'[b] = index[b]
      <4>1. CASE b # e
        BY <1>1, <2>1, <4>1, Others
      <4>2. CASE b = e /\ Claim(e)
        <5>1. pc \in [Entry -> {"wait", "valid", "functor", "claim", "fan_in", "met", "release",
                                "done"}]
          BY <1>1 DEF Typed
        <5>. QED
          BY <1>1, <2>3, <4>2, <5>1
          DEF Claim, ClaimOwn, Exhausted, SkipTarget, Steal, NoTarget, Publish, Enter, Go
      <4>3. CASE ~Claim(e)
        BY <4>3 DEF Thread, Loop, Construct, Valid, NotValid, NextItem, Collective, Call, FanIn,
                    Meet, RootActs, Resume, Release, Leave, Return, Again, TakeChunk, LastFanIn,
                    Deactivate, claims
      <4>. QED
        BY <4>1, <4>2, <4>3
    <3>. QED
      BY <1>2, <1>6, <3>1, <3>2
  <2>. QED
    BY <2>2, <2>3
<1>7. \A d \in Teamed : Taking(d)' => (index[Base(d)] * launch.chunk < launch.league)'
  <2>1. SUFFICES ASSUME NEW d \in Teamed, Taking(d)'
                 PROVE  index'[Base(d)'] * launch'.chunk < launch'.league
    OBVIOUS
  <2>. QED
    BY <1>1, <1>6, <2>1
<1>8. \A d \in Teamed : Leads(d)' => \A c \in Window(d)' : c * launch'.chunk < launch'.league
  BY <1>1, <1>5
<1>. QED
  BY <1>1, <1>3, <1>4, <1>7, <1>8 DEF InLeague

(* Every step of a thread keeps the account.                               *)
LEMMA SharedThread ==
  ASSUME Control, Shared, StealsFromTeams(launch), NEW e \in Pool, Thread(e)
  PROVE  Shared'
<1>1. Shares /\ GaveAway /\ StealsFromLeads /\ InLeague
  BY DEF Shared
<1>2. launch' = launch /\ launch \in Launches /\ Typed
  BY Others DEF Control, Typed
<1>3. GaveAway' /\ StealsFromLeads' /\ InLeague'
  BY <1>1, GaveAwayThread, StealsThread, InLeagueThread
<1>4. ran \in [Item -> Nat]
  BY <1>2 DEF Typed
<1>5. Shares'
  BY <1>1, <1>2, <1>4, LeagueSteps, SharesKeep, SharesRun, SharesClaim
<1>. QED
  BY <1>3, <1>5 DEF Shared
(* An activation moves nobody.                                             *)
LEMMA StillSeen ==
  ASSUME Control, Activate \/ UNCHANGED vars
  PROVE  /\ launch' = launch
         /\ pc' = pc /\ call' = call /\ wi' = wi /\ rank' = rank /\ end' = end /\ at' = at
         /\ ran' = ran /\ range' = range /\ index' = index /\ target' = target
         /\ stealing' = stealing /\ scratch' = scratch /\ global' = global /\ got' = got
         /\ \A d \in Pool : Meeting(d)' = Meeting(d) /\ (Out(d)' <=> Out(d))
<1>1. /\ Typed /\ launch \in Launches /\ launch' = launch /\ mi \in 0..launch.pool
      /\ launch.pool \in Nat /\ launch.pool <= MaxThreads /\ 0 \in Pool
  BY LaunchFacts, ZeroIsRoot DEF Control, Typed, Activate, vars
<1>2. /\ pc' = pc /\ call' = call /\ wi' = wi /\ rank' = rank /\ end' = end /\ at' = at
      /\ ran' = ran /\ range' = range /\ index' = index /\ target' = target
      /\ stealing' = stealing /\ scratch' = scratch /\ global' = global /\ got' = got
      /\ \/ state' = state
         \/ mi > 0 /\ state' = [state EXCEPT ![mi - 1] = "Active"]
  BY DEF Activate, Set, values, claims, place, vars
<1>3. ASSUME NEW d \in Pool, pc[d] # "wait" PROVE state'[d] = state[d]
  <2>1. CASE state' = state
    BY <2>1
  <2>2. CASE mi > 0 /\ state' = [state EXCEPT ![mi - 1] = "Active"]
    <3>1. PICK x : x = mi - 1
      OBVIOUS
    <3>2. x \in Entry /\ x \in Pool /\ x < mi
      BY <1>1, <2>2, <3>1 DEF Pool, Entries
    <3>3. pc[x] = "wait"
      BY <3>2 DEF Control, Sites, StateOf
    <3>. QED
      BY <1>3, <2>2, <3>1, <3>3
  <2>. QED
    BY <1>2, <2>1, <2>2
<1>4. pc[0] # "met"
  BY <1>1, StageFacts
<1>5. (BeforeStart(0)' <=> BeforeStart(0)) /\ (AfterEnd(0)' <=> AfterEnd(0))
  BY <1>1, <1>2, <1>4 DEF BeforeStart, AfterEnd, Waiting
<1>6. ASSUME NEW d \in Pool PROVE Meeting(d)' = Meeting(d) /\ (Out(d)' <=> Out(d))
  <2>1. (OfPool(d)' <=> OfPool(d)) /\ (PoolOut(call[d])' <=> PoolOut(call[d]))
    BY <1>2, <1>5 DEF OfPool, PoolOut
  <2>2. Out(d)' <=> Out(d)
    BY <1>2, <1>3, <2>1 DEF Out, PoolOut
  <2>. QED
    BY <1>1, <1>2, <2>2, ViewKept DEF Untouched
<1>. QED
  BY <1>1, <1>2, <1>6

(* It gives nobody anything.                                               *)
LEMMA SharedStill ==
  ASSUME Control, Shared, Activate \/ UNCHANGED vars
  PROVE  Shared'
<1>1. /\ Typed /\ launch \in Launches /\ launch' = launch
      /\ \A d \in Pool : Meeting(d)' = Meeting(d) /\ (Out(d)' <=> Out(d))
  BY StillSeen DEF Control, Typed
<1>2. /\ pc' = pc /\ call' = call /\ wi' = wi /\ rank' = rank /\ end' = end /\ at' = at
      /\ ran' = ran /\ range' = range /\ index' = index /\ target' = target
      /\ stealing' = stealing
  BY StillSeen
<1>3. /\ Pool' = Pool /\ Teamed' = Teamed /\ League' = League
      /\ \A d \in Teamed : /\ d \in Pool /\ Base(d) \in Pool /\ Base(d)' = Base(d)
                           /\ Place(d)' = Place(d)
      /\ \A d \in Pool : Leads(d)' = Leads(d)
  BY <1>1, LaunchKept, BaseFacts DEF Teamed, League
<1>4. ASSUME NEW d \in Pool
      PROVE  (Publishes(d)' <=> Publishes(d)) /\ (Published(d)' <=> Published(d))
  BY <1>1, <1>2 DEF Publishes, Published
<1>5. ASSUME NEW d \in Teamed
      PROVE  /\ Taking(d)' <=> Taking(d)
             /\ Running(d)' <=> Running(d)
             /\ Due(d)' = Due(d)
             /\ Window(d)' = Window(d)
             /\ GivesUp(d)' <=> GivesUp(d)
  <2>1. PICK b \in Pool : b = Base(d) /\ Base(d)' = b
    BY <1>3
  <2>2. (Publishes(b)' <=> Publishes(b)) /\ (Published(b)' <=> Published(b))
    BY <1>4, <2>1
  <2>3. /\ Publishes(Base(d))' <=> Publishes(b)'
        /\ Published(Base(d))' <=> Published(b)'
    BY <2>1 DEF Publishes, Published, Out, Meeting, OfPool, PoolOut
  <2>4. Taking(d)' <=> Taking(d)
    BY <1>2, <2>1, <2>2, <2>3 DEF Taking, Inside
  <2>5. Ranks(index[Base(d)])' = Ranks(index[Base(d)])
    BY <1>1, <1>2, <2>1 DEF Ranks, League
  <2>6. Rest(d)' = Rest(d) /\ (Running(d)' <=> Running(d))
    BY <1>1, <1>2 DEF Rest, Running, Counting, LeagueBegin, LeagueEnd, LeagueRank
  <2>7. Window(d)' = Window(d)
    BY <1>1, <1>2 DEF Window, LeagueBegin, LeagueEnd, LeagueRank
  <2>8. GivesUp(d)' <=> GivesUp(d)
    BY <1>2 DEF GivesUp
  <2>. QED
    BY <2>4, <2>5, <2>6, <2>7, <2>8 DEF Due
<1>6. Shares'
  <2>1. Keeps
    BY <1>2, <1>5 DEF Keeps, MembersKeep, LeadsKeep
  <2>. QED
    BY <1>1, <2>1, SharesKeep DEF Shared
<1>7. GaveAway'
  BY <1>1, <1>2, <1>3, <1>5 DEF Shared, GaveAway
<1>8. StealsFromLeads'
  <2>1. /\ \A e \in Entry : target[e] \in Pool
        /\ launch.left = 0 => \A e \in Pool : ~Leads(e) => Empty(range[e])
        /\ launch.dynamic /\ launch.left > 0 =>
             \A e \in Pool : Leads(e) /\ pc[e] # "wait" => Leads(target[e])
    BY DEF Shared, StealsFromLeads
  <2>2. \A e \in Pool : Empty(range[e])' <=> Empty(range[e])
    BY <1>2 DEF Empty
  <2>3. \A e \in Pool : Leads(target[e])' <=> Leads(target[e])
    BY <1>1, <1>2 DEF Leads, Idle, Place
  <2>. QED
    BY <1>1, <1>2, <1>3, <2>1, <2>2, <2>3 DEF StealsFromLeads
<1>9. InLeague'
  <2>1. /\ \A e \in Teamed : Due(e) \subseteq League
        /\ \A e \in Teamed : Running(e) => rank[e] \in League
        /\ \A e \in Teamed : Leads(e) => \A c \in Window(e) : c * launch.chunk < launch.league
        /\ \A e \in Teamed : Taking(e) => index[Base(e)] * launch.chunk < launch.league
    BY DEF Shared, InLeague
  <2>2. \A e \in Teamed : index'[Base(e)'] = index[Base(e)] /\ rank'[e] = rank[e]
    BY <1>2, <1>3
  <2>. QED
    BY <1>1, <1>3, <1>5, <2>1, <2>2 DEF InLeague
<1>. QED
  BY <1>6, <1>7, <1>8, <1>9 DEF Shared

(* Every step                                                              *)
LEMMA SharedNext ==
  ASSUME Control, Shared, StealsFromTeams(launch), [Next]_vars
  PROVE  Shared'
BY SharedStill, SharedThread DEF Next

(* What the invariant is for                                               *)
LEMMA SharedOnce == Control /\ Shared => LeagueRunsOnce
<1>1. SUFFICES ASSUME Control, Shared PROVE LeagueRunsOnce
  OBVIOUS
<1>2. Typed /\ launch \in Launches /\ Item = League \X Places
  BY <1>1 DEF Control, Typed, Item, League
<1>3. ASSUME NEW e \in Pool, InFunctor(e) PROVE <<rank[e], Place(e)>> \in Item
  <2>1. SiteOf(e) /\ Running(e)
    BY <1>1, <1>3 DEF Control, Sites, InFunctor, Running
  <2>2. e \in Teamed
    BY <1>3, <2>1 DEF SiteOf, InFunctor, OfPool, PoolCall, TeamCall, Teamed
  <2>. QED
    BY <1>1, <1>2, <2>1, <2>2, TeamFacts DEF Shared, InLeague
<1>4. ASSUME NEW i \in Item PROVE ran[i] <= 1
  <2>1. PICK r \in League, p \in Places : i = <<r, p>>
    BY <1>2
  <2>2. ran[<<r, p>>] = IF \E e \in Teamed : Place(e) = p /\ Has(e, r) THEN 0 ELSE 1
    BY <1>1 DEF Shared, Shares, Counts
  <2>. QED
    BY <2>1, <2>2
<1>5. ASSUME Finished, NEW i \in Item PROVE ran[i] = 1
  <2>1. PICK r \in League, p \in Places : i = <<r, p>>
    BY <1>2
  <2>2. ran[<<r, p>>] = IF \E e \in Teamed : Place(e) = p /\ Has(e, r) THEN 0 ELSE 1
    BY <1>1 DEF Shared, Shares, Counts
  <2>3. ASSUME NEW e \in Teamed PROVE ~Has(e, r)
    <3>1. PICK b \in Teamed : b = Base(e) /\ Place(b) = 0
      BY <1>2, BaseFacts
    <3>2. pc[e] = "done" /\ pc[b] = "done"
      BY <1>5, <3>1 DEF Finished, Teamed
    <3>3. Due(e) = {}
      BY <3>1, <3>2 DEF Due, Taking, Publishes, Inside, Rest, Running, Counting
    <3>4. Window(b) = {}
      <4>1. CASE ~launch.dynamic
        BY <4>1 DEF Window
      <4>2. CASE launch.dynamic
        <5>1. SiteOf(b)
          BY <1>1, <3>1 DEF Control, Sites, Teamed
        <5>2. GivesUp(b)
          BY <3>2, <5>1 DEF SiteOf, GivesUp
        <5>. QED
          BY <1>1, <3>1, <4>2, <5>2 DEF Shared, GaveAway, Leads, Teamed
      <4>. QED
        BY <4>1, <4>2
    <3>5. Held(b) = {}
      BY <3>4 DEF Held
    <3>. QED
      BY <3>1, <3>3, <3>5 DEF Has
  <2>. QED
    BY <2>1, <2>2, <2>3
<1>. QED
  BY <1>3, <1>4, <1>5 DEF LeagueRunsOnce
-----------------------------------------------------------------------------
(* The constructors deal the league out                                    *)

(* A growing row of numbers has every number below its last in one step.   *)
LEMMA OneStep ==
  ASSUME NEW t \in Nat \ {0}, NEW G, \A k \in 0..t : G[k] \in Nat,
         \A j, k \in 0..t : j <= k => G[j] <= G[k],
         G[0] = 0, NEW x \in Nat, x < G[t]
  PROVE  \E k \in 0..(t - 1) :
           /\ G[k] <= x /\ x < G[k + 1]
           /\ \A j \in 0..(t - 1) : G[j] <= x /\ x < G[j + 1] => j = k
<1>. DEFINE S == {k \in 0..t : x < G[k]}
<1>1. PICK m \in S : \A k \in S : m <= k
  <2>1. S \in SUBSET Nat /\ t \in S
    OBVIOUS
  <2>. HIDE DEF S
  <2>. QED
    BY <2>1, LeastNumber
<1>2. m \in 0..t /\ x < G[m] /\ m # 0
  OBVIOUS
<1>3. PICK k \in 0..(t - 1) : m = k + 1
  BY <1>2
<1>4. G[k] <= x /\ x < G[k + 1]
  BY <1>1, <1>2, <1>3
<1>5. ASSUME NEW j \in 0..(t - 1), G[j] <= x, x < G[j + 1] PROVE j = k
  <2>1. j + 1 \in 0..t /\ k + 1 \in 0..t /\ j \in 0..t /\ k \in 0..t
    OBVIOUS
  <2>2. /\ G[j] \in Nat /\ G[k] \in Nat /\ G[j + 1] \in Nat /\ G[k + 1] \in Nat
    BY <2>1
  <2>3. CASE j < k
    <3>1. G[j + 1] <= G[k]
      BY <2>1, <2>3
    <3>. QED
      BY <1>4, <1>5, <2>2, <3>1
  <2>4. CASE k < j
    <3>1. G[k + 1] <= G[j]
      BY <2>1, <2>4
    <3>. QED
      BY <1>4, <1>5, <2>2, <3>1
  <2>. QED
    BY <2>3, <2>4
<1>. QED
  BY <1>4, <1>5

(* Where the part of a rank begins: an item, or the chunk of an item       *)
Cut(k) == (launch.league * k) \div Teams(launch)
Mark(k) == IF launch.dynamic THEN CeilDiv(Cut(k), launch.chunk) ELSE Cut(k)
Unit(r) == IF launch.dynamic THEN r \div launch.chunk ELSE r

(* The cuts grow with the rank.                                            *)
LEMMA MarksGrow ==
  ASSUME launch \in Launches, NEW j \in Nat, NEW k \in Nat, j <= k
  PROVE  Mark(j) \in Nat /\ Mark(k) \in Nat /\ Mark(j) <= Mark(k)
<1>1. PICK n \in Nat, t \in Nat \ {0}, c \in Nat \ {0} :
        n = launch.league /\ t = Teams(launch) /\ c = launch.chunk
  BY LaunchFacts
<1>2. n * j \in Nat /\ n * k \in Nat /\ n * j <= n * k
  <2>1. j * n <= k * n /\ j * n = n * j /\ k * n = n * k
    BY Grows
  <2>. QED
    BY <2>1
<1>3. PICK x \in Nat, y \in Nat : x = n * j /\ y = n * k /\ x <= y
  BY <1>2
<1>4. PICK a \in Nat, b \in Nat : a = x \div t /\ b = y \div t
  <2>1. x \div t \in Int /\ x \div t >= 0 /\ y \div t \in Int /\ y \div t >= 0
    BY Division
  <2>. QED
    BY <2>1
<1>5. a <= b
  <2>1. SUFFICES ASSUME b < a PROVE FALSE
    OBVIOUS
  <2>2. t * b + t <= t * a /\ t * a \in Nat /\ t * b \in Nat
    BY <2>1, MultiplesApart
  <2>3. t * a <= x /\ y < t * b + t
    BY <1>4, Division
  <2>. QED
    BY <1>3, <2>2, <2>3
<1>6. Cut(j) = a /\ Cut(k) = b
  BY <1>1, <1>3, <1>4 DEF Cut
<1>7. CeilDiv(a, c) \in Nat /\ CeilDiv(b, c) \in Nat /\ CeilDiv(a, c) <= CeilDiv(b, c)
  BY <1>5, RoundsUp, CeilDivGrows
<1>. QED
  BY <1>1, <1>5, <1>6, <1>7 DEF Mark

(* They reach from the begin of the league past its last item.             *)
LEMMA MarksEnd ==
  ASSUME launch \in Launches
  PROVE  /\ Mark(0) = 0
         /\ \A r \in League : Unit(r) \in Nat /\ Unit(r) < Mark(Teams(launch))
<1>1. PICK n \in Nat, t \in Nat \ {0}, c \in Nat \ {0} :
        n = launch.league /\ t = Teams(launch) /\ c = launch.chunk
  BY LaunchFacts
<1>2. Cut(0) = 0 /\ Cut(t) = n
  BY <1>1, Multiple DEF Cut
<1>3. CeilDiv(0, c) = 0
  <2>1. PICK q \in Nat : q = CeilDiv(0, c)
    BY RoundsUp
  <2>2. c * q < c
    BY <2>1, RoundsUp
  <2>3. q = 0
    <3>1. SUFFICES ASSUME 0 < q PROVE FALSE
      BY <2>1
    <3>2. c * 0 + c <= c * q
      BY <2>1, <3>1, MultiplesApart
    <3>. QED
      BY <2>1, <2>2, <3>2
  <2>. QED
    BY <2>1, <2>3
<1>4. Mark(0) = 0
  BY <1>1, <1>2, <1>3 DEF Mark
<1>5. ASSUME NEW r \in League PROVE Unit(r) \in Nat /\ Unit(r) < Mark(t)
  <2>1. r \in Nat /\ r < n
    BY <1>1 DEF League
  <2>2. PICK s \in Nat, q \in Nat : s = r \div c /\ q = CeilDiv(n, c)
    <3>1. r \div c \in Int /\ r \div c >= 0
      BY <2>1, Division
    <3>. QED
      BY <3>1, RoundsUp
  <2>3. c * s <= r /\ c * q >= n
    BY <2>1, <2>2, Division, RoundsUp
  <2>4. s < q
    <3>1. SUFFICES ASSUME q <= s PROVE FALSE
      BY <2>2
    <3>2. q * c <= s * c /\ q * c = c * q /\ s * c = c * s /\ c * q \in Nat /\ c * s \in Nat
      BY <2>2, <3>1, Grows
    <3>. QED
      BY <2>1, <2>3, <3>2
  <2>. QED
    BY <1>1, <1>2, <2>1, <2>2, <2>4 DEF Unit, Mark
<1>. QED
  BY <1>1, <1>4, <1>5

(* The members of a place, one to a rank                                   *)
LEMMA MemberOfRank ==
  ASSUME launch \in Launches, NEW k \in 0..(Teams(launch) - 1), NEW p \in Places
  PROVE  \E e \in Teamed : Place(e) = p /\ LeagueRank(e) = k
<1>1. PICK a \in Nat \ {0}, t \in Nat \ {0}, q \in Nat :
        a = Alloc(launch) /\ t = Teams(launch) /\ q = t - (k + 1)
  BY LaunchFacts
<1>2. p \in 0..(a - 1) /\ p < launch.team
  <2>1. PICK m \in Nat : m = launch.team /\ m <= a
    BY <1>1, LaunchFacts
  <2>2. p \in 0..(m - 1)
    BY <2>1 DEF Places
  <2>. QED
    BY <1>1, <2>1, <2>2
<1>3. a * q \in Nat /\ a * q + a <= a * t /\ a * t <= launch.pool /\ launch.pool \in Nat
  <2>1. q < t /\ a * t = t * a
    BY <1>1
  <2>. QED
    BY <1>1, <2>1, MultiplesApart, LaunchFacts
<1>4. PICK e \in Nat : e = a * q + p
  BY <1>2, <1>3
<1>5. e \div a = q /\ e % a = p
  BY <1>2, <1>4, Quotient
<1>6. e \in Pool
  BY <1>2, <1>3, <1>4 DEF Pool, Entries
<1>7. Place(e) = p /\ LeagueRank(e) = k
  BY <1>1, <1>5 DEF Place, LeagueRank
<1>8. e \in Teamed
  <2>1. e \div Alloc(launch) < Teams(launch)
    BY <1>1, <1>5
  <2>. QED
    BY <1>2, <1>6, <1>7, <2>1, EntryFacts DEF Teamed
<1>. QED
  BY <1>7, <1>8

(* Place and rank tell a member.                                           *)
LEMMA RankOfMember ==
  ASSUME launch \in Launches, NEW d \in Teamed, NEW e \in Teamed,
         Place(d) = Place(e), LeagueRank(d) = LeagueRank(e)
  PROVE  d = e
<1>1. d \in Pool /\ e \in Pool
  BY DEF Teamed
<1>2. PICK x \in Nat, y \in Nat : x = d \div Alloc(launch) /\ y = e \div Alloc(launch)
  BY <1>1, EntryFacts
<1>3. x = y
  BY <1>2, LaunchFacts DEF LeagueRank
<1>4. Base(d) = Base(e)
  BY <1>2, <1>3 DEF Base
<1>. QED
  BY <1>1, <1>4, EntryFacts

(* Who has what at first                                                   *)
LEMMA HasAtFirst ==
  ASSUME Init, NEW e \in Teamed
  PROVE  /\ ~Taking(e) /\ ~Running(e)
         /\ Due(e) = IF launch.dynamic THEN {} ELSE LeagueBegin(e)..(LeagueEnd(e) - 1)
         /\ ~launch.dynamic => Held(Base(e)) = {}
         /\ \A r \in League :
              Has(e, r) <=> /\ Mark(LeagueRank(e)) <= Unit(r)
                            /\ Unit(r) < Mark(LeagueRank(e) + 1)
<1>1. launch \in Launches
  BY DEF Init
<1>2. PICK b \in Teamed : b = Base(e) /\ Base(b) = b
  BY <1>1, BaseFacts
<1>3. /\ e \in Entry /\ b \in Entry /\ b \in Nat
      /\ LeagueRank(b) = LeagueRank(e)
  <2>1. e \in Entry /\ b \in Entry /\ b \in Nat
    BY <1>1, TeamFacts
  <2>2. 0 \in Places
    BY <1>1, LaunchFacts DEF Places
  <2>3. LeagueRank(Base(e) + 0) = LeagueRank(e)
    BY <1>1, <2>2, TeamFacts
  <2>4. Base(e) + 0 = b
    BY <1>2, <2>1
  <2>. QED
    BY <2>1, <2>3, <2>4
<1>4. pc[e] = "wait" /\ pc[b] = "wait" /\ call[e] = "start" /\ call[b] = "start"
  BY <1>3 DEF Init
<1>5. ~Taking(e) /\ ~Running(e) /\ ~Counting(e)
  BY <1>2, <1>4 DEF Taking, Publishes, Inside, Running, Counting
<1>6. Due(e) = IF launch.dynamic THEN {} ELSE LeagueBegin(e)..(LeagueEnd(e) - 1)
  BY <1>4, <1>5 DEF Due, Rest
<1>7. PICK k \in Nat : k = LeagueRank(e) /\ k + 1 \in Nat
  BY <1>1, LeagueFacts
<1>8. LeagueBegin(e) = Cut(k) /\ LeagueEnd(e) = Cut(k + 1)
      /\ LeagueBegin(b) = Cut(k) /\ LeagueEnd(b) = Cut(k + 1)
  BY <1>3, <1>7 DEF Cut, LeagueBegin, LeagueEnd
<1>9. CASE ~launch.dynamic
  <2>1. Held(Base(e)) = {}
    BY <1>9 DEF Held, Window
  <2>2. Cut(k) \in Nat /\ Cut(k + 1) \in Nat
    BY <1>1, <1>8, LeagueFacts
  <2>3. ASSUME NEW r \in League
        PROVE  Has(e, r) <=> Mark(k) <= Unit(r) /\ Unit(r) < Mark(k + 1)
    <3>1. r \in Int
      BY DEF League
    <3>2. Has(e, r) <=> r \in Cut(k)..(Cut(k + 1) - 1)
      BY <1>6, <1>8, <1>9, <2>1 DEF Has
    <3>. QED
      BY <1>9, <2>2, <3>1, <3>2 DEF Mark, Unit
  <2>. QED
    BY <1>5, <1>6, <1>7, <2>1, <2>3
<1>10. CASE launch.dynamic
  <2>1. Mark(k) = FirstChunk(LeagueBegin(b), launch.chunk)
    BY <1>8, <1>10 DEF Mark, FirstChunk
  <2>2. Mark(k + 1) = LastChunk(LeagueBegin(b), LeagueEnd(b), launch.chunk)
    <3>1. CASE LeagueEnd(b) > 0
      BY <1>8, <1>10, <3>1 DEF Mark, LastChunk
    <3>2. CASE ~(LeagueEnd(b) > 0)
      <4>1. Cut(k) = 0 /\ Cut(k + 1) = 0
        BY <1>1, <1>8, <3>2, LeagueFacts
      <4>. QED
        BY <1>8, <1>10, <3>2, <4>1 DEF Mark, LastChunk, FirstChunk
    <3>. QED
      BY <3>1, <3>2
  <2>3. Window(b) = Mark(k)..(Mark(k + 1) - 1)
    BY <1>4, <1>10, <2>1, <2>2 DEF Window
  <2>4. Mark(k) \in Nat /\ Mark(k + 1) \in Nat
    BY <1>1, MarksGrow
  <2>5. ASSUME NEW r \in League
        PROVE  Has(e, r) <=> Mark(k) <= Unit(r) /\ Unit(r) < Mark(k + 1)
    <3>1. Unit(r) \in Nat
      BY <1>1, MarksEnd
    <3>2. Has(e, r) <=> r \in Held(b)
      BY <1>2, <1>6, <1>10 DEF Has
    <3>3. r \in Held(b) <=> Unit(r) \in Window(b)
      BY <1>10 DEF Held, Unit
    <3>. QED
      BY <2>3, <2>4, <3>1, <3>2, <3>3
  <2>. QED
    BY <1>5, <1>6, <1>7, <1>10, <2>5
<1>. QED
  BY <1>9, <1>10 DEF Init

(* Before the first step the account is right.                             *)
LEMMA SharedInit == Init => Shared
<1>1. SUFFICES ASSUME Init PROVE Shared
  OBVIOUS
<1>2. launch \in Launches /\ 0 \in Pool
  <2>1. launch \in Launches
    BY <1>1 DEF Init
  <2>. QED
    BY <2>1, LaunchFacts DEF Pool, Entries
<1>3. ASSUME NEW e \in Entry
      PROVE  /\ pc[e] = "wait" /\ call[e] = "start" /\ target[e] = 0 /\ ~stealing[e]
             /\ range[e].first = 0 /\ range[e].second = launch.left
  BY <1>1 DEF Init
<1>4. \A e \in Teamed : e \in Pool /\ e \in Entry /\ Place(e) \in Places
  BY <1>2, TeamFacts
<1>5. ASSUME NEW d \in Teamed, NEW e \in Teamed, NEW r \in League,
             Place(d) = Place(e), Has(d, r), Has(e, r)
      PROVE  d = e
  <2>1. PICK x \in 0..(Teams(launch) - 1), y \in 0..(Teams(launch) - 1) :
          x = LeagueRank(d) /\ y = LeagueRank(e)
    BY <1>2, LeagueFacts
  <2>2. /\ Mark(x) <= Unit(r) /\ Unit(r) < Mark(x + 1)
        /\ Mark(y) <= Unit(r) /\ Unit(r) < Mark(y + 1)
    BY <1>1, <1>5, <2>1, HasAtFirst
  <2>3. Unit(r) \in Nat /\ x \in Nat /\ y \in Nat
    BY <1>2, MarksEnd
  <2>4. ~(x < y)
    <3>1. SUFFICES ASSUME x + 1 <= y PROVE FALSE
      BY <2>3
    <3>2. Mark(x + 1) \in Nat /\ Mark(y) \in Nat /\ Mark(x + 1) <= Mark(y)
      BY <1>2, <2>3, <3>1, MarksGrow
    <3>. QED
      BY <2>2, <2>3, <3>2
  <2>5. ~(y < x)
    <3>1. SUFFICES ASSUME y + 1 <= x PROVE FALSE
      BY <2>3
    <3>2. Mark(y + 1) \in Nat /\ Mark(x) \in Nat /\ Mark(y + 1) <= Mark(x)
      BY <1>2, <2>3, <3>1, MarksGrow
    <3>. QED
      BY <2>2, <2>3, <3>2
  <2>6. x = y
    BY <2>3, <2>4, <2>5
  <2>. QED
    BY <1>2, <1>5, <2>1, <2>6, RankOfMember
<1>6. ASSUME NEW r \in League, NEW p \in Places
      PROVE  \E e \in Teamed : Place(e) = p /\ Has(e, r)
  <2>1. PICK t \in Nat \ {0} : t = Teams(launch)
    BY <1>2, LaunchFacts
  <2>2. PICK G : G = [k \in 0..t |-> Mark(k)]
    OBVIOUS
  <2>3. \A k \in 0..t : k \in Nat /\ G[k] = Mark(k)
    BY <2>1, <2>2
  <2>4. \A k \in 0..t : G[k] \in Nat
    BY <1>2, <2>3, MarksGrow
  <2>5. \A j, k \in 0..t : j <= k => G[j] <= G[k]
    BY <1>2, <2>3, MarksGrow
  <2>6. G[0] = 0 /\ G[t] = Mark(t)
    BY <1>2, <2>1, <2>3, MarksEnd
  <2>7. Unit(r) \in Nat /\ Unit(r) < G[t]
    BY <1>2, <2>1, <2>6, MarksEnd
  <2>8. PICK k \in 0..(t - 1) : G[k] <= Unit(r) /\ Unit(r) < G[k + 1]
    BY <2>1, <2>4, <2>5, <2>6, <2>7, OneStep
  <2>9. k \in 0..t /\ k + 1 \in 0..t
    BY <2>1
  <2>10. PICK e \in Teamed : Place(e) = p /\ LeagueRank(e) = k
    BY <1>2, <2>1, MemberOfRank
  <2>11. Has(e, r)
    BY <1>1, <2>3, <2>8, <2>9, <2>10, HasAtFirst
  <2>. QED
    BY <2>10, <2>11
<1>7. Shares
  <2>1. OneHas
    BY <1>5 DEF OneHas
  <2>2. DueOrHeld
    BY <1>1, HasAtFirst DEF DueOrHeld
  <2>3. Counts
    <3>1. \A r \in League : \A p \in Places : ran[<<r, p>>] = 0
      BY <1>1 DEF Init, Item, League
    <3>. QED
      BY <1>6, <3>1 DEF Counts
  <2>. QED
    BY <2>1, <2>2, <2>3 DEF Shares
<1>8. GaveAway
  BY <1>3, <1>4 DEF GaveAway, GivesUp
<1>9. StealsFromLeads
  <2>1. \A e \in Pool : e \in Entry
    BY <1>2, EntryFacts
  <2>2. \A e \in Entry : target[e] \in Pool
    BY <1>2, <1>3
  <2>3. launch.left = 0 => \A e \in Pool : ~Leads(e) => Empty(range[e])
    BY <1>3, <2>1 DEF Empty
  <2>. QED
    BY <1>3, <2>1, <2>2, <2>3 DEF StealsFromLeads
<1>10. ASSUME NEW e \in Teamed PROVE Due(e) \subseteq League
  <2>1. CASE launch.dynamic
    BY <1>1, <2>1, HasAtFirst
  <2>2. CASE ~launch.dynamic
    <3>1. Due(e) = LeagueBegin(e)..(LeagueEnd(e) - 1)
      BY <1>1, <2>2, HasAtFirst
    <3>2. LeagueBegin(e) \in Nat /\ LeagueEnd(e) \in Nat /\ LeagueEnd(e) <= launch.league
          /\ launch.league \in Nat
      BY <1>2, LeagueFacts, LaunchFacts
    <3>. QED
      BY <3>1, <3>2 DEF League
  <2>. QED
    BY <2>1, <2>2
<1>11. ASSUME NEW e \in Teamed, NEW c \in Window(e)
       PROVE  c * launch.chunk < launch.league
  <2>1. PICK b \in Nat, f \in Nat, n \in Nat, h \in Nat \ {0} :
          /\ b = LeagueBegin(e) /\ f = LeagueEnd(e) /\ n = launch.league /\ h = launch.chunk
          /\ b <= f /\ f <= n
    BY <1>2, LeagueFacts, LaunchFacts
  <2>2. c \in FirstChunk(b, h)..(LastChunk(b, f, h) - 1)
    BY <1>3, <1>4, <1>11, <2>1 DEF Window
  <2>3. f > 0
    <3>1. SUFFICES ASSUME f = 0 PROVE FALSE
      BY <2>1
    <3>2. PICK x \in Nat : x = CeilDiv(b, h)
      BY <2>1, RoundsUp
    <3>3. c \in x..(x - 1)
      BY <2>2, <3>1, <3>2 DEF LastChunk, FirstChunk
    <3>. QED
      BY <3>3
  <2>4. PICK x \in Nat, y \in Nat : x = CeilDiv(b, h) /\ y = CeilDiv(f, h)
    BY <2>1, RoundsUp
  <2>5. c \in x..(y - 1)
    BY <2>2, <2>3, <2>4 DEF FirstChunk, LastChunk
  <2>6. h * c \in Nat /\ h * y \in Nat /\ h * c + h <= h * y /\ h * c = c * h
    BY <2>4, <2>5, MultiplesApart
  <2>7. h * y < f + h
    BY <2>1, <2>4, RoundsUp
  <2>. QED
    BY <2>1, <2>6, <2>7
<1>12. InLeague
  BY <1>1, <1>10, <1>11, HasAtFirst DEF InLeague
<1>. QED
  BY <1>7, <1>8, <1>9, <1>12 DEF Shared

(* THE LEAGUE IS RUN ONCE.  In every launch whose trees agree and whose    *)
(* thieves look at pairs of leads, every member of a team runs each item   *)
(* its team was given, no item is given to two teams or to one team twice, *)
(* and when all threads are done none is left: the division of the league  *)
(* by the constructors, the claims and the steals of get_work_index, the   *)
(* chunk a lead hands its team through the fan_in of the index, and the    *)
(* ends of valid_* and next_* together.                                    *)
THEOREM LeagueIsRunOnce ==
  ASSUME \A l \in Launches : TreesAgree(l) /\ StealsFromTeams(l)
  PROVE  Spec => []LeagueRunsOnce
<1>1. Init => Control /\ Shared
  BY ControlInit, SharedInit
<1>2. Control /\ Shared /\ [Next]_vars => (Control /\ Shared)'
  <2>1. SUFFICES ASSUME Control, Shared, [Next]_vars PROVE Control' /\ Shared'
    OBVIOUS
  <2>2. launch \in Launches
    BY <2>1 DEF Control, Typed
  <2>3. TreesAgree(launch) /\ StealsFromTeams(launch)
    BY <2>2
  <2>4. Control'
    BY <2>1, <2>3, ControlNext
  <2>5. Shared'
    BY <2>1, <2>3, SharedNext
  <2>. QED
    BY <2>4, <2>5
<1>3. Control /\ Shared => LeagueRunsOnce
  BY SharedOnce
<1>. QED
  BY <1>1, <1>2, <1>3, PTL DEF Spec

-----------------------------------------------------------------------------
(* The results of the collectives                                          *)

(* Programs call what is sound, and broadcasts come from a member.         *)
CallsAreSound(l) ==
  /\ l.source < l.team
  /\ \A k \in 1..(Len(l.program) - 1) : Sound(l.program[k], l.program[k + 1])

(* A member is in a call of its functor, and its lead has acted there: it  *)
(* has joined the contributions, and left the results.                     *)
Calling(e) == pc[e] \in {"fan_in", "met", "release"} /\ call[e] \in TeamCall
Acted(e) == Inside(e) /\ (Out(Base(e)) <=> Meeting(Base(e)) = Meeting(e))

(* What members contribute to the a-th call of an item r, and what one of  *)
(* them is to get from it                                                  *)
Parts(r, a, ds) == {<<r, a, d>> : d \in ds}
Sends(d) == launch.team - (Place(d) + 1) = launch.source
Exact(e, r, a, c, B) ==
  /\ c \in {"reduce", "join"} => B = SetToBag(Parts(r, a, TeamOf(e)))
  /\ c = "broadcast" => B = SetToBag(Parts(r, a, {d \in TeamOf(e) : Sends(d)}))
  /\ c = "scan" => BagToSet(B) \cap Parts(r, a, TeamOf(e)) = Parts(r, a, {d \in TeamOf(e) : d > e})

(* Before the lead acts a member's contribution is in its place; after it, *)
(* the result is where the member reads it, until it does.                 *)
Contributed(e) ==
  /\ call[e] \in {"reduce", "join", "scan"} => scratch[e] = Contribution(e)
  /\ call[e] = "broadcast" /\ Sends(e) => scratch[Base(e)] = Contribution(e)
Answered(e) == Exact(e, rank[e], at[e], call[e], Result(e))
Received(e) == at[e] > 1 => Exact(e, rank[e], at[e] - 1, launch.program[at[e] - 1], got[e])
Results == \A e \in Teamed :
  /\ Calling(e) => IF Acted(e) THEN Answered(e) ELSE Contributed(e)
  /\ pc[e] = "functor" => Received(e)
Bags ==
  /\ scratch = [e \in Entry |-> scratch[e]] /\ got = [e \in Entry |-> got[e]]
  /\ \A e \in Entry : IsABag(scratch[e]) /\ IsABag(got[e])
  /\ IsABag(global)

(* A member has passed the k-th call of its item, or its lead has for it.  *)
Passed(e, k) == k < at[e] \/ (k = at[e] /\ Calling(e) /\ Acted(e))

(* An item is run by one member of a place, who has not been at it before. *)
RunByOne ==
  /\ \A e \in Teamed : Running(e) => ran[<<rank[e], Place(e)>>] > 0
  /\ \A d, e \in Teamed :
       Running(d) /\ Running(e) /\ rank[d] = rank[e] /\ Place(d) = Place(e) => d = e

(* The global amount has what members contributed to the scans they passed,*)
(* once each, and everything contributed to items that were run.           *)
Added(r, k, d) == <<r, k, d>> \in BagToSet(global)
AddedOnce ==
  /\ \A x \in BagToSet(global) :
       /\ global[x] = 1 /\ \E r \in League, k \in Scans, d \in Teamed : x = <<r, k, d>>
  /\ \A r \in League, k \in Scans, d \in Teamed : Added(r, k, d) => ran[<<r, Place(d)>>] > 0
  /\ \A r \in League, k \in Scans, d, e \in Teamed :
       Added(r, k, d) /\ Added(r, k, e) /\ Place(d) = Place(e) => d = e
AddedByPassing ==
  \A r \in League, k \in Scans, d, e \in Teamed :
    Added(r, k, d) /\ Running(e) /\ rank[e] = r /\ Place(e) = Place(d) => d = e /\ Passed(e, k)
AllAdded ==
  \A r \in League, k \in Scans, p \in Places : ran[<<r, p>>] > 0 =>
    \E d \in Teamed :
      /\ Place(d) = p
      /\ Added(r, k, d) \/ (Running(d) /\ rank[d] = r /\ ~Passed(d, k))
Account == RunByOne /\ AddedOnce /\ AddedByPassing /\ AllAdded

Exactly == Results /\ Bags /\ Account

-----------------------------------------------------------------------------
(* When the lead acts                                                      *)

(* The meeting of a member that is in a call, and the one after.           *)
LEMMA CallMeets ==
  ASSUME Typed, NEW e \in Pool, SiteOf(e), Calling(e)
  PROVE  /\ Meeting(e) = <<call[e], rank[e], at[e], end[e]>>
         /\ Heading(e) = InItem(rank[e], at[e] + 1, end[e])
         /\ Heading(e) # Meeting(e)
         /\ at[e] \in Nat /\ at[e] <= Len(launch.program) /\ call[e] = launch.program[at[e]]
         /\ call[e] \in TeamCall /\ ~OfPool(e) /\ e \in Teamed
<1>1. call[e] \in TeamCall /\ pc[e] \in {"fan_in", "met", "release"}
  BY DEF Calling
<1>2. at[e] \in Nat
  BY ThreadFacts
<1>3. Meeting(e) = <<call[e], rank[e], at[e], end[e]>>
  BY <1>1, MeetingKinds
<1>4. Heading(e) = InItem(rank[e], at[e] + 1, end[e])
  <2>1. PICK m : m = Meeting(e)
    OBVIOUS
  <2>2. m[1] \in TeamCall /\ m[2] = rank[e] /\ m[3] = at[e] /\ m[4] = end[e]
    BY <1>1, <1>3, <2>1
  <2>3. After(m, index[Base(e)]) = InItem(m[2], m[3] + 1, m[4])
    BY <2>2 DEF After, TeamCall
  <2>. QED
    BY <2>1, <2>2, <2>3 DEF Heading
<1>5. Heading(e)[3] = at[e] + 1 \/ Heading(e)[1] \in {"next", "end"}
  BY <1>4 DEF InItem
<1>6. "next" \notin TeamCall /\ "end" \notin TeamCall
  BY DEF TeamCall
<1>7. Heading(e) # Meeting(e)
  <2>1. SUFFICES ASSUME Heading(e) = Meeting(e) PROVE FALSE
    OBVIOUS
  <2>2. Meeting(e)[3] = at[e] /\ Meeting(e)[1] = call[e]
    BY <1>3
  <2>. QED
    BY <1>1, <1>2, <1>5, <1>6, <2>1, <2>2
<1>8. ~OfPool(e)
  BY <1>1 DEF OfPool, TeamCall, PoolCall
<1>9. e \in Teamed /\ at[e] <= Len(launch.program) /\ call[e] = launch.program[at[e]]
  BY <1>1, <1>8 DEF SiteOf, Teamed
<1>. QED
  BY <1>1, <1>2, <1>3, <1>4, <1>7, <1>8, <1>9

(* The lead of a team is the root of its calls, and waits for no one.      *)
LEMMA LeadCalls ==
  ASSUME Control, NEW b \in Teamed, Place(b) = 0, Calling(b)
  PROVE  /\ pc[b] # "met" /\ (Acted(b) <=> pc[b] = "release") /\ (Out(b) <=> pc[b] = "release")
<1>1. Typed /\ b \in Pool /\ SiteOf(b) /\ launch \in Launches
  BY DEF Control, Sites, Teamed, Typed
<1>2. ~OfPool(b) /\ Base(b) = b
  BY <1>1, CallMeets, BaseFacts
<1>3. Root(b)
  BY <1>2 DEF Root
<1>4. pc[b] # "met"
  BY <1>1, <1>3 DEF SiteOf
<1>. QED
  BY <1>2, <1>4 DEF Acted, Inside, Out, Calling

(* Another member in its functor heads for the call a member is in that    *)
(* its lead has not acted in, or for what comes after the one it has.      *)
LEMMA FunctorMeets ==
  ASSUME Control, NEW e \in Teamed, Calling(e), NEW f \in Teamed, Base(f) = Base(e),
         pc[f] = "functor"
  PROVE  Meeting(f) = IF Acted(e) THEN Heading(e) ELSE Meeting(e)
<1>. DEFINE b == Base(e)
<1>1. /\ Typed /\ e \in Pool /\ SiteOf(e) /\ launch \in Launches /\ b \in Teamed
      /\ With(e, b) /\ With(f, b) /\ Base(b) = b /\ Base(f) = b
  BY BaseFacts DEF Control, Sites, Teamed, Typed, Together
<1>2. ~Inside(f) /\ ~Out(f)
  BY DEF Inside, Out
<1>3. CASE Out(b)
  <2>1. Meeting(f) = Heading(b)
    BY <1>1, <1>2, <1>3 DEF With
  <2>2. CASE Acted(e)
    <3>1. Meeting(e) = Meeting(b)
      BY <1>3, <2>2 DEF Acted
    <3>. QED
      BY <1>1, <2>1, <2>2, <3>1 DEF Heading
  <2>3. CASE ~Acted(e)
    <3>1. Meeting(e) = Heading(b)
      BY <1>1, <1>3, <2>3 DEF With, Acted
    <3>. QED
      BY <2>1, <2>3, <3>1
  <2>. QED
    BY <2>2, <2>3
<1>4. CASE ~Out(b)
  <2>1. Meeting(f) = Meeting(b)
    BY <1>1, <1>2, <1>4 DEF With
  <2>2. CASE Acted(e)
    BY <1>1, <1>4, <2>1, <2>2 DEF With, Acted
  <2>3. CASE ~Acted(e)
    BY <1>1, <1>4, <2>1, <2>3 DEF With, Acted
  <2>. QED
    BY <2>2, <2>3
<1>. QED
  BY <1>3, <1>4

(* A member leaves a call when its lead has acted.                         *)
LEMMA LeavesActed ==
  ASSUME Control, NEW e \in Teamed, Calling(e), pc[e] = "release"
  PROVE  Acted(e)
<1>. DEFINE b == Base(e)
<1>1. /\ Typed /\ e \in Pool /\ SiteOf(e) /\ launch \in Launches /\ b \in Teamed /\ With(e, b)
  BY BaseFacts DEF Control, Sites, Teamed, Typed, Together
<1>2. Out(e) /\ Inside(e)
  BY DEF Out, Inside
<1>3. Heading(e) # Meeting(e)
  BY <1>1, CallMeets
<1>. QED
  BY <1>1, <1>2, <1>3 DEF With, Acted

(* A member that goes into a call has not seen its lead act there.         *)
LEMMA ActsBefore ==
  ASSUME Control, NEW e \in Teamed, Calling(e), NEW b \in Teamed, b = Base(e)
  PROVE  /\ Inside(e) \/ ~(Out(b) <=> Meeting(b) = Meeting(e))
         /\ Meeting(b) = Meeting(e) => Heading(b) # Meeting(e)
<1>1. /\ Typed /\ e \in Pool /\ SiteOf(e) /\ With(e, b) /\ Base(b) = b
  BY BaseFacts DEF Control, Sites, Teamed, Typed, Together
<1>2. Heading(e) # Meeting(e)
  BY <1>1, CallMeets
<1>3. Meeting(b) = Meeting(e) => Heading(b) = Heading(e)
  BY <1>1 DEF Heading
<1>. QED
  BY <1>1, <1>2, <1>3 DEF With

(* What a lead's team sees of it decides whether it has acted.             *)
LEMMA ActedSeen ==
  ASSUME Control, launch' = launch, NEW e \in Teamed, Calling(e), NEW b \in Teamed, b = Base(e),
         Meeting(e)' = Meeting(e), Meeting(b)' = Meeting(b), Out(b)' <=> Out(b),
         Inside(e) => Inside(e)', Inside(e)' => Inside(e) \/ ~(Out(b) <=> Meeting(b) = Meeting(e))
  PROVE  Acted(e)' <=> Acted(e)
<1>1. Base(e)' = b /\ e \in Pool
  BY LaunchKept DEF Teamed
<1>2. Acted(e) <=> Inside(e) /\ (Out(b) <=> Meeting(b) = Meeting(e))
  BY DEF Acted
<1>3. Acted(e)' <=> Inside(e)' /\ (Out(b)' <=> Meeting(b)' = Meeting(e)')
  <2>1. Out(Base(e))' <=> Out(b)'
    BY <1>1 DEF Out, OfPool, PoolOut
  <2>2. Meeting(Base(e))' = Meeting(b)'
    BY <1>1 DEF Meeting, AtValid, InItem, LeagueBegin, LeagueEnd, LeagueRank
  <2>. QED
    BY <2>1, <2>2 DEF Acted
<1>. QED
  BY <1>2, <1>3

(* A member in a call neither acts in a barrier of the pool nor is it      *)
(* there when the root does.                                               *)
LEMMA CallsOutside ==
  ASSUME Control, NEW e \in Teamed, Calling(e), NEW f \in Pool, RootActs(f), f # e
  PROVE  ~OfPool(f)
<1>1. SUFFICES ASSUME OfPool(f) PROVE FALSE
  OBVIOUS
<1>2. f = 0 /\ pc[0] = "fan_in" /\ wi[0] >= Fans(0) /\ call[0] \in {"start", "end"}
  <2>1. f = 0
    BY <1>1 DEF RootActs, Root
  <2>2. pc[f] = "fan_in" /\ wi[f] >= Fans(f) /\ call[f] \in {"start", "end"}
    BY <1>1 DEF RootActs, FannedIn, OfPool, PoolCall
  <2>. QED
    BY <2>1, <2>2
<1>3. e \in Pool /\ e # 0
  BY <1>2 DEF Teamed
<1>4. Meets(e, call[0])
  BY <1>2, <1>3, PoolWaits
<1>. QED
  BY <1>2, <1>4 DEF Meets, Calling, TeamCall

(* A step of another thread that is not its lead's act in this call leaves *)
(* a member where it is.                                                   *)
LEMMA ActedByOthers ==
  ASSUME Control, NEW f \in Pool, Thread(f), NEW e \in Teamed, e # f, Calling(e),
         ~(RootActs(f) /\ f = Base(e) /\ Calling(f))
  PROVE  Acted(e)' <=> Acted(e)
<1>0. PICK b \in Teamed : b = Base(e)
  BY BaseFacts DEF Control, Typed
<1>1. /\ Typed /\ launch' = launch /\ launch \in Launches /\ e \in Pool /\ e \in Entry
      /\ SiteOf(e) /\ SiteOf(f) /\ b = Base(e) /\ b \in Pool /\ Base(b) = b /\ Place(b) = 0
      /\ SiteOf(b) /\ With(e, b) /\ Untouched(e)
  BY <1>0, ThreadFacts, BaseFacts, Others DEF Control, Sites, Teamed, Typed, Together
<1>2. Meeting(e)' = Meeting(e) /\ (Inside(e)' <=> Inside(e))
  BY <1>1, ViewKept
<1>3. ~(RootActs(f) /\ OfPool(f))
  BY CallsOutside
<1>4. CASE f # b
  <2>1. Release(f) /\ ~OfPool(f) => b # Released(f, wi[f])
    <3>1. SUFFICES ASSUME Release(f), ~OfPool(f), b = Released(f, wi[f]) PROVE FALSE
      OBVIOUS
    <3>2. f \in Teamed /\ b = FanChild(f, wi[f]) /\ wi[f] \in TeamFan(f)
      <4>1. pc[f] = "release" /\ wi[f] < Releases(f) /\ wi[f] \in Nat
        BY <1>1, <3>1, ThreadFacts DEF Release
      <4>2. f \in Teamed
        BY <1>1, <3>1, <4>1 DEF SiteOf, Teamed
      <4>3. Releases(f) = TeamFans(f) /\ TeamFans(f) \in Nat
        BY <1>1, <3>1, <4>2, TeamTree DEF Releases, Fans, TeamFans
      <4>. QED
        BY <3>1, <4>1, <4>2, <4>3 DEF Released, TeamFan
    <3>3. Place(b) # 0
      BY <1>1, <3>2, TeamTree
    <3>. QED
      BY <1>1, <3>3
  <2>2. Seen(b)
    BY <1>1, <1>3, <1>4, <2>1, SeenOthers
  <2>. QED
    BY <1>1, <1>2, <2>2, ActedSeen DEF Seen
<1>5. CASE f = b /\ ~RootActs(f) /\ ~Leaving(f)
  <2>1. Seen(b)
    BY <1>1, <1>5, SeenSelf
  <2>. QED
    BY <1>1, <1>2, <2>1, ActedSeen DEF Seen
<1>6. CASE f = b /\ RootActs(f)
  <2>1. pc[b] = "fan_in" /\ ~OfPool(b) /\ wi[b] >= Fans(b) /\ ~Calling(b)
    BY <1>1, <1>3, <1>6 DEF RootActs, FannedIn
  <2>2. Sits(b, e)
    BY <1>1, <1>6, <2>1, TeamWaits
  <2>3. Meeting(e)[1] = call[e] /\ Meeting(b)[1] = call[b] /\ call[e] \in TeamCall
    BY <1>1, <2>1, MeetingKinds DEF Calling
  <2>4. call[b] \in TeamCall
    BY <2>2, <2>3 DEF Sits
  <2>. QED
    BY <2>1, <2>4 DEF Calling
<1>7. CASE f = b /\ Leaving(f)
  <2>1. Leaves(b)
    BY <1>1, <1>7, Leave1 DEF Leaving
  <2>2. Out(b) /\ ~Out(b)' /\ Meeting(b)' = Heading(b)
    BY <2>1 DEF Leaves, Out
  <2>3. Base(e)' = b
    BY <1>1, LaunchKept
  <2>4. Acted(e) <=> Inside(e) /\ Meeting(b) = Meeting(e)
    BY <1>1, <2>2 DEF Acted
  <2>5. Acted(e)' <=> Inside(e)' /\ Meeting(b)' # Meeting(e)'
    <3>1. Out(Base(e))' <=> Out(b)'
      BY <2>3 DEF Out, OfPool, PoolOut
    <3>2. Meeting(Base(e))' = Meeting(b)'
      BY <2>3 DEF Meeting, AtValid, InItem, LeagueBegin, LeagueEnd, LeagueRank
    <3>. QED
      BY <2>2, <3>1, <3>2 DEF Acted
  <2>6. Meeting(b) = Meeting(e) => Heading(b) # Meeting(e)
    BY <1>1, ActsBefore
  <2>7. Meeting(b) = Meeting(e) \/ Heading(b) = Meeting(e)
    BY <1>1, <2>2 DEF With
  <2>. QED
    BY <1>2, <2>2, <2>4, <2>5, <2>6, <2>7
<1>. QED
  BY <1>4, <1>5, <1>6, <1>7

(* Nor does a member's own step, but for the lead's act.                   *)
LEMMA ActedBySelf ==
  ASSUME Control, NEW e \in Teamed, Thread(e), Calling(e), ~RootActs(e), ~Return(e)
  PROVE  /\ Acted(e)' <=> Acted(e)
         /\ Calling(e)' /\ Running(e)' /\ pc'[e] # "functor"
         /\ call' = call /\ rank' = rank /\ at' = at
<1>0. PICK b \in Teamed : b = Base(e)
  BY BaseFacts DEF Control, Typed
<1>1. /\ Typed /\ launch' = launch /\ launch \in Launches /\ e \in Pool /\ e \in Entry
      /\ SiteOf(e) /\ b = Base(e) /\ b \in Pool /\ Base(b) = b /\ Place(b) = 0
      /\ call[e] \in TeamCall /\ pc[e] \in {"fan_in", "met", "release"} /\ ~OfPool(e)
  BY <1>0, ThreadFacts, BaseFacts, Others, CallMeets DEF Control, Sites, Teamed, Typed, Calling
<1>2. FanIn(e) \/ Meet(e) \/ Resume(e) \/ Release(e)
  BY <1>1
  DEF Thread, Loop, Construct, Valid, NotValid, NextItem, Claim, ClaimOwn, Exhausted, SkipTarget,
    Steal, NoTarget, Publish, Collective, Call, Leave, Again, TakeChunk, LastFanIn, Deactivate,
    Enter, GoOn, Go, TeamCall
<1>3. /\ call' = call /\ Meeting(e)' = Meeting(e) /\ pc'[e] \in {"fan_in", "met", "release"}
      /\ Inside(e) => Inside(e)'
      /\ FanIn(e) => Inside(e)' = Inside(e)
  BY <1>1, <1>2, Within DEF Inside
<1>4. rank' = rank /\ at' = at
  BY <1>2 DEF FanIn, Meet, Resume, Release, place
<1>5. Inside(e)' => Inside(e) \/ ~(Out(b) <=> Meeting(b) = Meeting(e))
  BY <1>1, ActsBefore
<1>6. (Out(b)' <=> Out(b)) /\ Meeting(b)' = Meeting(b)
  <2>1. CASE b = e
    <3>1. ~Leaving(e)
      BY <1>1 DEF Leaving, Again, TakeChunk, LastFanIn, TeamCall
    <3>2. Seen(e)
      BY <3>1, SeenSelf
    <3>. QED
      BY <2>1, <3>2 DEF Seen
  <2>2. CASE b # e
    <3>1. Release(e) => b # Released(e, wi[e])
      <4>1. SUFFICES ASSUME Release(e), b = Released(e, wi[e]) PROVE FALSE
        OBVIOUS
      <4>2. wi[e] < Releases(e) /\ wi[e] \in Nat
        BY <1>1, <4>1, ThreadFacts DEF Release
      <4>3. Releases(e) = TeamFans(e) /\ TeamFans(e) \in Nat
        BY <1>1, TeamTree DEF Releases, Fans, TeamFans
      <4>4. b = FanChild(e, wi[e]) /\ wi[e] \in TeamFan(e)
        BY <1>1, <4>1, <4>2, <4>3 DEF Released, TeamFan
      <4>5. Place(b) # 0
        BY <1>1, <4>4, TeamTree
      <4>. QED
        BY <1>1, <4>5
    <3>2. Seen(b)
      BY <1>1, <2>2, <3>1, SeenOthers
    <3>. QED
      BY <3>2 DEF Seen
  <2>. QED
    BY <2>1, <2>2
<1>7. Acted(e)' <=> Acted(e)
  BY <1>1, <1>3, <1>5, <1>6, ActedSeen
<1>8. Calling(e)' /\ Running(e)' /\ pc'[e] # "functor"
  BY <1>1, <1>3 DEF Calling, Running
<1>. QED
  BY <1>3, <1>4, <1>7, <1>8

-----------------------------------------------------------------------------
(* The steps of a member from call to call                                 *)

(* Other steps leave a member where it is.                                 *)
Steady(e) ==
  /\ Calling(e)' <=> Calling(e)
  /\ Calling(e) => (Acted(e)' <=> Acted(e))
  /\ pc'[e] = "functor" <=> pc[e] = "functor"
  /\ Running(e) => rank'[e] = rank[e] /\ at'[e] = at[e] /\ call'[e] = call[e]

(* It comes to an item.                                                    *)
Begins(e) == Valid(e) \/ (TakeChunk(e) /\ pc'[e] = "functor")

LEMMA SteadyOthers ==
  ASSUME Control, NEW f \in Pool, Thread(f), NEW e \in Teamed, e # f,
         ~(RootActs(f) /\ f = Base(e) /\ Calling(f))
  PROVE  Steady(e)
<1>1. Typed /\ Untouched(e)
  BY ThreadFacts, Others DEF Control, Typed, Teamed
<1>2. Calling(e)' <=> Calling(e)
  BY <1>1 DEF Calling, Untouched
<1>3. Calling(e) => (Acted(e)' <=> Acted(e))
  BY ActedByOthers
<1>. QED
  BY <1>1, <1>2, <1>3 DEF Steady, Untouched

LEMMA SteadySelf ==
  ASSUME Control, NEW e \in Teamed, Thread(e), ~(RootActs(e) /\ Calling(e)),
         ~Call(e), ~Return(e), ~NextItem(e), ~Begins(e)
  PROVE  Steady(e)
<1>1. CASE Calling(e)
  <2>1. /\ Acted(e)' <=> Acted(e)
        /\ Calling(e)' /\ pc'[e] # "functor"
        /\ call' = call /\ rank' = rank /\ at' = at
    BY <1>1, ActedBySelf
  <2>. QED
    BY <1>1, <2>1 DEF Steady, Calling
<1>2. CASE pc[e] = "functor"
  BY <1>2
  DEF Thread, Loop, Construct, Valid, NotValid, Claim, ClaimOwn, Exhausted, SkipTarget, Steal,
    NoTarget, Publish, Collective, FanIn, Meet, RootActs, Resume, Release, Leave, Again, TakeChunk,
    LastFanIn, Deactivate, FannedIn, Left, Enter, GoOn, Go
<1>3. CASE ~Calling(e) /\ pc[e] # "functor"
  <2>1. ~Running(e)
    BY <1>3 DEF Running, Calling
  <2>2. ~Running(e)'
    <3>1. CASE TakeChunk(e)
      <4>1. Typed /\ e \in Entry
        BY ThreadFacts DEF Control, Teamed
      <4>2. Enter(e, "release", "end")
        BY <3>1, <4>1 DEF TakeChunk, Begins, GoOn, Go, Typed
      <4>3. call'[e] = "end" /\ pc'[e] = "fan_in"
        BY <4>1, <4>2 DEF Enter, Go, Typed
      <4>. QED
        BY <4>3 DEF Running, TeamCall
    <3>2. CASE ~TakeChunk(e)
      <4>1. ~Valid(e)
        BY DEF Begins
      <4>2. e \in Pool
        BY DEF Teamed
      <4>. QED
        BY <2>1, <3>2, <4>1, RestSelf
    <3>. QED
      BY <3>1, <3>2
  <2>. QED
    BY <1>3, <2>1, <2>2 DEF Steady, Running, Calling
<1>. QED
  BY <1>1, <1>2, <1>3

(* The other steps but the calls write no value.                           *)
LEMMA ValuesKept ==
  ASSUME Control, NEW f \in Pool, Thread(f), ~Call(f), ~(RootActs(f) /\ Calling(f))
  PROVE  scratch' = scratch /\ global' = global /\ (~Return(f) => got' = got)
<1>1. CASE RootActs(f)
  <2>1. call[f] \notin TeamCall
    BY <1>1 DEF RootActs, FannedIn, Calling
  <2>2. Joined(f) = scratch
    BY <2>1 DEF Joined, TeamCall
  <2>3. global' = global
    BY <1>1, <2>1 DEF RootActs, TeamCall
  <2>. QED
    BY <1>1, <2>2, <2>3 DEF RootActs, place
<1>2. CASE ~RootActs(f)
  BY <1>2
  DEF Thread, Loop, Construct, Valid, NotValid, NextItem, Claim, ClaimOwn, Exhausted, SkipTarget,
    Steal, NoTarget, ClaimStep, Collective, FanIn, Meet, Resume, Release, Leave, Return, Again,
    TakeChunk, LastFanIn, Deactivate, values, place
<1>. QED
  BY <1>1, <1>2

(* A member calls.                                                         *)
LEMMA Calls ==
  ASSUME Control, NEW f \in Pool, Call(f)
  PROVE  /\ f \in Teamed /\ pc[f] = "functor" /\ ~Calling(f) /\ Running(f) /\ Running(f)'
         /\ Calling(f)' /\ ~Acted(f)' /\ pc'[f] # "functor"
         /\ at[f] \in 1..Len(launch.program) /\ call'[f] = launch.program[at[f]]
         /\ call'[f] \in TeamCall
         /\ rank' = rank /\ at' = at /\ global' = global /\ got' = got /\ ran' = ran
<1>1. /\ Typed /\ f \in Entry /\ SiteOf(f) /\ launch \in Launches
      /\ at[f] \in 1..(Len(launch.program) + 1) /\ launch.program \in Seq(TeamCall)
  BY ThreadFacts, LaunchFacts DEF Control, Sites, Typed
<1>2. pc[f] = "functor" /\ pc'[f] = "fan_in" /\ call'[f] = launch.program[at[f]]
  BY <1>1 DEF Call, Enter, Go, Typed
<1>3. at[f] \in 1..Len(launch.program)
  BY <1>1 DEF Call
<1>4. call'[f] \in TeamCall
  BY <1>1, <1>2, <1>3, ProgramCall
<1>5. f \in Teamed
  BY <1>1, <1>2 DEF SiteOf, Teamed
<1>6. ~Calling(f) /\ Running(f) /\ Running(f)' /\ Calling(f)' /\ ~Acted(f)'
  BY <1>2, <1>4 DEF Calling, Running, Acted, Inside
<1>. QED
  BY <1>2, <1>3, <1>4, <1>5, <1>6 DEF Call, place

(* It returns, and its lead has acted.                                     *)
LEMMA Returns ==
  ASSUME Control, NEW f \in Pool, Return(f)
  PROVE  /\ f \in Teamed /\ Calling(f) /\ Acted(f) /\ ~Calling(f)' /\ pc'[f] = "functor"
         /\ Running(f) /\ Running(f)'
         /\ at[f] \in 1..Len(launch.program) /\ call[f] = launch.program[at[f]]
         /\ at'[f] = at[f] + 1 /\ rank' = rank /\ ran' = ran
         /\ got'[f] = (IF call[f] = "barrier" THEN EmptyBag ELSE Result(f)) \/ f \notin DOMAIN got
         /\ scratch' = scratch /\ global' = global
<1>1. /\ Typed /\ f \in Entry /\ SiteOf(f) /\ at[f] \in 1..(Len(launch.program) + 1)
  BY ThreadFacts DEF Control, Sites, Typed
<1>2. Calling(f) /\ pc[f] = "release"
  BY DEF Return, Left, Calling
<1>3. f \in Teamed /\ at[f] \in 1..Len(launch.program) /\ call[f] = launch.program[at[f]]
  BY <1>1, <1>2, CallMeets
<1>4. pc'[f] = "functor" /\ at'[f] = at[f] + 1
  BY <1>1 DEF Return, GoOn, Go, Typed
<1>5. ~Calling(f)' /\ Running(f) /\ Running(f)'
  BY <1>2, <1>4 DEF Calling, Running
<1>6. Acted(f)
  BY <1>2, <1>3, LeavesActed
<1>. QED
  BY <1>2, <1>3, <1>4, <1>5, <1>6 DEF Return, values

(* Its lead acts.                                                          *)
LEMMA LeadActs ==
  ASSUME Control, NEW f \in Pool, RootActs(f), Calling(f)
  PROVE  /\ f \in Teamed /\ Place(f) = 0 /\ Base(f) = f /\ call[f] = launch.program[at[f]]
         /\ at[f] \in 1..Len(launch.program)
         /\ call' = call /\ rank' = rank /\ at' = at /\ got' = got /\ ran' = ran
         /\ \A d \in Teamed : Base(d) = f =>
              /\ Calling(d) /\ ~Acted(d) /\ Calling(d)' /\ Acted(d)'
              /\ pc[d] # "functor" /\ pc'[d] # "functor" /\ Running(d)'
              /\ call[d] = call[f] /\ rank[d] = rank[f] /\ at[d] = at[f]
<1>1. /\ Typed /\ f \in Entry /\ SiteOf(f) /\ launch \in Launches
      /\ at[f] \in 1..(Len(launch.program) + 1) /\ launch' = launch
  BY ThreadFacts DEF Control, Sites, Typed, RootActs
<1>2. /\ Meeting(f) = <<call[f], rank[f], at[f], end[f]>> /\ ~OfPool(f) /\ f \in Teamed
      /\ at[f] \in 1..Len(launch.program) /\ call[f] = launch.program[at[f]]
      /\ call[f] \in TeamCall
  BY <1>1, CallMeets
<1>3. /\ Place(f) = 0 /\ pc[f] = "fan_in" /\ wi[f] >= Fans(f) /\ pc'[f] = "release"
      /\ call' = call /\ rank' = rank /\ at' = at /\ got' = got /\ ran' = ran /\ end' = end
  BY <1>1, <1>2 DEF RootActs, FannedIn, Root, Go, Typed, place
<1>4. Base(f) = f /\ Base(f)' = f
  BY <1>1, <1>2, <1>3, BaseFacts, LaunchKept
<1>5. Thread(f)
  BY DEF Thread, Collective
<1>6. Out(f)' /\ ~Out(f) /\ Meeting(f)' = Meeting(f)
  BY <1>1, <1>3, Within DEF Out
<1>7. ASSUME NEW d \in Teamed, Base(d) = f
      PROVE  /\ Calling(d) /\ ~Acted(d) /\ Calling(d)' /\ Acted(d)'
             /\ pc[d] # "functor" /\ pc'[d] # "functor" /\ Running(d)'
             /\ call[d] = call[f] /\ rank[d] = rank[f] /\ at[d] = at[f]
  <2>1. d \in Pool /\ SiteOf(d) /\ Base(d)' = f
    BY <1>1, <1>7, LaunchKept DEF Control, Sites, Teamed
  <2>2. CASE d = f
    <3>1. ~Inside(f) /\ Inside(f)'
      BY <1>3 DEF Inside
    <3>2. Acted(f)'
      BY <1>4, <1>6, <3>1 DEF Acted, Out, OfPool, PoolOut, Meeting
    <3>3. Calling(f)' /\ Running(f)'
      BY <1>2, <1>3 DEF Calling, Running
    <3>. QED
      BY <1>3, <2>2, <3>1, <3>2, <3>3 DEF Acted
  <2>3. CASE d # f
    <3>1. Sits(f, d)
      BY <1>2, <1>3, <1>4, <1>7, <2>3, TeamWaits
    <3>2. pc[d] = "met" /\ Meeting(d) = Meeting(f)
      BY <3>1 DEF Sits, Waiting
    <3>3. Meeting(d)[1] = call[d]
      BY <1>1, <2>1, <3>2, MeetingKinds
    <3>4. call[d] = call[f] /\ Calling(d)
      BY <1>2, <3>2, <3>3 DEF Calling
    <3>5. Meeting(d) = <<call[d], rank[d], at[d], end[d]>>
      BY <1>1, <2>1, <3>4, CallMeets
    <3>6. rank[d] = rank[f] /\ at[d] = at[f]
      BY <1>2, <3>2, <3>5
    <3>7. Untouched(d)
      BY <1>1, <1>5, <2>1, <2>3, ThreadFacts, Others
    <3>8. Meeting(d)' = Meeting(d) /\ pc'[d] = "met" /\ call'[d] = call[d]
      BY <1>1, <2>1, <3>2, <3>7, ViewKept
    <3>9. ~Acted(d)
      BY <1>6, <1>7, <3>2 DEF Acted
    <3>10. Acted(d)'
      <4>1. Out(Base(d))' <=> Out(f)'
        BY <2>1 DEF Out, OfPool, PoolOut
      <4>2. Meeting(Base(d))' = Meeting(f)'
        BY <2>1 DEF Meeting, AtValid, InItem, LeagueBegin, LeagueEnd, LeagueRank
      <4>. QED
        BY <1>6, <3>2, <3>8, <4>1, <4>2 DEF Acted, Inside
    <3>11. Calling(d)' /\ Running(d)'
      BY <1>2, <3>4, <3>8 DEF Calling, Running
    <3>. QED
      BY <3>2, <3>4, <3>6, <3>8, <3>9, <3>10, <3>11
  <2>. QED
    BY <2>2, <2>3
<1>. QED
  BY <1>2, <1>3, <1>4, <1>7

-----------------------------------------------------------------------------
(* The results                                                             *)

(* They are read off a member's own state, and that of its team.           *)
LEMMA TeamKept ==
  ASSUME launch' = launch, NEW e \in Teamed
  PROVE  /\ Base(e)' = Base(e) /\ Place(e)' = Place(e) /\ TeamOf(e)' = TeamOf(e)
         /\ \A d \in TeamOf(e) : d \in Teamed /\ Base(d) = Base(e) /\ (Sends(d)' <=> Sends(d))
         /\ {d \in TeamOf(e) : Sends(d)}' = {d \in TeamOf(e) : Sends(d)}
<1>1. Pool' = Pool /\ Base(e)' = Base(e) /\ Place(e)' = Place(e)
  BY LaunchKept DEF Teamed
<1>2. \A d \in Pool : Idle(d)' = Idle(d) /\ Base(d)' = Base(d) /\ Place(d)' = Place(d)
  BY LaunchKept
<1>3. TeamOf(e)' = TeamOf(e)
  BY <1>1, <1>2 DEF TeamOf
<1>4. \A d \in TeamOf(e) : d \in Teamed /\ Base(d) = Base(e) /\ (Sends(d)' <=> Sends(d))
  BY <1>2 DEF TeamOf, Teamed, Sends
<1>. QED
  BY <1>1, <1>3, <1>4

LEMMA ExactKept ==
  ASSUME launch' = launch, NEW e \in Teamed, NEW r, NEW a, NEW c, NEW B
  PROVE  Exact(e, r, a, c, B)' <=> Exact(e, r, a, c, B)
BY TeamKept DEF Exact, Parts

LEMMA AnsweredIs ==
  ASSUME launch' = launch, NEW e \in Teamed, NEW B, B = Result(e)'
  PROVE  Answered(e)' <=> Exact(e, rank'[e], at'[e], call'[e], B)
<1>1. PICK r : r = rank'[e]
  OBVIOUS
<1>2. PICK a : a = at'[e]
  OBVIOUS
<1>3. PICK c : c = call'[e]
  OBVIOUS
<1>4. Answered(e)' <=> Exact(e, r, a, c, B)'
  BY <1>1, <1>2, <1>3 DEF Answered, Exact, Parts
<1>. QED
  BY <1>1, <1>2, <1>3, <1>4, ExactKept

LEMMA ReceivedIs ==
  ASSUME launch' = launch, NEW e \in Teamed, NEW B, B = got'[e]
  PROVE  Received(e)' <=>
           (at'[e] > 1 => Exact(e, rank'[e], at'[e] - 1, launch.program[at'[e] - 1], B))
<1>1. PICK r : r = rank'[e]
  OBVIOUS
<1>2. PICK a : a = at'[e] - 1
  OBVIOUS
<1>3. PICK c : c = launch.program[at'[e] - 1]
  OBVIOUS
<1>4. Received(e)' <=> (at'[e] > 1 => Exact(e, r, a, c, B)')
  BY <1>1, <1>2, <1>3 DEF Received, Exact, Parts
<1>. QED
  BY <1>1, <1>2, <1>3, <1>4, ExactKept

LEMMA ContributedIs ==
  ASSUME launch' = launch, NEW e \in Teamed
  PROVE  Contributed(e)' <=>
           /\ call'[e] \in {"reduce", "join", "scan"} =>
                scratch'[e] = SetToBag({<<rank'[e], at'[e], e>>})
           /\ call'[e] = "broadcast" /\ Sends(e) =>
                scratch'[Base(e)] = SetToBag({<<rank'[e], at'[e], e>>})
<1>1. Base(e)' = Base(e) /\ Place(e)' = Place(e)
  BY TeamKept
<1>2. Sends(e)' <=> Sends(e)
  BY <1>1 DEF Sends
<1>. QED
  BY <1>1, <1>2 DEF Contributed, Contribution

(* A member whose values are not written has them still.                   *)
LEMMA ResultsStay ==
  ASSUME launch \in Launches, launch' = launch, Results, NEW e \in Teamed, Steady(e),
         got'[e] = got[e],
         Calling(e) => scratch'[e] = scratch[e] /\ scratch'[Base(e)] = scratch[Base(e)]
  PROVE  /\ Calling(e)' => IF Acted(e)' THEN Answered(e)' ELSE Contributed(e)'
         /\ (pc[e] = "functor")' => Received(e)'
<1>1. /\ Calling(e) => IF Acted(e) THEN Answered(e) ELSE Contributed(e)
      /\ pc[e] = "functor" => Received(e)
  BY DEF Results
<1>2. ASSUME pc'[e] = "functor" PROVE Received(e)'
  <2>1. pc[e] = "functor" /\ Running(e)
    BY <1>2 DEF Steady, Running
  <2>2. rank'[e] = rank[e] /\ at'[e] = at[e]
    BY <2>1 DEF Steady
  <2>3. PICK B : B = got'[e]
    OBVIOUS
  <2>4. at[e] > 1 => Exact(e, rank[e], at[e] - 1, launch.program[at[e] - 1], B)
    BY <1>1, <2>1, <2>3 DEF Received
  <2>. QED
    BY <2>2, <2>3, <2>4, ReceivedIs
<1>3. ASSUME Calling(e)' PROVE IF Acted(e)' THEN Answered(e)' ELSE Contributed(e)'
  <2>1. Calling(e) /\ Running(e) /\ (Acted(e)' <=> Acted(e))
    BY <1>3 DEF Steady, Running, Calling
  <2>2. rank'[e] = rank[e] /\ at'[e] = at[e] /\ call'[e] = call[e]
    BY <2>1 DEF Steady
  <2>3. scratch'[e] = scratch[e] /\ scratch'[Base(e)] = scratch[Base(e)]
    BY <2>1
  <2>4. CASE Acted(e)
    <3>1. PICK B : B = Result(e)'
      OBVIOUS
    <3>2. Result(e)' = Result(e)
      <4>1. Base(e)' = Base(e)
        BY TeamKept
      <4>. QED
        BY <2>2, <2>3, <4>1 DEF Result
    <3>3. Exact(e, rank[e], at[e], call[e], B)
      BY <1>1, <2>1, <2>4, <3>1, <3>2 DEF Answered
    <3>4. Answered(e)'
      BY <2>2, <3>1, <3>3, AnsweredIs
    <3>. QED
      BY <2>1, <2>4, <3>4
  <2>5. CASE ~Acted(e)
    <3>1. Contributed(e)
      BY <1>1, <2>1, <2>5
    <3>2. Contributed(e)'
      BY <2>2, <2>3, <3>1, ContributedIs DEF Contributed, Contribution
    <3>. QED
      BY <2>1, <2>5, <3>2
  <2>. QED
    BY <2>4, <2>5
<1>. QED
  BY <1>2, <1>3

(* Only one member of a team sends.                                        *)
LEMMA OneSends ==
  ASSUME launch \in Launches, NEW d \in Teamed, NEW e \in Teamed, Base(d) = Base(e),
         Place(d) = Place(e) \/ (Sends(d) /\ Sends(e))
  PROVE  d = e
<1>1. /\ Place(d) \in Nat /\ Place(e) \in Nat /\ launch.team \in Nat /\ launch.source \in Nat
      /\ d = Base(d) + Place(d) /\ e = Base(e) + Place(e)
  BY TeamFacts, LaunchFacts DEF Places
<1>2. Place(d) = Place(e)
  BY <1>1 DEF Sends
<1>. QED
  BY <1>1, <1>2

(* A member's call writes nothing that another one still needs.            *)
LEMMA CallSpares ==
  ASSUME Control, CallsAreSound(launch), NEW f \in Teamed, Call(f), NEW e \in Teamed, e # f,
         Calling(e), Base(e) = Base(f)
  PROVE  IF Acted(e) THEN Sound(call[e], call'[f])
         ELSE call'[f] = call[e]
<1>1. /\ Typed /\ e \in Pool /\ f \in Pool /\ SiteOf(e) /\ SiteOf(f)
  BY DEF Control, Sites, Teamed
<1>2. /\ pc[f] = "functor" /\ at[f] \in 1..Len(launch.program)
      /\ call'[f] = launch.program[at[f]] /\ call'[f] \in TeamCall
  BY <1>1, Calls
<1>3. /\ Meeting(e) = <<call[e], rank[e], at[e], end[e]>>
      /\ Heading(e) = InItem(rank[e], at[e] + 1, end[e])
      /\ at[e] \in Nat /\ at[e] <= Len(launch.program) /\ call[e] = launch.program[at[e]]
  BY <1>1, CallMeets
<1>4. Meeting(f) = <<call'[f], rank[f], at[f], end[f]>>
  BY <1>2 DEF Meeting, InItem
<1>5. Meeting(f) = IF Acted(e) THEN Heading(e) ELSE Meeting(e)
  BY <1>2, FunctorMeets
<1>6. CASE ~Acted(e)
  <2>1. Meeting(f)[1] = Meeting(e)[1]
    BY <1>5, <1>6
  <2>. QED
    BY <1>3, <1>4, <1>6, <2>1
<1>7. CASE Acted(e)
  <2>1. Heading(e) = <<call'[f], rank[f], at[f], end[f]>>
    BY <1>4, <1>5, <1>7
  <2>2. at[e] + 1 <= Len(launch.program)
    <3>1. SUFFICES ASSUME ~(at[e] + 1 <= Len(launch.program)) PROVE FALSE
      OBVIOUS
    <3>2. Heading(e)[1] \in {"next", "end"}
      BY <1>3, <3>1 DEF InItem
    <3>. QED
      BY <1>2, <2>1, <3>2 DEF TeamCall
  <2>3. Heading(e) = <<launch.program[at[e] + 1], rank[e], at[e] + 1, end[e]>>
    BY <1>3, <2>2 DEF InItem
  <2>4. call'[f] = launch.program[at[e] + 1]
    BY <2>1, <2>3
  <2>5. at[e] \in 1..(Len(launch.program) - 1)
    <3>1. at[e] \in 1..(Len(launch.program) + 1)
      BY <1>1, ThreadFacts DEF Typed
    <3>. QED
      BY <1>3, <2>2, <3>1
  <2>6. Sound(launch.program[at[e]], launch.program[at[e] + 1])
    BY <2>5 DEF CallsAreSound
  <2>. QED
    BY <1>3, <1>7, <2>4, <2>6
<1>. QED
  BY <1>6, <1>7

(* Where a call writes                                                     *)
LEMMA CallWrites ==
  ASSUME Control, Bags, NEW f \in Pool, Call(f), NEW x \in Entry
  PROVE  scratch'[x] =
           IF \/ call'[f] \in {"reduce", "join", "scan"} /\ x = f
              \/ call'[f] = "broadcast" /\ Sends(f) /\ x = Base(f)
             THEN Contribution(f) ELSE scratch[x]
<1>1. DOMAIN scratch = Entry
  BY DEF Bags
<1>2. CASE call'[f] \in {"reduce", "join", "scan"}
  <2>1. scratch' = [scratch EXCEPT ![f] = Contribution(f)]
    BY <1>2 DEF Call
  <2>. QED
    BY <1>1, <1>2, <2>1
<1>3. CASE call'[f] = "broadcast" /\ Sends(f)
  <2>1. scratch' = [scratch EXCEPT ![Base(f)] = Contribution(f)]
    BY <1>3 DEF Call, Sends
  <2>. QED
    BY <1>1, <1>3, <2>1
<1>4. CASE call'[f] \notin {"reduce", "join", "scan"} /\ ~(call'[f] = "broadcast" /\ Sends(f))
  <2>1. scratch' = scratch
    BY <1>4 DEF Call, Sends
  <2>. QED
    BY <1>4, <2>1
<1>. QED
  BY <1>2, <1>3, <1>4

(* A call leaves the results that were, and its own contribution.          *)
LEMMA ResultsCall ==
  ASSUME Control, CallsAreSound(launch), Results, Bags, NEW f \in Pool, Call(f)
  PROVE  Results'
<1>1. /\ Typed /\ launch \in Launches /\ launch' = launch /\ Thread(f) /\ Teamed' = Teamed
      /\ ~RootActs(f)
  <2>1. Thread(f) /\ launch' = launch
    BY DEF Thread, Collective, Call
  <2>2. ~RootActs(f)
    BY DEF Call, Enter, Go, RootActs
  <2>. QED
    BY <2>1, <2>2, LaunchKept DEF Control, Typed
<1>2. /\ f \in Teamed /\ ~Acted(f)' /\ pc'[f] # "functor" /\ call'[f] \in TeamCall
      /\ rank' = rank /\ at' = at /\ got' = got
  BY Calls
<1>3. SUFFICES ASSUME NEW e \in Teamed
               PROVE  /\ Calling(e)' => IF Acted(e)' THEN Answered(e)' ELSE Contributed(e)'
                      /\ (pc[e] = "functor")' => Received(e)'
  BY <1>1 DEF Results
<1>4. CASE e = f
  <2>1. f \in Entry /\ Base(f) \in Entry
    BY <1>1, <1>2, TeamFacts, BaseFacts
  <2>2. Contribution(f) = SetToBag({<<rank[f], at[f], f>>})
    BY DEF Contribution
  <2>3. /\ call'[f] \in {"reduce", "join", "scan"} => scratch'[f] = Contribution(f)
        /\ call'[f] = "broadcast" /\ Sends(f) => scratch'[Base(f)] = Contribution(f)
    BY <2>1, CallWrites
  <2>4. Contributed(f)'
    BY <1>1, <1>2, <2>2, <2>3, ContributedIs
  <2>. QED
    BY <1>2, <1>4, <2>4
<1>5. CASE e # f
  <2>1. Steady(e)
    BY <1>1, <1>5, SteadyOthers
  <2>2. e \in Entry /\ Base(e) \in Entry /\ Base(f) \in Entry /\ f \in Entry
    BY <1>1, <1>2, TeamFacts, BaseFacts
  <2>3. CASE ~Calling(e) \/ Base(e) # Base(f)
    <3>1. Calling(e) => e # Base(f) /\ Base(e) # f /\ Base(e) # Base(f)
      BY <1>1, <1>2, <2>3, BaseFacts
    <3>2. Calling(e) => scratch'[e] = scratch[e] /\ scratch'[Base(e)] = scratch[Base(e)]
      BY <1>5, <2>2, <3>1, CallWrites
    <3>. QED
      BY <1>1, <1>2, <2>1, <3>2, ResultsStay
  <2>4. CASE Calling(e) /\ Base(e) = Base(f)
    <3>1. PICK b \in Entry : b = Base(e)
      BY <2>2
    <3>2. /\ call[e] \in TeamCall
          /\ Calling(e)' /\ ~(pc'[e] = "functor") /\ (Acted(e)' <=> Acted(e))
          /\ rank'[e] = rank[e] /\ at'[e] = at[e] /\ call'[e] = call[e]
      BY <2>1, <2>4 DEF Steady, Running, Calling
    <3>3. IF Acted(e) THEN Sound(call[e], call'[f]) ELSE call'[f] = call[e]
      BY <1>2, <1>5, <2>4, CallSpares
    <3>4. IF Acted(e) THEN Answered(e) ELSE Contributed(e)
      BY <2>4 DEF Results
    <3>6. CASE Acted(e)
      <4>1. PICK B : B = Result(e)'
        OBVIOUS
      <4>2. Base(e)' = b
        BY <1>1, <3>1, TeamKept
      <4>3. call[e] # "barrier" => Result(e)' = Result(e)
        <5>1. SUFFICES ASSUME call[e] # "barrier" PROVE Result(e)' = Result(e)
          OBVIOUS
        <5>2. CASE call'[f] = "barrier"
          <6>1. scratch'[b] = scratch[b] /\ scratch'[e] = scratch[e]
            BY <2>2, <3>1, <5>2, CallWrites
          <6>. QED
            BY <3>1, <3>2, <4>2, <6>1 DEF Result
        <5>3. CASE call'[f] # "barrier"
          <6>1. call[e] \in {"join", "scan"} /\ call'[f] # "broadcast"
            BY <3>3, <3>6, <5>1, <5>3 DEF Sound
          <6>2. scratch'[e] = scratch[e]
            BY <1>5, <2>2, <6>1, CallWrites
          <6>. QED
            BY <3>2, <6>1, <6>2 DEF Result
        <5>. QED
          BY <5>2, <5>3
      <4>4. Exact(e, rank[e], at[e], call[e], B)
        <5>1. CASE call[e] = "barrier"
          BY <5>1 DEF Exact
        <5>2. CASE call[e] # "barrier"
          BY <3>4, <3>6, <4>1, <4>3, <5>2 DEF Answered
        <5>. QED
          BY <5>1, <5>2
      <4>5. Answered(e)'
        BY <1>1, <3>2, <4>1, <4>4, AnsweredIs
      <4>. QED
        BY <3>2, <3>6, <4>5
    <3>7. CASE ~Acted(e)
      <4>1. call'[f] = call[e] /\ Contributed(e)
        BY <3>3, <3>4, <3>7
      <4>2. call[e] \in {"reduce", "join", "scan"} => scratch'[e] = scratch[e]
        BY <1>5, <2>2, <4>1, CallWrites
      <4>3. call[e] = "broadcast" /\ Sends(e) => scratch'[b] = scratch[b]
        <5>1. Sends(e) => ~Sends(f)
          BY <1>1, <1>2, <1>5, <2>4, OneSends
        <5>. QED
          BY <4>1, <5>1, CallWrites
      <4>4. Contributed(e)'
        BY <1>1, <3>1, <3>2, <4>1, <4>2, <4>3, ContributedIs DEF Contributed, Contribution
      <4>. QED
        BY <3>2, <3>7, <4>4
    <3>. QED
      BY <3>6, <3>7
  <2>. QED
    BY <2>3, <2>4
<1>. QED
  BY <1>4, <1>5

(* A return takes the result.                                              *)
LEMMA ResultsReturn ==
  ASSUME Control, Results, Bags, NEW f \in Pool, Return(f)
  PROVE  Results'
<1>1. /\ Typed /\ launch \in Launches /\ launch' = launch /\ Thread(f) /\ Teamed' = Teamed
      /\ ~RootActs(f)
  <2>1. Thread(f) /\ launch' = launch
    BY DEF Thread, Leave, Return
  <2>2. ~RootActs(f)
    BY DEF Return, Left, RootActs, FannedIn
  <2>. QED
    BY <2>1, <2>2, LaunchKept DEF Control, Typed
<1>2. /\ f \in Teamed /\ Calling(f) /\ Acted(f) /\ ~Calling(f)' /\ pc'[f] = "functor"
      /\ at[f] \in 1..Len(launch.program) /\ call[f] = launch.program[at[f]]
      /\ at'[f] = at[f] + 1 /\ rank' = rank /\ scratch' = scratch
  BY Returns
<1>3. f \in Entry /\ DOMAIN got = Entry
  BY <1>1, <1>2, TeamFacts DEF Bags
<1>4. SUFFICES ASSUME NEW e \in Teamed
               PROVE  /\ Calling(e)' => IF Acted(e)' THEN Answered(e)' ELSE Contributed(e)'
                      /\ (pc[e] = "functor")' => Received(e)'
  BY <1>1 DEF Results
<1>5. CASE e = f
  <2>1. PICK B : B = got'[f]
    OBVIOUS
  <2>2. Exact(f, rank[f], at[f], call[f], B)
    <3>1. CASE call[f] = "barrier"
      BY <3>1 DEF Exact
    <3>2. CASE call[f] # "barrier"
      <4>1. B = Result(f)
        BY <1>3, <2>1, <3>2, Returns
      <4>. QED
        BY <1>2, <4>1 DEF Results, Answered
    <3>. QED
      BY <3>1, <3>2
  <2>3. at'[f] - 1 = at[f]
    BY <1>2
  <2>4. Received(f)'
    BY <1>1, <1>2, <2>1, <2>2, <2>3, ReceivedIs
  <2>. QED
    BY <1>2, <1>5, <2>4
<1>6. CASE e # f
  <2>1. Steady(e)
    BY <1>1, <1>6, SteadyOthers
  <2>2. got'[e] = got[e]
    BY <1>6 DEF Return
  <2>. QED
    BY <1>1, <1>2, <2>1, <2>2, ResultsStay
<1>. QED
  BY <1>5, <1>6

-----------------------------------------------------------------------------
(* What the lead adds up                                                   *)

(* Total joins the scratch memory of the last members of a team.           *)
LEMMA TotalJoins ==
  ASSUME NEW e
  PROVE  /\ Total(e, 0) = EmptyBag
         /\ \A n \in Nat : Total(e, n + 1) = Total(e, n) (+) scratch[Base(e) + launch.team - (n + 1)]
<1>. DEFINE sum[i \in Nat] == IF i = 0 THEN EmptyBag
                              ELSE sum[i - 1] (+) scratch[Base(e) + launch.team - i]
<1>1. PICK a : a = EmptyBag
  OBVIOUS
<1>2. PICK b : b = [i \in Nat |-> scratch[Base(e) + launch.team - i]]
  OBVIOUS
<1>3. PICK f : JoinsUp(f, a, b)
  BY JoinsExist
<1>4. \A i \in Nat : b[i] = scratch[Base(e) + launch.team - i]
  BY <1>2
<1>5. f = [i \in Nat |-> IF i = 0 THEN EmptyBag
                         ELSE f[i - 1] (+) scratch[Base(e) + launch.team - i]]
  BY <1>1, <1>3, <1>4 DEF JoinsUp
<1>6. sum = [i \in Nat |-> IF i = 0 THEN EmptyBag
                           ELSE sum[i - 1] (+) scratch[Base(e) + launch.team - i]]
  BY <1>5, Zenon
<1>7. \A n : Total(e, n) = sum[n]
  BY DEF Total
<1>. HIDE DEF sum
<1>8. sum[0] = EmptyBag
  BY <1>6
<1>9. ASSUME NEW n \in Nat
      PROVE  sum[n + 1] = sum[n] (+) scratch[Base(e) + launch.team - (n + 1)]
  <2>1. n + 1 \in Nat /\ n + 1 # 0 /\ (n + 1) - 1 = n
    OBVIOUS
  <2>2. sum[n + 1] = sum[(n + 1) - 1] (+) scratch[Base(e) + launch.team - (n + 1)]
    BY <1>6, <2>1
  <2>. QED
    BY <2>1, <2>2
<1>. QED
  BY <1>7, <1>8, <1>9

(* Of one contribution each that is the bag of these.                      *)
LEMMA TotalIs ==
  ASSUME launch \in Launches, NEW e \in Teamed, NEW n \in 0..launch.team, NEW r, NEW a,
         \A d \in TeamOf(e) : scratch[d] = SetToBag({<<r, a, d>>})
  PROVE  Total(e, n) = SetToBag(Parts(r, a, {d \in TeamOf(e) : Place(d) >= launch.team - n}))
<1>. DEFINE T == launch.team
            Last(m) == {d \in TeamOf(e) : Place(d) >= T - m}
            Bad == {m \in Nat : m <= n /\ Total(e, m) # SetToBag(Parts(r, a, Last(m)))}
<1>1. T \in Nat \ {0} /\ n \in Nat /\ n <= T /\ Base(e) \in Nat
  BY LaunchFacts, TeamFacts
<1>2. ASSUME NEW d \in TeamOf(e)
      PROVE  d \in Teamed /\ Base(d) = Base(e) /\ Place(d) \in Nat /\ Place(d) < T
             /\ d = Base(e) + Place(d)
  <2>1. d \in Teamed /\ Base(d) = Base(e)
    BY DEF TeamOf, Teamed
  <2>. QED
    BY <1>1, <2>1, TeamFacts DEF Places
<1>3. ASSUME NEW p \in 0..(T - 1)
      PROVE  Base(e) + p \in TeamOf(e) /\ Place(Base(e) + p) = p
  BY TeamFacts DEF Places, TeamOf, Teamed
<1>4. SUFFICES ASSUME Bad # {} PROVE FALSE
  <2>1. Last(n) = {d \in TeamOf(e) : Place(d) >= launch.team - n}
    OBVIOUS
  <2>. HIDE DEF Last
  <2>2. n \notin Bad => Total(e, n) = SetToBag(Parts(r, a, Last(n)))
    BY <1>1
  <2>. HIDE DEF Bad
  <2>. QED
    BY <2>1, <2>2
<1>5. PICK m \in Bad : \A j \in Bad : m <= j
  <2>1. Bad \in SUBSET Nat
    OBVIOUS
  <2>. HIDE DEF Bad
  <2>. QED
    BY <1>4, <2>1, LeastNumber
<1>6. m \in Nat /\ m <= n /\ Total(e, m) # SetToBag(Parts(r, a, Last(m)))
  OBVIOUS
<1>7. CASE m = 0
  <2>1. Last(m) = {}
    BY <1>1, <1>2, <1>7
  <2>. HIDE DEF Last
  <2>2. Parts(r, a, Last(m)) = {}
    BY <2>1 DEF Parts
  <2>3. Total(e, m) = EmptyBag
    BY <1>7, TotalJoins
  <2>4. SetToBag({}) = EmptyBag
    BY DEF SetToBag, EmptyBag
  <2>. QED
    BY <1>6, <2>2, <2>3, <2>4
<1>8. CASE m # 0
  <2>1. PICK j \in Nat : m = j + 1
    <3>1. m - 1 \in Nat /\ m = (m - 1) + 1
      BY <1>6, <1>8
    <3>. QED
      BY <3>1
  <2>2. j \notin Bad /\ j <= n
    BY <1>5, <1>6, <2>1, <1>1
  <2>3. Total(e, j) = SetToBag(Parts(r, a, Last(j)))
    BY <2>2
  <2>4. PICK x : x = Base(e) + T - m
    OBVIOUS
  <2>5. T - m \in 0..(T - 1) /\ x = Base(e) + (T - m)
    BY <1>1, <1>6, <1>8, <2>4
  <2>6. x \in TeamOf(e) /\ Place(x) = T - m
    BY <1>3, <2>5
  <2>7. Total(e, m) = Total(e, j) (+) SetToBag({<<r, a, x>>})
    <3>1. Total(e, j + 1) = Total(e, j) (+) scratch[Base(e) + launch.team - (j + 1)]
      BY TotalJoins
    <3>2. scratch[x] = SetToBag({<<r, a, x>>})
      BY <2>6
    <3>. QED
      BY <2>1, <2>4, <3>1, <3>2
  <2>8. x \notin Last(j) /\ Last(m) = Last(j) \cup {x}
    <3>1. x \notin Last(j)
      BY <1>1, <1>6, <2>1, <2>6
    <3>2. ASSUME NEW d \in TeamOf(e) PROVE d \in Last(m) <=> d \in Last(j) \/ d = x
      <4>1. d = Base(e) + Place(d) /\ Place(d) \in Nat
        BY <1>2
      <4>2. d = x <=> Place(d) = T - m
        BY <1>1, <1>6, <2>5, <2>6, <4>1
      <4>3. Place(d) >= T - m <=> Place(d) >= T - j \/ Place(d) = T - m
        BY <1>1, <1>6, <2>1, <4>1
      <4>. QED
        BY <4>2, <4>3
    <3>. QED
      BY <2>6, <3>1, <3>2
  <2>. HIDE DEF Last
  <2>9. /\ Parts(r, a, Last(j)) \cap {<<r, a, x>>} = {}
        /\ Parts(r, a, Last(m)) = Parts(r, a, Last(j)) \cup {<<r, a, x>>}
    BY <2>8 DEF Parts
  <2>. QED
    BY <1>6, <2>3, <2>7, <2>9, SetsJoin
<1>. QED
  BY <1>7, <1>8

(* All of them, and those above one                                        *)
LEMMA TotalsAre ==
  ASSUME launch \in Launches, NEW e \in Teamed, NEW r, NEW a,
         \A d \in TeamOf(e) : scratch[d] = SetToBag({<<r, a, d>>})
  PROVE  /\ Total(e, launch.team) = SetToBag(Parts(r, a, TeamOf(e)))
         /\ Total(e, Above(e)) = SetToBag(Parts(r, a, {d \in TeamOf(e) : d > e}))
<1>1. launch.team \in Nat /\ Base(e) \in Nat /\ Place(e) \in Nat /\ Place(e) < launch.team
      /\ e = Base(e) + Place(e)
  BY LaunchFacts, TeamFacts DEF Places
<1>2. ASSUME NEW d \in TeamOf(e)
      PROVE  Place(d) \in Nat /\ d = Base(e) + Place(d)
  <2>1. d \in Teamed /\ Base(d) = Base(e)
    BY DEF TeamOf, Teamed
  <2>. QED
    BY <2>1, TeamFacts DEF Places
<1>3. {d \in TeamOf(e) : Place(d) >= launch.team - launch.team} = TeamOf(e)
  BY <1>1, <1>2
<1>4. Above(e) \in 0..launch.team /\ launch.team - Above(e) = Place(e) + 1
  BY <1>1 DEF Above
<1>5. ASSUME NEW d \in TeamOf(e)
      PROVE  Place(d) >= launch.team - Above(e) <=> d > e
  BY <1>1, <1>2, <1>4
<1>6. {d \in TeamOf(e) : Place(d) >= launch.team - Above(e)} = {d \in TeamOf(e) : d > e}
  BY <1>5
<1>7. launch.team \in 0..launch.team
  BY <1>1
<1>8. Total(e, launch.team) =
        SetToBag(Parts(r, a, {d \in TeamOf(e) : Place(d) >= launch.team - launch.team}))
  BY <1>7, TotalIs
<1>9. Total(e, Above(e)) =
        SetToBag(Parts(r, a, {d \in TeamOf(e) : Place(d) >= launch.team - Above(e)}))
  BY <1>4, TotalIs
<1>. QED
  BY <1>3, <1>6, <1>8, <1>9

-----------------------------------------------------------------------------
(* What a lead's act leaves                                                *)

(* Its members' contributions, added up                                    *)
LEMMA LeadAdds ==
  ASSUME Control, Results, NEW f \in Pool, RootActs(f), Calling(f),
         call[f] \in {"reduce", "join", "scan"}, NEW e \in Teamed, Base(e) = f
  PROVE  /\ Total(e, launch.team) = SetToBag(Parts(rank[e], at[e], TeamOf(e)))
         /\ Total(e, Above(e)) = SetToBag(Parts(rank[e], at[e], {d \in TeamOf(e) : d > e}))
<1>1. launch \in Launches
  BY DEF Control, Typed
<1>2. ASSUME NEW d \in TeamOf(e)
      PROVE  scratch[d] = SetToBag({<<rank[e], at[e], d>>})
  <2>1. d \in Teamed /\ Base(d) = f
    BY DEF TeamOf, Teamed
  <2>2. /\ Calling(d) /\ ~Acted(d) /\ call[d] = call[f]
        /\ rank[d] = rank[f] /\ at[d] = at[f] /\ rank[e] = rank[f] /\ at[e] = at[f]
    BY <2>1, LeadActs
  <2>3. Contributed(d)
    BY <2>1, <2>2 DEF Results
  <2>. QED
    BY <2>2, <2>3 DEF Contributed, Contribution
<1>. QED
  BY <1>1, <1>2, TotalsAre

(* Where it writes what                                                    *)
LEMMA LeadWrites ==
  ASSUME Bags, NEW f, RootActs(f), NEW x \in Entry
  PROVE  scratch'[x] =
           IF call[f] = "reduce" /\ x = f THEN Total(f, launch.team)
           ELSE IF call[f] = "join" /\ x \in TeamOf(f) THEN Total(f, launch.team)
           ELSE IF call[f] = "scan" /\ x \in TeamOf(f) THEN global (+) Total(x, Above(x))
           ELSE scratch[x]
<1>1. DOMAIN scratch = Entry
  BY DEF Bags
<1>2. scratch' = Joined(f)
  BY DEF RootActs
<1>3. CASE call[f] = "reduce"
  <2>1. Joined(f) = [scratch EXCEPT ![f] = Total(f, launch.team)]
    BY <1>3 DEF Joined
  <2>. QED
    BY <1>1, <1>2, <1>3, <2>1
<1>4. CASE call[f] = "join"
  <2>1. Joined(f) = [d \in Entry |-> IF d \in TeamOf(f) THEN Total(f, launch.team) ELSE scratch[d]]
    BY <1>4 DEF Joined
  <2>. QED
    BY <1>2, <1>4, <2>1
<1>5. CASE call[f] = "scan"
  <2>1. Joined(f) = [d \in Entry |-> IF d \in TeamOf(f) THEN global (+) Total(d, Above(d))
                                     ELSE scratch[d]]
    BY <1>5 DEF Joined
  <2>. QED
    BY <1>2, <1>5, <2>1
<1>6. CASE call[f] \notin {"reduce", "join", "scan"}
  <2>1. Joined(f) = scratch
    BY <1>6 DEF Joined
  <2>. QED
    BY <1>2, <1>6, <2>1
<1>. QED
  BY <1>3, <1>4, <1>5, <1>6

(* It leaves the results where the members read them.                      *)
LEMMA ResultsActs ==
  ASSUME Control, CallsAreSound(launch), Results, Bags, NEW f \in Pool, RootActs(f), Calling(f),
         call[f] = "scan" => \A e \in Teamed : Base(e) = f =>
           BagToSet(global) \cap Parts(rank[e], at[e], TeamOf(e)) = {}
  PROVE  Results'
<1>1. /\ Typed /\ launch \in Launches /\ launch' = launch /\ Thread(f) /\ Teamed' = Teamed
  <2>1. Thread(f) /\ launch' = launch
    BY DEF Thread, Collective, RootActs
  <2>. QED
    BY <2>1, LaunchKept DEF Control, Typed
<1>2. /\ f \in Teamed /\ Place(f) = 0 /\ Base(f) = f /\ call[f] \in TeamCall
      /\ call' = call /\ rank' = rank /\ at' = at /\ got' = got
      /\ \A d \in Teamed : Base(d) = f =>
           /\ Calling(d) /\ ~Acted(d) /\ Calling(d)' /\ Acted(d)'
           /\ pc[d] # "functor" /\ pc'[d] # "functor"
           /\ call[d] = call[f] /\ rank[d] = rank[f] /\ at[d] = at[f]
  BY LeadActs DEF Calling
<1>3. SUFFICES ASSUME NEW e \in Teamed
               PROVE  /\ Calling(e)' => IF Acted(e)' THEN Answered(e)' ELSE Contributed(e)'
                      /\ (pc[e] = "functor")' => Received(e)'
  BY <1>1 DEF Results
<1>4. f \in Entry /\ e \in Entry /\ Base(e) \in Entry /\ Base(e) \in Teamed
  BY <1>1, <1>2, TeamFacts, BaseFacts
<1>5. CASE Base(e) # f
  <2>1. e # f
    BY <1>2, <1>5
  <2>2. Steady(e)
    BY <1>1, <1>5, <2>1, SteadyOthers
  <2>3. Base(Base(e)) = Base(e)
    BY <1>1, BaseFacts
  <2>4. e \notin TeamOf(f) /\ Base(e) \notin TeamOf(f)
    BY <1>2, <1>5, <2>3 DEF TeamOf
  <2>5. scratch'[e] = scratch[e] /\ scratch'[Base(e)] = scratch[Base(e)]
    BY <1>4, <1>5, <2>1, <2>4, LeadWrites
  <2>. QED
    BY <1>1, <1>2, <2>2, <2>5, ResultsStay
<1>6. CASE Base(e) = f
  <2>1. /\ Calling(e) /\ ~Acted(e) /\ Calling(e)' /\ Acted(e)' /\ pc'[e] # "functor"
        /\ call[e] = call[f] /\ rank[e] = rank[f] /\ at[e] = at[f] /\ Contributed(e)
    BY <1>2, <1>6 DEF Results
  <2>2. TeamOf(e) = TeamOf(f) /\ e \in TeamOf(f) /\ f \in TeamOf(f)
    BY <1>2, <1>6 DEF TeamOf, Teamed
  <2>3. PICK B : B = Result(e)'
    OBVIOUS
  <2>4. B = IF call[e] \in {"broadcast", "reduce"} THEN scratch'[f] ELSE scratch'[e]
    <3>1. Base(e)' = f
      BY <1>1, <1>6, TeamKept
    <3>. QED
      BY <1>2, <2>3, <3>1 DEF Result
  <2>5. ASSUME call[e] \in {"reduce", "join"}
       PROVE  Exact(e, rank[e], at[e], call[e], B)
    <3>1. B = Total(f, launch.team)
      BY <1>4, <2>1, <2>2, <2>4, <2>5, LeadWrites
    <3>2. Total(f, launch.team) = SetToBag(Parts(rank[f], at[f], TeamOf(f)))
      BY <1>2, <2>1, <2>5, LeadAdds
    <3>. QED
      BY <2>1, <2>2, <2>5, <3>1, <3>2 DEF Exact
  <2>6. ASSUME call[e] = "scan"
       PROVE  Exact(e, rank[e], at[e], call[e], B)
    <3>1. B = global (+) Total(e, Above(e))
      BY <1>4, <2>1, <2>2, <2>4, <2>6, LeadWrites
    <3>2. Total(e, Above(e)) = SetToBag(Parts(rank[e], at[e], {d \in TeamOf(e) : d > e}))
      BY <1>6, <2>1, <2>6, LeadAdds
    <3>3. PICK U : U = Parts(rank[e], at[e], {d \in TeamOf(e) : d > e})
      OBVIOUS
    <3>4. PICK V : V = Parts(rank[e], at[e], TeamOf(e))
      OBVIOUS
    <3>5. BagToSet(B) = BagToSet(global) \cup U
      BY <3>1, <3>2, <3>3 DEF BagToSet, SetToBag, (+)
    <3>6. BagToSet(global) \cap V = {}
      BY <1>6, <2>1, <2>6, <3>4
    <3>7. U \subseteq V
      BY <3>3, <3>4 DEF Parts
    <3>8. BagToSet(B) \cap V = U
      BY <3>5, <3>6, <3>7
    <3>. QED
      BY <2>6, <3>3, <3>4, <3>8 DEF Exact
  <2>7. ASSUME call[e] = "broadcast"
       PROVE  Exact(e, rank[e], at[e], call[e], B)
    <3>1. PICK s \in TeamOf(e) : Sends(s)
      <4>1. launch.source < launch.team
        BY DEF CallsAreSound
      <4>2. /\ launch.team \in Nat /\ launch.source \in Nat
        BY <1>1, LaunchFacts
      <4>3. PICK p \in Places : p = launch.team - 1 - launch.source
        BY <4>1, <4>2 DEF Places
      <4>4. PICK x : x = Base(e) + p
        OBVIOUS
      <4>5. x \in TeamOf(e) /\ Place(x) = p
        BY <1>1, <4>4, TeamFacts DEF TeamOf, Teamed
      <4>6. Sends(x)
        BY <4>2, <4>3, <4>5 DEF Sends, Places
      <4>. QED
        BY <4>5, <4>6
    <3>2. s \in Teamed /\ Base(s) = f
      BY <1>6 DEF TeamOf, Teamed
    <3>3. /\ Calling(s) /\ ~Acted(s) /\ call[s] = "broadcast"
          /\ rank[s] = rank[e] /\ at[s] = at[e]
      BY <1>2, <2>1, <2>7, <3>2
    <3>4. scratch[f] = SetToBag({<<rank[e], at[e], s>>})
      BY <3>1, <3>2, <3>3 DEF Results, Contributed, Contribution
    <3>5. B = scratch[f]
      BY <1>4, <2>1, <2>4, <2>7, LeadWrites
    <3>6. {d \in TeamOf(e) : Sends(d)} = {s}
      <4>1. \A d \in TeamOf(e) : d \in Teamed /\ Base(d) = f
        BY <1>6 DEF TeamOf, Teamed
      <4>. QED
        BY <1>1, <3>1, <3>2, <4>1, OneSends
    <3>7. Parts(rank[e], at[e], {s}) = {<<rank[e], at[e], s>>}
      BY DEF Parts
    <3>. QED
      BY <2>7, <3>4, <3>5, <3>6, <3>7 DEF Exact
  <2>8. ASSUME call[e] = "barrier"
       PROVE  Exact(e, rank[e], at[e], call[e], B)
    BY <2>8 DEF Exact
  <2>9. Exact(e, rank[e], at[e], call[e], B)
    BY <1>2, <2>1, <2>5, <2>6, <2>7, <2>8 DEF TeamCall
  <2>10. Answered(e)'
    BY <1>1, <1>2, <2>3, <2>9, AnsweredIs
  <2>. QED
    BY <2>1, <2>10
<1>. QED
  BY <1>5, <1>6

(* The values stay bags.                                                   *)
LEMMA FunctionOn ==
  ASSUME NEW S, NEW g, g = [x \in S |-> g[x]], NEW y, NEW v, NEW h, h = [g EXCEPT ![y] = v]
  PROVE  h = [x \in S |-> h[x]]
OBVIOUS

LEMMA BagsThread ==
  ASSUME Control, Results, Bags, NEW f \in Pool, Thread(f)
  PROVE  Bags'
<1>1. /\ scratch = [e \in Entry |-> scratch[e]] /\ got = [e \in Entry |-> got[e]]
      /\ \A e \in Entry : IsABag(scratch[e]) /\ IsABag(got[e])
      /\ IsABag(global)
  BY DEF Bags
<1>2. launch \in Launches /\ f \in Entry
  BY ThreadFacts DEF Control, Typed
<1>3. CASE Call(f)
  <2>1. global' = global /\ got' = got
    BY <1>3, Calls
  <2>2. \A x \in Entry : IsABag(scratch'[x])
    <3>1. IsABag(Contribution(f))
      BY BagsOfSets DEF Contribution
    <3>. QED
      BY <1>1, <1>3, <3>1, CallWrites
  <2>3. scratch' = [x \in Entry |-> scratch'[x]]
    <3>1. \/ scratch' = scratch
          \/ scratch' = [scratch EXCEPT ![f] = Contribution(f)]
          \/ scratch' = [scratch EXCEPT ![Base(f)] = Contribution(f)]
      BY <1>3 DEF Call
    <3>. QED
      BY <1>1, <3>1, FunctionOn
  <2>. QED
    BY <1>1, <2>1, <2>2, <2>3 DEF Bags
<1>4. CASE Return(f)
  <2>1. scratch' = scratch /\ global' = global
    BY <1>4, Returns
  <2>2. PICK v : v = IF call[f] = "barrier" THEN EmptyBag ELSE Result(f)
    OBVIOUS
  <2>3. got' = [got EXCEPT ![f] = v]
    BY <1>4, <2>2 DEF Return
  <2>4. IsABag(v)
    <3>1. IsABag(EmptyBag)
      BY DEF IsABag, EmptyBag, SetToBag
    <3>2. Base(f) \in Entry
      <4>1. f \in Teamed
        BY <1>4, Returns
      <4>. QED
        BY <1>2, <4>1, BaseFacts, TeamFacts
    <3>. QED
      BY <1>1, <1>2, <2>2, <3>1, <3>2 DEF Result
  <2>5. got' = [x \in Entry |-> got'[x]]
    BY <1>1, <2>3, FunctionOn
  <2>6. \A x \in Entry : IsABag(got'[x])
    <3>1. DOMAIN got = Entry
      BY <1>1
    <3>. QED
      BY <1>1, <2>3, <2>4, <3>1
  <2>. QED
    BY <1>1, <2>1, <2>5, <2>6 DEF Bags
<1>5. CASE RootActs(f) /\ Calling(f)
  <2>1. f \in Teamed /\ Base(f) = f /\ got' = got
    BY <1>5, LeadActs
  <2>2. ASSUME call[f] \in {"reduce", "join", "scan"}
        PROVE  IsABag(Total(f, launch.team))
    <3>1. Total(f, launch.team) = SetToBag(Parts(rank[f], at[f], TeamOf(f)))
      BY <1>5, <2>1, <2>2, LeadAdds
    <3>. QED
      BY <3>1, BagsOfSets
  <2>3. IsABag(global')
    <3>1. CASE call[f] = "scan"
      <4>1. global' = global (+) Total(f, launch.team)
        BY <1>5, <3>1 DEF RootActs
      <4>. QED
        BY <1>1, <2>2, <3>1, <4>1, JoinedBags
    <3>2. CASE call[f] # "scan"
      BY <1>1, <1>5, <3>2 DEF RootActs
    <3>. QED
      BY <3>1, <3>2
  <2>4. ASSUME NEW x \in Entry PROVE IsABag(scratch'[x])
    <3>1. CASE call[f] = "scan" /\ x \in TeamOf(f)
      <4>1. x \in Teamed /\ Base(x) = f
        BY <2>1, <3>1 DEF TeamOf, Teamed
      <4>2. Total(x, Above(x)) = SetToBag(Parts(rank[x], at[x], {d \in TeamOf(x) : d > x}))
        BY <1>5, <3>1, <4>1, LeadAdds
      <4>3. IsABag(Total(x, Above(x)))
        BY <4>2, BagsOfSets
      <4>4. scratch'[x] = global (+) Total(x, Above(x))
        BY <1>5, <3>1, LeadWrites
      <4>. QED
        BY <1>1, <4>3, <4>4, JoinedBags
    <3>2. CASE ~(call[f] = "scan" /\ x \in TeamOf(f))
      <4>1. \/ scratch'[x] = scratch[x]
            \/ call[f] \in {"reduce", "join"} /\ scratch'[x] = Total(f, launch.team)
        BY <1>5, <3>2, LeadWrites
      <4>. QED
        BY <1>1, <2>2, <4>1
    <3>. QED
      BY <3>1, <3>2
  <2>5. scratch' = [x \in Entry |-> scratch'[x]]
    <3>1. \/ scratch' = scratch
          \/ scratch' = [scratch EXCEPT ![f] = Total(f, launch.team)]
          \/ scratch' = [d \in Entry |-> IF d \in TeamOf(f) THEN Total(f, launch.team)
                                         ELSE scratch[d]]
          \/ scratch' = [d \in Entry |-> IF d \in TeamOf(f) THEN global (+) Total(d, Above(d))
                                         ELSE scratch[d]]
      BY <1>5 DEF RootActs, Joined
    <3>. QED
      BY <1>1, <3>1, FunctionOn
  <2>. QED
    BY <1>1, <2>1, <2>3, <2>4, <2>5 DEF Bags
<1>6. CASE ~Call(f) /\ ~Return(f) /\ ~(RootActs(f) /\ Calling(f))
  BY <1>1, <1>6, ValuesKept DEF Bags
<1>. QED
  BY <1>3, <1>4, <1>5, <1>6

-----------------------------------------------------------------------------
(* The account of the scans                                                *)

(* A member goes on with its item, or leaves it with all calls passed.     *)
Onward(e) ==
  /\ Running(e)' => Running(e) /\ rank'[e] = rank[e]
  /\ Running(e)' => \A k \in Scans : Passed(e, k)' <=> Passed(e, k)
  /\ Running(e) /\ ~Running(e)' => \A k \in Scans : Passed(e, k)

(* Or it comes to one that nobody of its place has run.                    *)
Starts(e) ==
  /\ ~Running(e) /\ Running(e)' /\ \A k \in Scans : ~Passed(e, k)'
  /\ rank'[e] \in League
  /\ ran[<<rank'[e], Place(e)>>] = 0 /\ ran'[<<rank'[e], Place(e)>>] = 1

LEMMA ScansAre ==
  ASSUME launch \in Launches
  PROVE  Scans \subseteq 1..Len(launch.program) /\ Len(launch.program) \in Nat
BY LaunchFacts DEF Scans

(* Who stays where it is goes on,                                          *)
LEMMA SteadyGoesOn ==
  ASSUME NEW e, Steady(e)
  PROVE  Onward(e)
<1>1. Running(e)' <=> Running(e)
  BY DEF Steady, Running, Calling
<1>2. ASSUME Running(e)
      PROVE  rank'[e] = rank[e] /\ \A k \in Scans : Passed(e, k)' <=> Passed(e, k)
  BY <1>2 DEF Steady, Passed
<1>. QED
  BY <1>1, <1>2 DEF Onward

(* and so does who calls, returns or is done with its item.                *)
LEMMA OnwardSelf ==
  ASSUME Control, NEW e \in Teamed, Call(e) \/ Return(e) \/ NextItem(e)
  PROVE  Onward(e)
<1>1. /\ e \in Pool /\ Typed /\ launch \in Launches /\ Scans \subseteq Nat
      /\ at[e] \in Nat /\ launch' = launch
  <2>1. e \in Pool /\ Typed /\ launch \in Launches
    BY DEF Control, Typed, Teamed
  <2>2. launch' = launch
    BY DEF Call, Return, NextItem
  <2>. QED
    BY <2>1, <2>2, ThreadFacts, ScansAre
<1>2. CASE Call(e)
  <2>1. /\ ~Calling(e) /\ Running(e) /\ Running(e)' /\ ~Acted(e)' /\ rank' = rank /\ at' = at
    BY <1>1, <1>2, Calls
  <2>2. ASSUME NEW k \in Scans PROVE Passed(e, k)' <=> Passed(e, k)
    BY <2>1 DEF Passed
  <2>. QED
    BY <2>1, <2>2 DEF Onward
<1>3. CASE Return(e)
  <2>1. /\ Calling(e) /\ Acted(e) /\ ~Calling(e)' /\ Running(e) /\ Running(e)'
        /\ at'[e] = at[e] + 1 /\ rank' = rank
    BY <1>1, <1>3, Returns
  <2>2. ASSUME NEW k \in Scans PROVE Passed(e, k)' <=> Passed(e, k)
    <3>1. Passed(e, k) <=> k < at[e] \/ k = at[e]
      BY <2>1 DEF Passed
    <3>2. Passed(e, k)' <=> k < at'[e]
      BY <2>1 DEF Passed
    <3>3. k \in Nat
      BY <1>1
    <3>. QED
      BY <1>1, <2>1, <3>1, <3>2, <3>3
  <2>. QED
    BY <2>1, <2>2 DEF Onward
<1>4. CASE NextItem(e)
  <2>1. at[e] > Len(launch.program) /\ pc'[e] \in {"fan_in", "valid"}
        /\ (pc'[e] = "fan_in" => call'[e] = "next")
    BY <1>1, <1>4, ThreadFacts DEF NextItem, Enter, GoOn, Go, Typed
  <2>2. ~Running(e)'
    BY <2>1 DEF Running, TeamCall
  <2>3. ASSUME NEW k \in Scans PROVE Passed(e, k)
    <3>1. k \in 1..Len(launch.program) /\ Len(launch.program) \in Nat
      BY <1>1, ScansAre
    <3>. QED
      BY <1>1, <2>1, <3>1 DEF Passed
  <2>. QED
    BY <2>2, <2>3 DEF Onward
<1>. QED
  BY <1>2, <1>3, <1>4

(* A lead that acts in another call than a scan takes its team on.         *)
LEMMA OnwardActs ==
  ASSUME Control, NEW f \in Pool, RootActs(f), Calling(f), NEW e \in Teamed, Base(e) = f
  PROVE  /\ Running(e) /\ Running(e)' /\ rank'[e] = rank[e] /\ ~Passed(e, at[f])
         /\ \A k \in Scans : Passed(e, k)' <=> Passed(e, k) \/ k = at[f]
         /\ call[f] # "scan" => Onward(e)
<1>1. /\ call[f] = launch.program[at[f]] /\ rank' = rank /\ at' = at
      /\ Calling(e) /\ ~Acted(e) /\ Calling(e)' /\ Acted(e)' /\ Running(e)'
      /\ at[e] = at[f]
  BY LeadActs
<1>2. Running(e)
  BY <1>1 DEF Running, Calling
<1>3. at[e] \in Nat
  BY ThreadFacts DEF Control, Teamed
<1>4. ~Passed(e, at[f])
  BY <1>1, <1>3 DEF Passed
<1>5. ASSUME NEW k \in Scans PROVE Passed(e, k)' <=> Passed(e, k) \/ k = at[f]
  BY <1>1 DEF Passed
<1>6. call[f] # "scan" => at[f] \notin Scans
  BY <1>1 DEF Scans
<1>. QED
  BY <1>1, <1>2, <1>4, <1>5, <1>6 DEF Onward

(* A member that comes to an item is the first of its place to run it.     *)
LEMMA BeginStarts ==
  ASSUME Control, Shared, NEW e \in Teamed, Thread(e), Begins(e)
  PROVE  /\ Starts(e)
         /\ ran' = [i \in Item |-> IF i = <<rank'[e], Place(e)>> THEN ran[i] + 1 ELSE ran[i]]
         /\ pc'[e] = "functor" /\ at'[e] = 1
<1>1. /\ Typed /\ launch \in Launches /\ e \in Pool /\ e \in Entry /\ InLeague /\ Shares
      /\ Place(e) \in Places /\ ran \in [Item -> Nat]
  BY TeamFacts DEF Control, Typed, Shared
<1>2. /\ pc'[e] = "functor" /\ at'[e] = 1 /\ ~Running(e)
  <2>1. CASE Valid(e)
    BY <1>1, <2>1 DEF Valid, GoOn, Go, RunFunctor, Typed, Running
  <2>2. CASE TakeChunk(e) /\ pc'[e] = "functor"
    <3>1. index[Base(e)] >= 0
      <4>1. Running(e)'
        BY <2>2 DEF Running
      <4>. QED
        BY <1>1, <2>2, <4>1, TakesChunk
    <3>2. RunFunctor(e, index[Base(e)] * launch.chunk)
      BY <2>2, <3>1 DEF TakeChunk
    <3>3. pc[e] = "release" /\ call[e] = "index"
      BY <2>2 DEF TakeChunk, Left
    <3>. QED
      BY <1>1, <2>2, <3>2, <3>3 DEF RunFunctor, Typed, Running, TeamCall
  <2>. QED
    BY <2>1, <2>2 DEF Begins
<1>3. PICK r : r = rank'[e]
  OBVIOUS
<1>4. /\ r \in Due(e)
      /\ ran' = [i \in Item |-> IF i = <<r, Place(e)>> THEN ran[i] + 1 ELSE ran[i]]
  <2>1. CASE Valid(e)
    <3>1. ~TakeChunk(e)
      BY <2>1 DEF Valid, GoOn, Go, TakeChunk, Left
    <3>2. ~Taking(e)
      BY <2>1, ValidTakesNone
    <3>3. Due(e) = Rest(e)
      BY <3>2 DEF Due
    <3>. QED
      BY <1>3, <2>1, <3>1, <3>3, RestSelf
  <2>2. CASE TakeChunk(e) /\ pc'[e] = "functor"
    <3>1. Running(e)'
      BY <2>2 DEF Running
    <3>. QED
      BY <1>1, <1>3, <2>2, <3>1, TakesChunk
  <2>. QED
    BY <2>1, <2>2 DEF Begins
<1>5. r \in League
  BY <1>1, <1>4 DEF InLeague
<1>6. ran[<<r, Place(e)>>] = 0
  <2>1. Has(e, r)
    BY <1>4 DEF Has
  <2>. QED
    BY <1>1, <1>5, <2>1 DEF Shares, Counts
<1>7. ran'[<<r, Place(e)>>] = 1
  <2>1. <<r, Place(e)>> \in Item
    BY <1>1, <1>5 DEF Item, League
  <2>. QED
    BY <1>4, <1>6, <2>1
<1>8. Running(e)' /\ ~Calling(e)'
  BY <1>2 DEF Running, Calling
<1>9. ASSUME NEW k \in Scans PROVE ~Passed(e, k)'
  <2>1. k \in Nat /\ k >= 1
    BY <1>1, ScansAre
  <2>. QED
    BY <1>2, <1>8, <2>1 DEF Passed
<1>. QED
  BY <1>2, <1>3, <1>4, <1>5, <1>6, <1>7, <1>8, <1>9 DEF Starts

(* What is to be shown of the next state                                   *)
LEMMA AccountNext ==
  ASSUME launch \in Launches, launch' = launch,
         \A e \in Teamed : Running(e)' => ran'[<<rank'[e], Place(e)>>] > 0,
         \A d, e \in Teamed :
           Running(d)' /\ Running(e)' /\ rank'[d] = rank'[e] /\ Place(d) = Place(e) => d = e,
         \A x \in BagToSet(global)' :
           /\ global'[x] = 1 /\ \E r \in League, k \in Scans, d \in Teamed : x = <<r, k, d>>,
         \A r \in League, k \in Scans, d \in Teamed : Added(r, k, d)' => ran'[<<r, Place(d)>>] > 0,
         \A r \in League, k \in Scans, d, e \in Teamed :
           Added(r, k, d)' /\ Added(r, k, e)' /\ Place(d) = Place(e) => d = e,
         \A r \in League, k \in Scans, d, e \in Teamed :
           Added(r, k, d)' /\ Running(e)' /\ rank'[e] = r /\ Place(e) = Place(d)
             => d = e /\ Passed(e, k)',
         \A r \in League, k \in Scans, p \in Places : ran'[<<r, p>>] > 0 =>
           \E d \in Teamed :
             /\ Place(d) = p
             /\ Added(r, k, d)' \/ (Running(d)' /\ rank'[d] = r /\ ~Passed(d, k)')
  PROVE  Account'
<1>1. /\ Teamed' = Teamed /\ League' = League /\ Places' = Places /\ Scans' = Scans
      /\ \A e \in Teamed : Place(e)' = Place(e)
  BY LaunchKept DEF Teamed, League, Places, Scans
<1>2. RunByOne'
  BY <1>1 DEF RunByOne
<1>3. AddedOnce'
  BY <1>1 DEF AddedOnce
<1>4. AddedByPassing'
  BY <1>1 DEF AddedByPassing
<1>5. AllAdded'
  BY <1>1 DEF AllAdded
<1>. QED
  BY <1>2, <1>3, <1>4, <1>5 DEF Account

(* Nobody acts in a scan: members go on, and one may start.                *)
LEMMA AccountGoesOn ==
  ASSUME launch \in Launches, launch' = launch, Account, InLeague, global' = global,
         ran \in [Item -> Nat], NEW f,
         \A e \in Teamed : Onward(e) \/ (e = f /\ Starts(e)),
         \A r \in League, p \in Places :
           \/ ran'[<<r, p>>] = ran[<<r, p>>]
           \/ f \in Teamed /\ Starts(f) /\ r = rank'[f] /\ p = Place(f)
  PROVE  Account'
<1>1. RunByOne /\ AddedOnce /\ AddedByPassing /\ AllAdded
  BY DEF Account
<1>2. ASSUME NEW e \in Teamed
      PROVE  /\ Place(e) \in Places
             /\ Onward(e) => /\ Running(e)' => Running(e) /\ rank'[e] = rank[e]
                             /\ Running(e)' => \A k \in Scans : Passed(e, k)' <=> Passed(e, k)
                             /\ Running(e) /\ ~Running(e)' => \A k \in Scans : Passed(e, k)
             /\ Starts(e) => /\ ~Running(e) /\ Running(e)' /\ \A k \in Scans : ~Passed(e, k)'
                             /\ rank'[e] \in League
                             /\ ran[<<rank'[e], Place(e)>>] = 0
                             /\ ran'[<<rank'[e], Place(e)>>] = 1
             /\ Running(e) => rank[e] \in League
  BY TeamFacts DEF Onward, Starts, InLeague
<1>3. ASSUME NEW r \in League, NEW p \in Places, ran[<<r, p>>] > 0
      PROVE  ran'[<<r, p>>] > 0
  BY <1>2, <1>3
<1>4. \A r \in League, k \in Scans, d \in Teamed : Added(r, k, d)' <=> Added(r, k, d)
  BY DEF Added
<1>5. ASSUME NEW e \in Teamed, Running(e) PROVE ran[<<rank[e], Place(e)>>] > 0
  BY <1>1, <1>5 DEF RunByOne
<1>6. ASSUME NEW e \in Teamed, Running(e)' PROVE ran'[<<rank'[e], Place(e)>>] > 0
  <2>1. CASE Onward(e)
    BY <1>2, <1>3, <1>5, <1>6, <2>1
  <2>2. CASE Starts(e)
    BY <1>2, <2>2
  <2>. QED
    BY <2>1, <2>2
<1>7. ASSUME NEW d \in Teamed, NEW e \in Teamed, Running(d)', Running(e)', rank'[d] = rank'[e],
             Place(d) = Place(e)
      PROVE  d = e
  <2>1. CASE Onward(d) /\ Onward(e)
    <3>1. Running(d) /\ Running(e) /\ rank[d] = rank[e]
      BY <1>2, <1>7, <2>1
    <3>. QED
      BY <1>1, <1>7, <3>1 DEF RunByOne
  <2>2. CASE Onward(d) /\ Starts(e)
    <3>1. Running(d) /\ ran[<<rank[d], Place(d)>>] = 0
      BY <1>2, <1>7, <2>2
    <3>. QED
      BY <1>5, <3>1
  <2>3. CASE Starts(d) /\ Onward(e)
    <3>1. Running(e) /\ ran[<<rank[e], Place(e)>>] = 0
      BY <1>2, <1>7, <2>3
    <3>. QED
      BY <1>5, <3>1
  <2>. QED
    BY <2>1, <2>2, <2>3
<1>8. \A x \in BagToSet(global)' :
        /\ global'[x] = 1 /\ \E r \in League, k \in Scans, d \in Teamed : x = <<r, k, d>>
  BY <1>1 DEF AddedOnce, BagToSet
<1>9. ASSUME NEW r \in League, NEW k \in Scans, NEW d \in Teamed, Added(r, k, d)'
      PROVE  ran'[<<r, Place(d)>>] > 0
  <2>1. ran[<<r, Place(d)>>] > 0
    BY <1>1, <1>4, <1>9 DEF AddedOnce
  <2>. QED
    BY <1>2, <1>3, <2>1
<1>10. \A r \in League, k \in Scans, d, e \in Teamed :
         Added(r, k, d)' /\ Added(r, k, e)' /\ Place(d) = Place(e) => d = e
  BY <1>1, <1>4 DEF AddedOnce
<1>11. ASSUME NEW r \in League, NEW k \in Scans, NEW d \in Teamed, NEW e \in Teamed,
              Added(r, k, d)', Running(e)', rank'[e] = r, Place(e) = Place(d)
       PROVE  d = e /\ Passed(e, k)'
  <2>1. Added(r, k, d)
    BY <1>4, <1>11
  <2>2. CASE Onward(e)
    <3>1. Running(e) /\ rank[e] = r
      BY <1>2, <1>11, <2>2
    <3>2. d = e /\ Passed(e, k)
      BY <1>1, <1>11, <2>1, <3>1 DEF AddedByPassing
    <3>. QED
      BY <1>2, <1>11, <2>2, <3>2
  <2>3. CASE Starts(e)
    <3>1. ran[<<r, Place(d)>>] > 0
      BY <1>1, <2>1 DEF AddedOnce
    <3>. QED
      BY <1>2, <1>11, <2>3, <3>1
  <2>. QED
    BY <2>2, <2>3
<1>12. ASSUME NEW r \in League, NEW k \in Scans, NEW p \in Places, ran'[<<r, p>>] > 0
       PROVE  \E d \in Teamed :
                /\ Place(d) = p
                /\ Added(r, k, d)' \/ (Running(d)' /\ rank'[d] = r /\ ~Passed(d, k)')
  <2>1. CASE ran[<<r, p>>] > 0
    <3>1. PICK d \in Teamed :
            /\ Place(d) = p
            /\ Added(r, k, d) \/ (Running(d) /\ rank[d] = r /\ ~Passed(d, k))
      BY <1>1, <2>1 DEF AllAdded
    <3>2. CASE Added(r, k, d)
      BY <1>4, <3>1, <3>2
    <3>3. CASE Running(d) /\ rank[d] = r /\ ~Passed(d, k)
      <4>1. Onward(d)
        BY <1>2, <3>3
      <4>2. Running(d)'
        BY <1>2, <3>3, <4>1
      <4>. QED
        BY <1>2, <3>1, <3>3, <4>1, <4>2
    <3>. QED
      BY <3>1, <3>2, <3>3
  <2>2. CASE ~(ran[<<r, p>>] > 0)
    <3>1. f \in Teamed /\ Starts(f) /\ r = rank'[f] /\ p = Place(f)
      BY <1>12, <2>2
    <3>2. Running(f)' /\ ~Passed(f, k)'
      BY <1>2, <3>1
    <3>. QED
      BY <3>1, <3>2
  <2>. QED
    BY <2>1, <2>2
<1>. QED
  BY <1>6, <1>7, <1>8, <1>9, <1>10, <1>11, <1>12, AccountNext

(* Nothing of a team's scan is in the global amount before its lead acts.  *)
LEMMA NotYetAdded ==
  ASSUME Control, InLeague, Account, NEW f \in Pool, RootActs(f), Calling(f), call[f] = "scan",
         NEW e \in Teamed, Base(e) = f
  PROVE  /\ at[f] \in Scans /\ rank[f] \in League
         /\ BagToSet(global) \cap Parts(rank[e], at[e], TeamOf(e)) = {}
<1>1. /\ f \in Teamed /\ Base(f) = f /\ call[f] = launch.program[at[f]]
      /\ at[f] \in 1..Len(launch.program)
      /\ \A d \in Teamed : Base(d) = f =>
           /\ Calling(d) /\ ~Acted(d) /\ rank[d] = rank[f] /\ at[d] = at[f]
  BY LeadActs
<1>2. at[f] \in Scans
  BY <1>1 DEF Scans
<1>3. rank[f] \in League
  <2>1. Running(f)
    BY DEF Running, Calling
  <2>. QED
    BY <1>1, <2>1 DEF InLeague
<1>4. ASSUME NEW d \in TeamOf(e), <<rank[e], at[e], d>> \in BagToSet(global) PROVE FALSE
  <2>1. d \in Teamed /\ Base(d) = f
    BY DEF TeamOf, Teamed
  <2>2. Running(d) /\ rank[d] = rank[f] /\ rank[e] = rank[f] /\ at[e] = at[f]
    BY <1>1, <2>1, OnwardActs
  <2>3. Added(rank[f], at[f], d)
    BY <1>4, <2>2 DEF Added
  <2>4. Passed(d, at[f])
    BY <1>2, <1>3, <2>1, <2>2, <2>3 DEF Account, AddedByPassing
  <2>. QED
    BY <2>1, <2>4, OnwardActs
<1>. QED
  BY <1>2, <1>3, <1>4 DEF Parts

(* A lead that acts in a scan adds its team's contributions.               *)
LEMMA AccountAdds ==
  ASSUME Control, InLeague, Results, Bags, Account, NEW f \in Pool, RootActs(f), Calling(f),
         call[f] = "scan"
  PROVE  Account'
<1>. DEFINE a == at[f]
            r0 == rank[f]
            T == TeamOf(f)
<1>1. /\ Typed /\ launch \in Launches /\ launch' = launch /\ Thread(f) /\ ran' = ran
      /\ ran \in [Item -> Nat]
  <2>1. Thread(f) /\ launch' = launch /\ ran' = ran
    BY DEF Thread, Collective, RootActs, place
  <2>. QED
    BY <2>1 DEF Control, Typed
<1>2. RunByOne /\ AddedOnce /\ AddedByPassing /\ AllAdded
  BY DEF Account
<1>3. f \in Teamed /\ Base(f) = f
  BY LeadActs
<1>4. a \in Scans /\ r0 \in League /\ BagToSet(global) \cap Parts(r0, a, T) = {}
  BY <1>3, NotYetAdded
<1>5. ASSUME NEW d \in Teamed
      PROVE  /\ d \in T <=> Base(d) = f
             /\ Running(d)' => Running(d) /\ rank'[d] = rank[d]
             /\ d \in T => /\ Running(d) /\ Running(d)' /\ rank[d] = r0 /\ ~Passed(d, a)
                           /\ \A k \in Scans : Passed(d, k)' <=> Passed(d, k) \/ k = a
             /\ d \notin T =>
                  /\ Running(d)' => \A k \in Scans : Passed(d, k)' <=> Passed(d, k)
                  /\ Running(d) /\ ~Running(d)' => \A k \in Scans : Passed(d, k)
  <2>1. d \in T <=> Base(d) = f
    BY <1>3 DEF TeamOf, Teamed
  <2>2. CASE d \in T
    <3>1. rank[d] = rank[f]
      BY <2>1, <2>2, LeadActs
    <3>. HIDE DEF T
    <3>. QED
      BY <2>1, <2>2, <3>1, OnwardActs
  <2>3. CASE d \notin T
    <3>1. Onward(d)
      BY <1>1, <1>3, <2>1, <2>3, SteadyOthers, SteadyGoesOn
    <3>. HIDE DEF T
    <3>. QED
      BY <2>1, <2>3, <3>1 DEF Onward
  <2>. QED
    BY <2>2, <2>3
<1>6. global' = global (+) SetToBag(Parts(r0, a, T))
  <2>1. Total(f, launch.team) = SetToBag(Parts(r0, a, T))
    BY <1>3, LeadAdds
  <2>. QED
    BY <2>1 DEF RootActs
<1>7. \A d \in Teamed : d \in T <=> Base(d) = f
  BY <1>5
<1>8. T \subseteq Teamed
  BY DEF TeamOf, Teamed
<1>. HIDE DEF T, a, r0
<1>9. /\ BagToSet(global') = BagToSet(global) \cup Parts(r0, a, T)
      /\ \A x \in BagToSet(global) : global'[x] = global[x]
      /\ \A x \in Parts(r0, a, T) : global'[x] = 1
  <2>1. PICK P : P = Parts(r0, a, T)
    OBVIOUS
  <2>2. DOMAIN global \cap P = {}
    BY <1>4, <2>1 DEF BagToSet
  <2>3. \A x \in DOMAIN global : global[x] \in Nat
    BY DEF Bags, IsABag
  <2>4. global' = [x \in DOMAIN global \cup P |->
                     (IF x \in DOMAIN global THEN global[x] ELSE 0) + (IF x \in P THEN 1 ELSE 0)]
    BY <1>6, <2>1 DEF SetToBag, (+)
  <2>5. DOMAIN global' = DOMAIN global \cup P
    BY <2>4
  <2>6. \A x \in DOMAIN global : global'[x] = global[x]
    BY <2>2, <2>3, <2>4
  <2>7. \A x \in P : global'[x] = 1
    BY <2>2, <2>4
  <2>. QED
    BY <2>1, <2>5, <2>6, <2>7 DEF BagToSet
<1>10. \A r \in League, k \in Scans, d \in Teamed :
         Added(r, k, d)' <=> Added(r, k, d) \/ (r = r0 /\ k = a /\ d \in T)
  <2>1. SUFFICES ASSUME NEW r \in League, NEW k \in Scans, NEW d \in Teamed
                 PROVE  Added(r, k, d)' <=> Added(r, k, d) \/ (r = r0 /\ k = a /\ d \in T)
    OBVIOUS
  <2>2. Added(r, k, d)' <=> <<r, k, d>> \in BagToSet(global')
    BY DEF Added, BagToSet
  <2>3. <<r, k, d>> \in Parts(r0, a, T) <=> r = r0 /\ k = a /\ d \in T
    BY DEF Parts
  <2>. QED
    BY <1>9, <2>2, <2>3 DEF Added
<1>11. \A e \in Teamed : Running(e) => ran[<<rank[e], Place(e)>>] > 0
  BY <1>2 DEF RunByOne
<1>12. \A e \in Teamed : Running(e)' => ran'[<<rank'[e], Place(e)>>] > 0
  BY <1>1, <1>5, <1>11
<1>13. \A d, e \in Teamed :
         Running(d)' /\ Running(e)' /\ rank'[d] = rank'[e] /\ Place(d) = Place(e) => d = e
  BY <1>2, <1>5 DEF RunByOne
<1>14. \A x \in BagToSet(global)' :
         /\ global'[x] = 1 /\ \E r \in League, k \in Scans, d \in Teamed : x = <<r, k, d>>
  <2>1. SUFFICES ASSUME NEW x \in BagToSet(global')
                 PROVE  /\ global'[x] = 1
                        /\ \E r \in League, k \in Scans, d \in Teamed : x = <<r, k, d>>
    BY DEF BagToSet
  <2>2. CASE x \in Parts(r0, a, T)
    <3>1. global'[x] = 1
      BY <1>9, <2>2
    <3>2. PICK d \in T : x = <<r0, a, d>>
      BY <2>2 DEF Parts
    <3>. QED
      BY <1>4, <1>8, <3>1, <3>2
  <2>3. CASE x \notin Parts(r0, a, T)
    <3>1. x \in BagToSet(global) /\ global'[x] = global[x]
      BY <1>9, <2>3
    <3>. QED
      BY <1>2, <3>1 DEF AddedOnce
  <2>. QED
    BY <2>2, <2>3
<1>15. \A r \in League, k \in Scans, d \in Teamed : Added(r, k, d)' => ran'[<<r, Place(d)>>] > 0
  <2>1. SUFFICES ASSUME NEW r \in League, NEW k \in Scans, NEW d \in Teamed, Added(r, k, d)'
                 PROVE  ran[<<r, Place(d)>>] > 0
    BY <1>1
  <2>2. CASE Added(r, k, d)
    BY <1>2, <2>2 DEF AddedOnce
  <2>3. CASE r = r0 /\ d \in T
    BY <1>5, <1>11, <2>3
  <2>. QED
    BY <1>10, <2>1, <2>2, <2>3
<1>16. ASSUME NEW r \in League, NEW k \in Scans, NEW d \in Teamed, NEW e \in Teamed,
              Added(r, k, d), Running(e), rank[e] = r, Place(e) = Place(d)
       PROVE  d = e /\ Passed(e, k)
  BY <1>2, <1>16 DEF AddedByPassing
<1>17. ASSUME NEW r \in League, NEW k \in Scans, NEW d \in Teamed, NEW e \in Teamed,
              Added(r, k, d)', Added(r, k, e)', Place(d) = Place(e)
       PROVE  d = e
  <2>1. CASE Added(r, k, d) /\ Added(r, k, e)
    BY <1>2, <1>17, <2>1 DEF AddedOnce
  <2>2. CASE d \in T /\ e \in T
    BY <1>1, <1>7, <1>17, <2>2, OneSends
  <2>3. CASE Added(r, k, d) /\ r = r0 /\ k = a /\ e \in T
    <3>1. Passed(e, a)
      BY <1>5, <1>16, <1>17, <2>3
    <3>. QED
      BY <1>5, <2>3, <3>1
  <2>4. CASE Added(r, k, e) /\ r = r0 /\ k = a /\ d \in T
    <3>1. Passed(d, a)
      BY <1>5, <1>16, <1>17, <2>4
    <3>. QED
      BY <1>5, <2>4, <3>1
  <2>. QED
    BY <1>10, <1>17, <2>1, <2>2, <2>3, <2>4
<1>18. ASSUME NEW r \in League, NEW k \in Scans, NEW d \in Teamed, NEW e \in Teamed,
              Added(r, k, d)', Running(e)', rank'[e] = r, Place(e) = Place(d)
       PROVE  d = e /\ Passed(e, k)'
  <2>1. Running(e) /\ rank[e] = r
    BY <1>5, <1>18
  <2>2. CASE Added(r, k, d)
    <3>1. d = e /\ Passed(e, k)
      BY <1>16, <1>18, <2>1, <2>2
    <3>. QED
      BY <1>5, <1>18, <3>1
  <2>3. CASE r = r0 /\ k = a /\ d \in T
    <3>1. Running(d) /\ rank[d] = r
      BY <1>5, <2>3
    <3>2. d = e
      BY <1>2, <1>18, <2>1, <3>1 DEF RunByOne
    <3>. QED
      BY <1>5, <2>3, <3>2
  <2>. QED
    BY <1>10, <1>18, <2>2, <2>3
<1>19. ASSUME NEW r \in League, NEW k \in Scans, NEW p \in Places, ran'[<<r, p>>] > 0
       PROVE  \E d \in Teamed :
                /\ Place(d) = p
                /\ Added(r, k, d)' \/ (Running(d)' /\ rank'[d] = r /\ ~Passed(d, k)')
  <2>1. PICK d \in Teamed :
          /\ Place(d) = p
          /\ Added(r, k, d) \/ (Running(d) /\ rank[d] = r /\ ~Passed(d, k))
    BY <1>1, <1>2, <1>19 DEF AllAdded
  <2>2. CASE Added(r, k, d)
    BY <1>10, <2>1, <2>2
  <2>3. CASE Running(d) /\ rank[d] = r /\ ~Passed(d, k)
    <3>1. CASE d \in T /\ k = a
      BY <1>5, <1>10, <2>1, <2>3, <3>1
    <3>2. CASE d \in T /\ k # a
      BY <1>5, <2>1, <2>3, <3>2
    <3>3. CASE d \notin T
      BY <1>5, <2>1, <2>3, <3>3
    <3>. QED
      BY <3>1, <3>2, <3>3
  <2>. QED
    BY <2>1, <2>2, <2>3
<1>. QED
  BY <1>1, <1>12, <1>13, <1>14, <1>15, <1>17, <1>18, <1>19, AccountNext

-----------------------------------------------------------------------------
(* Every step                                                              *)

(* Items are run where they begin.                                         *)
LEMMA RanSelf ==
  ASSUME Control, NEW f \in Pool, Thread(f), ~Begins(f)
  PROVE  ran' = ran
<1>1. pc \in [Entry -> {"wait", "valid", "functor", "claim", "fan_in", "met", "release", "done"}]
      /\ f \in Entry
  BY ThreadFacts DEF Control, Typed
<1>2. CASE TakeChunk(f)
  <2>1. pc'[f] # "functor"
    BY <1>2 DEF Begins
  <2>2. ~(index[Base(f)] >= 0)
    BY <1>1, <1>2, <2>1 DEF TakeChunk, GoOn, Go
  <2>. QED
    BY <1>2, <2>2 DEF TakeChunk
<1>3. CASE ~TakeChunk(f)
  BY <1>3
  DEF Begins, Thread, Loop, Construct, NotValid, NextItem, Claim, ClaimOwn, Exhausted, SkipTarget,
    Steal, NoTarget, ClaimStep, Collective, Call, FanIn, Meet, RootActs, Resume, Release, Leave,
    Return, Again, LastFanIn, Deactivate, place
<1>. QED
  BY <1>2, <1>3

(* A member that begins an item or is done with it has nothing to get.     *)
LEMMA NothingToGet ==
  ASSUME Control, Shared, NEW f \in Teamed, Thread(f), Begins(f) \/ NextItem(f)
  PROVE  ~Calling(f)' /\ ((pc[f] = "functor")' => Received(f)')
<1>1. CASE Begins(f)
  <2>1. pc'[f] = "functor" /\ at'[f] = 1
    BY <1>1, BeginStarts
  <2>. QED
    BY <2>1 DEF Calling, Received
<1>2. CASE NextItem(f)
  <2>1. Typed /\ f \in Entry
    BY ThreadFacts DEF Control, Teamed
  <2>2. pc'[f] \in {"fan_in", "valid"} /\ (pc'[f] = "fan_in" => call'[f] = "next")
    BY <1>2, <2>1 DEF NextItem, Enter, GoOn, Go, Typed
  <2>. QED
    BY <2>2 DEF Calling, TeamCall
<1>. QED
  BY <1>1, <1>2

LEMMA ResultsThread ==
  ASSUME Control, Shared, Exactly, CallsAreSound(launch), NEW f \in Pool, Thread(f)
  PROVE  Results'
<1>1. /\ Typed /\ launch \in Launches /\ launch' = launch /\ Teamed' = Teamed
      /\ Results /\ Bags /\ Account /\ InLeague
  BY Others, LaunchKept DEF Control, Typed, Exactly, Shared
<1>2. CASE Call(f)
  BY <1>1, <1>2, ResultsCall
<1>3. CASE Return(f)
  BY <1>1, <1>3, ResultsReturn
<1>4. CASE RootActs(f) /\ Calling(f)
  BY <1>1, <1>4, NotYetAdded, ResultsActs
<1>5. CASE ~Call(f) /\ ~Return(f) /\ ~(RootActs(f) /\ Calling(f))
  <2>1. SUFFICES ASSUME NEW e \in Teamed
                 PROVE  /\ Calling(e)' => IF Acted(e)' THEN Answered(e)' ELSE Contributed(e)'
                        /\ (pc[e] = "functor")' => Received(e)'
    BY <1>1 DEF Results
  <2>2. scratch' = scratch /\ got' = got
    BY <1>5, ValuesKept
  <2>3. CASE e = f /\ (Begins(f) \/ NextItem(f))
    BY <2>3, NothingToGet
  <2>4. CASE ~(e = f /\ (Begins(f) \/ NextItem(f)))
    <3>1. Steady(e)
      BY <1>5, <2>4, SteadyOthers, SteadySelf
    <3>. QED
      BY <1>1, <2>2, <3>1, ResultsStay
  <2>. QED
    BY <2>3, <2>4
<1>. QED
  BY <1>2, <1>3, <1>4, <1>5

LEMMA AccountThread ==
  ASSUME Control, Shared, Exactly, NEW f \in Pool, Thread(f)
  PROVE  Account'
<1>1. /\ Typed /\ launch \in Launches /\ launch' = launch /\ ran \in [Item -> Nat]
      /\ Results /\ Bags /\ Account /\ InLeague
  BY Others DEF Control, Typed, Exactly, Shared
<1>2. CASE RootActs(f) /\ Calling(f) /\ call[f] = "scan"
  BY <1>1, <1>2, AccountAdds
<1>3. CASE ~(RootActs(f) /\ Calling(f) /\ call[f] = "scan")
  <2>1. global' = global
    <3>1. CASE Call(f)
      BY <3>1, Calls
    <3>2. CASE RootActs(f) /\ Calling(f)
      BY <1>3, <3>2 DEF RootActs
    <3>. QED
      BY <3>1, <3>2, ValuesKept
  <2>2. ASSUME NEW e \in Teamed PROVE Onward(e) \/ (e = f /\ Starts(e))
    <3>1. CASE RootActs(f) /\ Calling(f) /\ Base(e) = f
      BY <1>3, <3>1, OnwardActs
    <3>2. CASE ~(RootActs(f) /\ Calling(f) /\ Base(e) = f) /\ e # f
      BY <3>2, SteadyOthers, SteadyGoesOn
    <3>3. CASE ~(RootActs(f) /\ Calling(f) /\ Base(e) = f) /\ e = f
      <4>1. ~(RootActs(e) /\ Calling(e))
        BY <3>3, LeadActs
      <4>2. CASE Begins(e)
        BY <3>3, <4>2, BeginStarts
      <4>3. CASE Call(e) \/ Return(e) \/ NextItem(e)
        BY <4>3, OnwardSelf
      <4>4. CASE ~Begins(e) /\ ~(Call(e) \/ Return(e) \/ NextItem(e))
        BY <3>3, <4>1, <4>4, SteadySelf, SteadyGoesOn
      <4>. QED
        BY <3>3, <4>2, <4>3, <4>4
    <3>. QED
      BY <3>1, <3>2, <3>3
  <2>3. ASSUME NEW r \in League, NEW p \in Places
        PROVE  \/ ran'[<<r, p>>] = ran[<<r, p>>]
               \/ f \in Teamed /\ Starts(f) /\ r = rank'[f] /\ p = Place(f)
    <3>1. CASE Begins(f)
      <4>1. f \in Teamed
        <5>1. CASE Valid(f)
          <6>1. SiteOf(f)
            BY DEF Control, Sites
          <6>. QED
            BY <1>1, <5>1, <6>1 DEF SiteOf, Valid, HasItem, Teamed
        <5>2. CASE TakeChunk(f)
          BY <1>1, <5>2, TakesChunk
        <5>. QED
          BY <3>1, <5>1, <5>2 DEF Begins
      <4>2. /\ Starts(f)
            /\ ran' = [i \in Item |-> IF i = <<rank'[f], Place(f)>> THEN ran[i] + 1 ELSE ran[i]]
        BY <3>1, <4>1, BeginStarts
      <4>3. <<r, p>> \in Item
        BY DEF Item, League
      <4>. QED
        BY <4>1, <4>2, <4>3
    <3>2. CASE ~Begins(f)
      BY <3>2, RanSelf
    <3>. QED
      BY <3>1, <3>2
  <2>. QED
    BY <1>1, <2>1, <2>2, <2>3, AccountGoesOn
<1>. QED
  BY <1>2, <1>3

-----------------------------------------------------------------------------
(* The results stay exact                                                  *)

(* An activation disturbs none of it.                                      *)
LEMMA ExactlyStill ==
  ASSUME Control, Shared, Exactly, Activate \/ UNCHANGED vars
  PROVE  Exactly'
<1>1. /\ Typed /\ launch \in Launches /\ launch' = launch /\ ran \in [Item -> Nat]
      /\ Results /\ Bags /\ Account /\ InLeague /\ Teamed' = Teamed
  BY StillSeen, LaunchKept DEF Control, Typed, Exactly, Shared
<1>2. /\ pc' = pc /\ call' = call /\ rank' = rank /\ at' = at
      /\ ran' = ran /\ scratch' = scratch /\ global' = global /\ got' = got
      /\ \A d \in Pool : Meeting(d)' = Meeting(d) /\ (Out(d)' <=> Out(d))
  BY StillSeen
<1>3. ASSUME NEW e \in Teamed PROVE Steady(e)
  <2>1. PICK b \in Teamed : b = Base(e) /\ b \in Pool /\ e \in Pool
    BY <1>1, BaseFacts
  <2>2. Calling(e)' <=> Calling(e)
    BY <1>2 DEF Calling
  <2>3. Calling(e) => (Acted(e)' <=> Acted(e))
    BY <1>1, <1>2, <2>1, ActedSeen DEF Inside
  <2>. QED
    BY <1>2, <2>2, <2>3 DEF Steady
<1>4. Results'
  BY <1>1, <1>2, <1>3, ResultsStay DEF Results
<1>5. Bags'
  BY <1>1, <1>2 DEF Bags
<1>6. Account'
  <2>1. \A e \in Teamed : Onward(e)
    BY <1>3, SteadyGoesOn
  <2>. QED
    BY <1>1, <1>2, <2>1, AccountGoesOn
<1>. QED
  BY <1>4, <1>5, <1>6 DEF Exactly

(* Every step                                                              *)
LEMMA ExactlyNext ==
  ASSUME Control, Shared, Exactly, CallsAreSound(launch), [Next]_vars
  PROVE  Exactly'
<1>1. CASE Activate \/ UNCHANGED vars
  BY <1>1, ExactlyStill
<1>2. ASSUME NEW f \in Pool, Thread(f) PROVE Exactly'
  <2>1. Results' /\ Account'
    BY <1>2, ResultsThread, AccountThread
  <2>2. Bags'
    BY <1>2, BagsThread DEF Exactly
  <2>. QED
    BY <2>1, <2>2 DEF Exactly
<1>. QED
  BY <1>1, <1>2 DEF Next

(* At first nobody calls, and nothing is added.                            *)
LEMMA ExactlyInit == Init => Exactly
<1>1. SUFFICES ASSUME Init PROVE Exactly
  OBVIOUS
<1>2. /\ launch \in Launches /\ scratch = [e \in Entry |-> EmptyBag]
      /\ got = [e \in Entry |-> EmptyBag] /\ global = EmptyBag
      /\ pc = [e \in Entry |-> "wait"] /\ ran = [i \in Item |-> 0]
  BY <1>1 DEF Init
<1>3. IsABag(EmptyBag) /\ BagToSet(EmptyBag) = {}
  BY BagsOfSets DEF EmptyBag
<1>4. ASSUME NEW e \in Teamed PROVE ~Calling(e) /\ ~Running(e) /\ pc[e] # "functor"
  BY <1>2, TeamFacts DEF Calling, Running
<1>5. Results
  BY <1>4 DEF Results
<1>6. Bags
  BY <1>2, <1>3 DEF Bags
<1>7. RunByOne
  BY <1>4 DEF RunByOne
<1>8. AddedOnce /\ AddedByPassing
  BY <1>2, <1>3 DEF AddedOnce, AddedByPassing, Added
<1>9. AllAdded
  <2>1. \A r \in League, p \in Places : ran[<<r, p>>] = 0
    BY <1>2 DEF Item, League
  <2>. QED
    BY <2>1 DEF AllAdded
<1>. QED
  BY <1>5, <1>6, <1>7, <1>8, <1>9 DEF Exactly, Account

(* What the invariant is for: the results,                                 *)
LEMMA ReturnedIsExact ==
  ASSUME Control, Results, NEW e \in Pool, NEW calls, Returned(e, calls)
  PROVE  /\ e \in Teamed /\ launch.program[at[e] - 1] \in calls
         /\ Exact(e, rank[e], at[e] - 1, launch.program[at[e] - 1], got[e])
<1>1. pc[e] = "functor" /\ at[e] > 1 /\ launch.program[at[e] - 1] \in calls
  BY DEF Returned
<1>2. e \in Teamed
  BY <1>1 DEF Control, Sites, SiteOf, Teamed
<1>. QED
  BY <1>1, <1>2 DEF Results, Received

LEMMA ReturnsAreExact ==
  ASSUME Control, Results
  PROVE  ReduceIsExact /\ BroadcastIsExact /\ ScanIsExact
<1>1. ReduceIsExact
  <2>1. SUFFICES ASSUME NEW e \in Pool, Returned(e, {"reduce", "join"})
                 PROVE  got[e] = Contributions(e, TeamOf(e))
    BY DEF ReduceIsExact
  <2>. QED
    BY <2>1, ReturnedIsExact DEF Exact, Contributions, Parts
<1>2. BroadcastIsExact
  <2>1. SUFFICES ASSUME NEW e \in Pool, Returned(e, {"broadcast"})
                 PROVE  got[e] = Contributions(e, {d \in TeamOf(e) :
                                   launch.team - (Place(d) + 1) = launch.source})
    BY DEF BroadcastIsExact
  <2>2. Exact(e, rank[e], at[e] - 1, "broadcast", got[e])
    BY <2>1, ReturnedIsExact
  <2>. QED
    BY <2>2 DEF Exact, Contributions, Parts, Sends
<1>3. ScanIsExact
  <2>1. SUFFICES ASSUME NEW e \in Pool, Returned(e, {"scan"})
                 PROVE  BagToSet(got[e]) \cap {<<rank[e], at[e] - 1, d>> : d \in TeamOf(e)}
                          = BagToSet(Contributions(e, {d \in TeamOf(e) : d > e}))
    BY DEF ScanIsExact
  <2>2. Exact(e, rank[e], at[e] - 1, "scan", got[e])
    BY <2>1, ReturnedIsExact
  <2>3. PICK x : x = at[e] - 1
    OBVIOUS
  <2>4. BagToSet(got[e]) \cap Parts(rank[e], x, TeamOf(e))
          = Parts(rank[e], x, {d \in TeamOf(e) : d > e})
    BY <2>2, <2>3 DEF Exact
  <2>5. BagToSet(Contributions(e, {d \in TeamOf(e) : d > e}))
          = Parts(rank[e], x, {d \in TeamOf(e) : d > e})
    BY <2>3, BagsOfSets DEF Contributions, Parts
  <2>. QED
    BY <2>3, <2>4, <2>5 DEF Parts
<1>. QED
  BY <1>1, <1>2, <1>3

(* and the global amount.                                                  *)
LEMMA AmountIsTotal ==
  ASSUME Control, Shared, Account
  PROVE  GlobalIsTotal
<1>1. SUFFICES ASSUME Finished PROVE
        /\ \A x \in BagToSet(global) :
             /\ global[x] = 1 /\ <<x[1], Place(x[3])>> \in Item /\ x[2] \in Scans /\ x[3] \in Pool
        /\ \A i \in Item, k \in Scans : \E d \in Pool :
             {e \in Pool : Place(e) = i[2] /\ <<i[1], k, e>> \in BagToSet(global)} = {d}
  BY DEF GlobalIsTotal
<1>2. launch \in Launches /\ Item = League \X Places /\ \A i \in Item : ran[i] = 1
  BY <1>1, SharedOnce DEF Control, Typed, Item, League, LeagueRunsOnce
<1>3. ASSUME NEW e \in Teamed PROVE e \in Pool /\ Place(e) \in Places /\ ~Running(e)
  BY <1>1, <1>2, TeamFacts DEF Finished, Running
<1>4. ASSUME NEW x \in BagToSet(global)
      PROVE  /\ global[x] = 1 /\ <<x[1], Place(x[3])>> \in Item /\ x[2] \in Scans /\ x[3] \in Pool
  <2>1. PICK r \in League, k \in Scans, d \in Teamed : x = <<r, k, d>>
    BY DEF Account, AddedOnce
  <2>. QED
    BY <1>2, <1>3, <2>1 DEF Account, AddedOnce
<1>5. ASSUME NEW i \in Item, NEW k \in Scans
      PROVE  \E d \in Pool :
               {e \in Pool : Place(e) = i[2] /\ <<i[1], k, e>> \in BagToSet(global)} = {d}
  <2>1. PICK r \in League, p \in Places : i = <<r, p>>
    BY <1>2
  <2>2. ran[<<r, p>>] > 0
    BY <1>2, <2>1
  <2>3. PICK d \in Teamed : Place(d) = p /\ Added(r, k, d)
    BY <1>3, <2>2 DEF Account, AllAdded
  <2>4. ASSUME NEW e \in Pool, Place(e) = p, Added(r, k, e) PROVE e = d
    <3>1. PICK t \in League, m \in Scans, f \in Teamed : <<r, k, e>> = <<t, m, f>>
      BY <2>4 DEF Account, AddedOnce, Added
    <3>. QED
      BY <2>3, <2>4, <3>1 DEF Account, AddedOnce
  <2>. QED
    BY <1>3, <2>1, <2>3, <2>4 DEF Added
<1>. QED
  BY <1>4, <1>5

LEMMA ExactlyExact == Control /\ Shared /\ Exactly => ResultsAreExact
<1>1. SUFFICES ASSUME Control, Shared, Exactly PROVE ResultsAreExact
  OBVIOUS
<1>2. TypeOK
  BY <1>1 DEF Control, Typed, Exactly, Bags, TypeOK
<1>3. ReduceIsExact /\ BroadcastIsExact /\ ScanIsExact
  BY <1>1, ReturnsAreExact DEF Exactly
<1>4. GlobalIsTotal
  BY <1>1, AmountIsTotal DEF Exactly
<1>. QED
  BY <1>2, <1>3, <1>4 DEF ResultsAreExact

(* WHAT THE COLLECTIVES OF A TEAM RETURN IS EXACT.  In every launch whose  *)
(* trees agree, whose thieves look at pairs of leads, and whose functor    *)
(* puts a barrier where a result in the base's scratch memory may still be *)
(* read, a member gets from team_reduce what all members of its team       *)
(* contributed to this call for this item, from team_broadcast what the    *)
(* source did, from team_scan what the members of lower rank did above an  *)
(* amount with none of theirs; and when the launch is over the global      *)
(* amount has, of every item, scan and place of a team, one contribution,  *)
(* whatever team ran the item.                                             *)
THEOREM TeamResultsAreExact ==
  ASSUME \A l \in Launches : TreesAgree(l) /\ StealsFromTeams(l) /\ CallsAreSound(l)
  PROVE  Spec => []ResultsAreExact
<1>1. Init => Control /\ Shared /\ Exactly
  BY ControlInit, SharedInit, ExactlyInit
<1>2. Control /\ Shared /\ Exactly /\ [Next]_vars => (Control /\ Shared /\ Exactly)'
  <2>1. SUFFICES ASSUME Control, Shared, Exactly, [Next]_vars
                 PROVE  Control' /\ Shared' /\ Exactly'
    OBVIOUS
  <2>2. launch \in Launches
    BY <2>1 DEF Control, Typed
  <2>3. TreesAgree(launch) /\ StealsFromTeams(launch) /\ CallsAreSound(launch)
    BY <2>2
  <2>4. Control'
    BY <2>1, <2>3, ControlNext
  <2>5. Shared'
    BY <2>1, <2>3, SharedNext
  <2>6. Exactly'
    BY <2>1, <2>3, ExactlyNext
  <2>. QED
    BY <2>4, <2>5, <2>6
<1>3. Control /\ Shared /\ Exactly => ResultsAreExact
  BY ExactlyExact
<1>. QED
  BY <1>1, <1>2, <1>3, PTL DEF Spec

=============================================================================
