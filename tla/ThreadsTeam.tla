----------------------------- MODULE ThreadsTeam -----------------------------
(***************************************************************************)
(* A TeamPolicy launch of the Kokkos Threads pool.  The pool is cut into   *)
(* teams; the teams run a league of work items, each by all of its         *)
(* members, who may call collectives of their team: team_barrier,          *)
(* team_broadcast, team_reduce ("reduce" is the one that adds, "join" the  *)
(* one that takes an operation) and team_scan.                             *)
(*                                                                         *)
(* Teams and pool meet through the same word, m_pool_state, and the        *)
(* collectives through the same scratch memory of each thread.  As in      *)
(* ThreadsCollective a value is the bag of the contributions joined into   *)
(* it, and a thread is its entry in the pool, its reverse rank.  Claiming  *)
(* and stealing a chunk is one step here; WorkStealing takes it apart.     *)
(***************************************************************************)
EXTENDS FanTree, WorkRange, Sequences, Bags
CONSTANTS
  MaxThreads,   \* largest pool
  Launches      \* the launches, see Launch

TeamCall == {"barrier", "broadcast", "reduce", "join", "scan"}
PoolCall == {"start", "end", "fan_in"}

(* pool, threads per core (grain), team size not above team_max, league    *)
(* size and chunk of the policy, its schedule, what the functor calls, the *)
(* rank a broadcast comes from, and the pair [0, left) earlier launches    *)
(* have left in m_work_range                                               *)
Launch ==
  [pool : 1..MaxThreads, grain : Nat \ {0}, team : Nat \ {0}, league : Nat, chunk : Nat \ {0},
   dynamic : BOOLEAN, program : Seq(TeamCall), source : Nat,
   left : Nat]

GrainSize(l) == CeilDiv(l.team, l.grain) * l.grain
Teams(l) == l.pool \div GrainSize(l)
Alloc(l) == l.pool \div Teams(l)

(* "Constraint : pool_size = m_team_alloc * team_count", which init does   *)
(* not enforce; teams that fill their allocation do as well.               *)
IsDivided(l) == l.pool = Alloc(l) * Teams(l) \/ Alloc(l) = l.team

(* Of an empty league the constructor sets nothing, m_team_base included,  *)
(* which valid_dynamic follows.                                            *)
LosesBase(l) == l.league = 0 /\ l.dynamic

ASSUME MaxThreadsAssumption == MaxThreads \in Nat \ {0}
ASSUME LaunchesAssumption ==
  Launches \subseteq Launch
  /\ \A l \in Launches : Teams(l) > 0 /\ IsDivided(l) /\ ~LosesBase(l)

Entry == 0..(MaxThreads - 1)

(* What a member may call next without a barrier: after a team_broadcast   *)
(* or the adding team_reduce the base's scratch memory may be read late,   *)
(* and a broadcast writes the base's while that may be read late.          *)
Sound(first, second) ==
  \/ "barrier" \in {first, second}
  \/ first \in {"join", "scan"} /\ second # "broadcast"

VARIABLES
  launch,    \* the launch
  mi,        \* loop index of the process in start
  state,     \* m_pool_state of each entry
  scratch,   \* scratch_memory()
  global,    \* the global_accum of the functor's scans
  range,     \* m_work_range
  index,     \* m_team_work_index
  target,    \* m_current_steal_target
  stealing,  \* m_stealing
  pc,        \* where each thread is,
  call,      \* the collective it is in
  wi,        \* and its loop index there
  rank,      \* m_league_rank
  end,       \* m_league_end, or m_league_chunk_end if dynamic
  at,        \* which call of the functor comes next
  got,       \* what the last one returned
  ran        \* history: how often each member ran each work item

vars == <<launch, mi, state, scratch, global, range, index, target, stealing, pc, call, wi,
          rank, end, at, got, ran>>
values == <<scratch, global>>
claims == <<range, index, target, stealing>>
place == <<rank, end, at, got, ran>>

Pool == Entries(launch.pool)
Places == 0..(launch.team - 1)
Item == (0..(launch.league - 1)) \X Places
-----------------------------------------------------------------------------
(* The constructor of ThreadsExecTeamMember                                *)

Place(e) == e % Alloc(launch)              \* m_team_rank_rev
Base(e) == Alloc(launch) * (e \div Alloc(launch))
LeagueRank(e) == Teams(launch) - (e \div Alloc(launch) + 1)

Idle(e) ==                                 \* m_invalid_thread
  IF Alloc(launch) > launch.team THEN Place(e) >= launch.team
  ELSE launch.pool - Teams(launch) * launch.team > launch.pool - (e + 1)

Leads(e) == ~Idle(e) /\ Place(e) = 0
TeamOf(e) == {d \in Pool : ~Idle(d) /\ Base(d) = Base(e)}

LeagueBegin(e) == (launch.league * LeagueRank(e)) \div Teams(launch)
LeagueEnd(e) == (launch.league * (LeagueRank(e) + 1)) \div Teams(launch)

(* reset_steal_target(team_size), and the step of get_steal_target(alloc)  *)
FirstTarget(e) == IF e + launch.team >= launch.pool THEN 0 ELSE e + launch.team
NextTarget(t) == IF t + Alloc(launch) < launch.pool THEN t + Alloc(launch) ELSE 0

EmptyWhenPassed(r) == r.first > r.second
Empty(r) == r.first >= r.second

Init ==
  /\ launch \in Launches /\ mi = launch.pool
  /\ state = [e \in Entry |-> "Inactive"]
  /\ scratch = [e \in Entry |-> EmptyBag] /\ global = EmptyBag
  /\ range = [e \in Entry |-> [first |-> 0, second |-> launch.left]]
  /\ index = [e \in Entry |-> -1]
  /\ target = [e \in Entry |-> 0] /\ stealing = [e \in Entry |-> FALSE]
  /\ pc = [e \in Entry |-> "wait"] /\ call = [e \in Entry |-> "start"]
  /\ wi = [e \in Entry |-> 0]
  /\ rank = [e \in Entry |-> 0] /\ end = [e \in Entry |-> 0]
  /\ at = [e \in Entry |-> 1] /\ got = [e \in Entry |-> EmptyBag]
  /\ ran = [i \in Item |-> 0]

Go(e, from, to) == pc[e] = from /\ pc' = [pc EXCEPT ![e] = to]
Set(e, s) == state' = [state EXCEPT ![e] = s]
Enter(e, from, c) ==
  Go(e, from, "fan_in") /\ call' = [call EXCEPT ![e] = c] /\ wi' = [wi EXCEPT ![e] = 0]
GoOn(e, from, to) == Go(e, from, to) /\ UNCHANGED <<call, wi>>

(* start: from the last entry to the first                                 *)
Activate ==
  /\ mi > 0 /\ Set(mi - 1, "Active") /\ mi' = mi - 1
  /\ UNCHANGED <<launch, values, claims, pc, call, wi, place>>

Construct(e) ==
  /\ state[e] # "Inactive"
  /\ rank' = [rank EXCEPT ![e] = IF Idle(e) THEN 0 ELSE LeagueBegin(e)]
  /\ end' = [end EXCEPT ![e] = IF Idle(e) \/ launch.dynamic THEN 0 ELSE LeagueEnd(e)]
  /\ IF launch.league > 0 /\ Leads(e)
       THEN /\ range' = [range EXCEPT ![e] =
                           [first |-> FirstChunk(LeagueBegin(e), launch.chunk),
                            second |-> LastChunk(LeagueBegin(e), LeagueEnd(e), launch.chunk)]]
            /\ target' = [target EXCEPT ![e] = FirstTarget(e)]
            /\ stealing' = [stealing EXCEPT ![e] = FALSE]
       ELSE UNCHANGED <<range, target, stealing>>
  /\ IF launch.dynamic THEN Enter(e, "wait", "start") ELSE GoOn(e, "wait", "valid")
  /\ UNCHANGED <<launch, mi, state, values, index, at, got, ran>>
-----------------------------------------------------------------------------
(* exec_team: valid_static or _dynamic, the functor, next_static or        *)
(* _dynamic; then exec.barrier and fan_in                                  *)

HasItem(e) == rank[e] < end[e]

RunFunctor(e, r) ==
  /\ at' = [at EXCEPT ![e] = 1]
  /\ ran' = [i \in Item |-> IF i = <<r, Place(e)>> THEN ran[i] + 1 ELSE ran[i]]

Valid(e) ==
  /\ HasItem(e) /\ GoOn(e, "valid", "functor") /\ RunFunctor(e, rank[e])
  /\ UNCHANGED <<launch, mi, state, values, claims, rank, end, got>>

NotValid(e) ==
  /\ ~HasItem(e)
  /\ IF ~launch.dynamic \/ Idle(e) THEN Enter(e, "valid", "end")
     ELSE IF Leads(e) THEN GoOn(e, "valid", "claim")
     ELSE Enter(e, "valid", "index")
  /\ UNCHANGED <<launch, mi, state, values, claims, place>>

MeetsTooSeldom(e) == launch.dynamic \/ rank[e] + 2 < end[e]
MeetsAgain(e) == launch.dynamic \/ rank[e] + 1 < end[e]

NextItem(e) ==
  /\ at[e] > Len(launch.program)
  /\ IF MeetsAgain(e) THEN Enter(e, "functor", "next") ELSE GoOn(e, "functor", "valid")
  /\ rank' = [rank EXCEPT ![e] = @ + 1]
  /\ UNCHANGED <<launch, mi, state, values, claims, end, at, got, ran>>
-----------------------------------------------------------------------------
(* get_work_index(team_alloc), by the lead of a team                       *)

Publish(e, c) == index' = [index EXCEPT ![e] = c] /\ Enter(e, "claim", "index")
ClaimStep == <<launch, mi, state, values, place>>

ClaimOwn(e) ==
  /\ ~stealing[e] /\ ~Empty(range[e]) /\ Publish(e, range[e].first)
  /\ range' = [range EXCEPT ![e].first = @ + 1]
  /\ UNCHANGED <<ClaimStep, target, stealing>>

Exhausted(e) ==
  /\ pc[e] = "claim" /\ ~stealing[e] /\ Empty(range[e])
  /\ stealing' = [stealing EXCEPT ![e] = TRUE]
  /\ UNCHANGED <<ClaimStep, range, index, target, pc, call, wi>>

SkipTarget(e) ==
  /\ pc[e] = "claim" /\ stealing[e] /\ target[e] # e /\ Empty(range[target[e]])
  /\ target' = [target EXCEPT ![e] = NextTarget(@)]
  /\ UNCHANGED <<ClaimStep, range, index, stealing, pc, call, wi>>

Steal(e) ==
  /\ stealing[e] /\ target[e] # e /\ ~Empty(range[target[e]])
  /\ Publish(e, range[target[e]].second - 1)
  /\ range' = [range EXCEPT ![target[e]].second = @ - 1]
  /\ UNCHANGED <<ClaimStep, target, stealing>>

NoTarget(e) ==
  /\ stealing[e] /\ target[e] = e /\ Publish(e, -1)
  /\ UNCHANGED <<ClaimStep, range, target, stealing>>
-----------------------------------------------------------------------------
(* The collectives: those of the pool among all its threads, those of a    *)
(* team among its members                                                  *)

Contribution(e) == SetToBag({<<rank[e], at[e], e>>})

Call(e) ==
  /\ at[e] <= Len(launch.program) /\ Enter(e, "functor", launch.program[at[e]])
  /\ scratch' =
       IF call'[e] \in {"reduce", "join", "scan"}
         THEN [scratch EXCEPT ![e] = Contribution(e)]
       ELSE IF call'[e] = "broadcast" /\ launch.team - (Place(e) + 1) = launch.source
         THEN [scratch EXCEPT ![Base(e)] = Contribution(e)]
       ELSE scratch
  /\ UNCHANGED <<launch, mi, state, global, claims, place>>

OfPool(e) == call[e] \in PoolCall
Root(e) == IF OfPool(e) THEN e = 0 ELSE Place(e) = 0
Fans(e) == IF OfPool(e) THEN FanCount(e, launch.pool) ELSE FanCount(Place(e), launch.team)

Arrived(d) == state[d] # "Active"

FanIn(e) ==
  /\ pc[e] = "fan_in" /\ wi[e] < Fans(e) /\ Arrived(FanChild(e, wi[e]))
  /\ wi' = [wi EXCEPT ![e] = @ + 1]
  /\ UNCHANGED <<launch, mi, state, values, claims, pc, call, place>>

FannedInTooEarly(e) == pc[e] = "fan_in" /\ wi[e] + 1 >= Fans(e)
FannedIn(e) == pc[e] = "fan_in" /\ wi[e] >= Fans(e)

Meet(e) ==
  /\ FannedIn(e) /\ ~Root(e) /\ call[e] # "fan_in"
  /\ GoOn(e, "fan_in", "met") /\ Set(e, "Rendezvous")
  /\ UNCHANGED <<launch, mi, values, claims, place>>

(* what the contributions of the last n members of a team add up to, and   *)
(* how many of them are above one                                          *)
Total(e, n) ==
  LET sum[i \in Nat] == IF i = 0 THEN EmptyBag
                        ELSE sum[i - 1] (+) scratch[Base(e) + launch.team - i]
  IN  sum[n]
AndItself(e) == launch.team - Place(e)
Above(e) == launch.team - (Place(e) + 1)

Joined(e) ==
  CASE call[e] = "reduce" -> [scratch EXCEPT ![e] = Total(e, launch.team)]
    [] call[e] = "join" -> [d \in Entry |-> IF d \in TeamOf(e) THEN Total(e, launch.team)
                                            ELSE scratch[d]]
    [] call[e] = "scan" -> [d \in Entry |-> IF d \in TeamOf(e) THEN global (+) Total(d, Above(d))
                                            ELSE scratch[d]]
    [] OTHER -> scratch

RootActs(e) ==
  /\ FannedIn(e) /\ Root(e) /\ call[e] # "fan_in"
  /\ scratch' = Joined(e)
  /\ global' = IF call[e] = "scan" THEN global (+) Total(e, launch.team) ELSE global
  /\ Go(e, "fan_in", "release") /\ wi' = [wi EXCEPT ![e] = 0]
  /\ UNCHANGED <<launch, mi, state, claims, call, place>>

Resume(e) ==
  /\ state[e] # "Rendezvous" /\ Go(e, "met", "release") /\ wi' = [wi EXCEPT ![e] = 0]
  /\ UNCHANGED <<launch, mi, state, values, claims, call, place>>

ReleasesOneFewer(e) == IF ~OfPool(e) THEN Fans(e) - 1 ELSE IF e = 0 THEN launch.pool ELSE 0
Releases(e) == IF ~OfPool(e) THEN Fans(e) ELSE IF e = 0 THEN launch.pool ELSE 0
Released(e, i) == IF OfPool(e) THEN launch.pool - 1 - i ELSE FanChild(e, i)

Release(e) ==
  /\ pc[e] = "release" /\ wi[e] < Releases(e)
  /\ Set(Released(e, wi[e]), "Active") /\ wi' = [wi EXCEPT ![e] = @ + 1]
  /\ UNCHANGED <<launch, mi, values, claims, pc, call, place>>

Left(e) == pc[e] = "release" /\ wi[e] >= Releases(e)

(* from a call of the functor: the result is read here, in the base's      *)
(* scratch memory or one's own                                             *)
Result(e) == IF call[e] \in {"broadcast", "reduce"} THEN scratch[Base(e)] ELSE scratch[e]

Return(e) ==
  /\ Left(e) /\ call[e] \in TeamCall /\ GoOn(e, "release", "functor")
  /\ got' = [got EXCEPT ![e] = IF call[e] = "barrier" THEN EmptyBag ELSE Result(e)]
  /\ at' = [at EXCEPT ![e] = @ + 1]
  /\ UNCHANGED <<launch, mi, state, values, claims, rank, end, ran>>

(* from the barrier of next_static, next_dynamic or the constructor        *)
Again(e) ==
  /\ Left(e) /\ call[e] \in {"start", "next"} /\ GoOn(e, "release", "valid")
  /\ UNCHANGED <<launch, mi, state, values, claims, place>>

(* from the barrier of valid_dynamic                                       *)
TakeChunk(e) ==
  /\ Left(e) /\ call[e] = "index"
  /\ LET c == index[Base(e)] IN
       /\ rank' = [rank EXCEPT ![e] = c * launch.chunk]
       /\ end' = [end EXCEPT ![e] = Least((c + 1) * launch.chunk, launch.league)]
       /\ IF c >= 0 THEN GoOn(e, "release", "functor") /\ RunFunctor(e, c * launch.chunk)
          ELSE Enter(e, "release", "end") /\ UNCHANGED <<at, ran>>
  /\ UNCHANGED <<launch, mi, state, values, claims, got>>

(* from exec.barrier                                                       *)
LastFanIn(e) ==
  /\ Left(e) /\ call[e] = "end" /\ Enter(e, "release", "fan_in")
  /\ UNCHANGED <<launch, mi, state, values, claims, place>>

Deactivate(e) ==
  /\ FannedIn(e) /\ call[e] = "fan_in"
  /\ GoOn(e, "fan_in", "done") /\ Set(e, "Inactive")
  /\ UNCHANGED <<launch, mi, values, claims, place>>
-----------------------------------------------------------------------------
Loop(e) == Construct(e) \/ Valid(e) \/ NotValid(e) \/ NextItem(e)
Claim(e) == ClaimOwn(e) \/ Exhausted(e) \/ SkipTarget(e) \/ Steal(e) \/ NoTarget(e)
Collective(e) == Call(e) \/ FanIn(e) \/ Meet(e) \/ RootActs(e) \/ Resume(e) \/ Release(e)
Leave(e) == Return(e) \/ Again(e) \/ TakeChunk(e) \/ LastFanIn(e) \/ Deactivate(e)

Thread(e) == Loop(e) \/ Claim(e) \/ Collective(e) \/ Leave(e)

Next == Activate \/ \E e \in Pool : Thread(e)

Spec == Init /\ [][Next]_vars

(* Every thread is scheduled, and functors return.                         *)
FairSpec ==
  Spec /\ WF_vars(Activate) /\ \A e \in Entry : WF_vars(e \in Pool /\ Thread(e))
-----------------------------------------------------------------------------
(* Properties.                                                             *)

Pair == [first : Nat, second : Nat]

TypeOK ==
  /\ launch \in Launches /\ mi \in 0..launch.pool
  /\ state \in [Entry -> {"Inactive", "Active", "Rendezvous"}]
  /\ pc \in [Entry -> {"wait", "valid", "functor", "claim", "fan_in", "met", "release", "done"}]
  /\ call \in [Entry -> TeamCall \cup PoolCall \cup {"index", "next"}]
  /\ range \in [Entry -> Pair] /\ target \in [Entry -> Entry]
  /\ index \in [Entry -> Nat \cup {-1}] /\ stealing \in [Entry -> BOOLEAN]
  /\ wi \in [Entry -> 0..launch.pool] /\ at \in [Entry -> 1..(Len(launch.program) + 1)]
  /\ rank \in [Entry -> Int] /\ end \in [Entry -> Nat]
  /\ \A e \in Entry : IsABag(scratch[e]) /\ IsABag(got[e])
  /\ IsABag(global) /\ ran \in [Item -> Nat]

Finished == \A e \in Pool : pc[e] = "done"
InFunctor(e) == pc[e] = "functor" \/ (pc[e] \in {"fan_in", "met"} /\ call[e] \in TeamCall)

(* No member runs a work item twice, or one that the league does not have, *)
(* and when the launch is over every member of one team has run each,      *)
(* whichever team claimed it.                                              *)
LeagueRunsOnce ==
  /\ \A e \in Pool : InFunctor(e) => <<rank[e], Place(e)>> \in Item
  /\ \A i \in Item : ran[i] <= 1
  /\ Finished => \A i \in Item : ran[i] = 1

(* The members of a team work on one item together: the rank they read     *)
(* from the base's word, or count themselves, is the same.                 *)
TeamTogether ==
  \A e \in Pool : InFunctor(e) =>
    \A d \in TeamOf(e) : InFunctor(d) => rank[d] = rank[e]

(* the contributions of ds to the call a member of e's team returned from  *)
Returned(e, calls) == pc[e] = "functor" /\ at[e] > 1 /\ launch.program[at[e] - 1] \in calls
Contributions(e, ds) == SetToBag({<<rank[e], at[e] - 1, d>> : d \in ds})

(* "Returns join of all values of the team members."                       *)
ReduceIsExact ==
  \A e \in Pool : Returned(e, {"reduce", "join"}) => got[e] = Contributions(e, TeamOf(e))

(* Every member gets the value of the member it asked for.                 *)
BroadcastIsExact ==
  \A e \in Pool : Returned(e, {"broadcast"}) =>
    got[e] = Contributions(e, {d \in TeamOf(e) : launch.team - (Place(d) + 1) = launch.source})

(* A scan returns the contributions of the members of lower rank, above    *)
(* an amount that is the same for the whole team and has none of theirs.   *)
ScanIsExact ==
  \A e \in Pool : Returned(e, {"scan"}) =>
    BagToSet(got[e]) \cap {<<rank[e], at[e] - 1, d>> : d \in TeamOf(e)}
      = BagToSet(Contributions(e, {d \in TeamOf(e) : d > e}))

(* "The global inter-team accumulation value will, at the end of the       *)
(* league's parallel execution, be the scan's total": of every item, scan  *)
(* and place in a team it has one contribution, once.                      *)
Scans == {k \in 1..Len(launch.program) : launch.program[k] = "scan"}
GlobalIsTotal ==
  Finished =>
    /\ \A x \in BagToSet(global) :
         /\ global[x] = 1 /\ <<x[1], Place(x[3])>> \in Item /\ x[2] \in Scans /\ x[3] \in Pool
    /\ \A i \in Item, k \in Scans : \E d \in Pool :
         {e \in Pool : Place(e) = i[2] /\ <<i[1], k, e>> \in BagToSet(global)} = {d}

(* What the team collectives return, and leave in the global amount, is    *)
(* exact.                                                                  *)
ResultsAreExact == TypeOK /\ ReduceIsExact /\ BroadcastIsExact /\ ScanIsExact /\ GlobalIsTotal

(* The launch is joined: the root is done after everybody else.            *)
RootIsLast == pc[0] = "done" => \A e \in Pool : pc[e] = "done" /\ state[e] = "Inactive"

(* The launch ends.                                                        *)
LaunchEnds == <>Finished
=============================================================================
