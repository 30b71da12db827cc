# Verification of the node-level runtime of Trilinos

Trilinos is some sixty packages of scientific software.  Most of it is
numerical: its correctness is a matter of floating point and of linear algebra,
and no protocol is at stake.  The parts that carry protocols of their own are
in the node-level runtime (Kokkos), an older thread pool (ThreadPool), the
reference-counting layer (Teuchos) and the communication plans (Tpetra).  This
project models the ones that share memory between threads: the thread pool of
the `Kokkos::Threads` execution space in
`src/packages/kokkos/core/src/Threads`, from how its threads are created, told
to run a functor, joined, put to sleep and reaped to how they meet, divide the
work, form teams and run tasks; the reference-counted allocations that every
Kokkos view rests on; and the older Thread Pool Interface, TPI.

Paths below are relative to `src/packages/kokkos/core/src` unless they begin
with `src/`.

## 1. Inventory

`PROJECT.json` lists every component with the reason for what is left out.
The ones with state or a protocol worth a model:

| component | state it keeps | operations | talks to | what is hard | correct when |
|---|---|---|---|---|---|
| Threads pool (`Threads/Kokkos_ThreadsExec.cpp`, `_base.cpp`) | table `s_threads_exec`, `s_thread_pool_size`, `s_current_function` and its argument, a word `m_pool_state` per thread, the global mutex, scratch of each thread | `initialize`, `spawn`, constructor, `driver`, `start`, `fence`, `execute_serial`, `resize_scratch`, `sleep`, `wake`, `finalize`, destructor | its workers, through those words only; hwloc for binding; pthreads | unsynchronised words, activation order, join through the root alone, failed spawns and bindings, illegal call orders | a launch runs once in each thread and is joined; nobody calls null; finalize leaves nothing |
| fan-in tree (`fan_size`, `m_pool_fan_size`) | none (arithmetic) | parent/child of an entry | used by every join | pool sizes that are not powers of two | it is a tree rooted at entry 0 that spans the pool |
| collectives (`Threads/Kokkos_ThreadsExec.hpp`) | `m_pool_state`, `reduce_memory()` of each thread | `barrier`, `all_reduce`, `scan_small`, `scan_large`, `fan_in`, `fan_in_reduce` | threads of one launch among themselves | threads in two different collectives at once, values overwritten before they are read | results are exact, nobody leaves before all have come, no thread waits for ever |
| dynamic schedule (same file, `Threads/Kokkos_Threads_Parallel.hpp`, `Kokkos_ExecPolicy.hpp`) | `m_work_range`, steal target of each thread | `WorkRange`, `set_work_range`, `get_work_index`, stealing | owner and thieves, by 16-byte compare-and-swap; `barrier` | torn and stale pairs, rounding to chunks | every index runs once; the loop ends |
| teams (`Threads/Kokkos_ThreadsTeam.hpp`) | `m_pool_state` again, `scratch_memory()` of each member, `m_team_work_index`, place in team and league | team fan-in and fan-out, barrier, broadcast, reduce, scan, `next_static`, `next_dynamic` | threads of a team, and the pool through the same words | laps of consecutive collectives, a team's meeting seen by the pool's | as for the collectives, per team; every work item runs once on every member |
| task policy (`Threads/Kokkos_Threads_TaskPolicy.*`) | ready stacks, wait queues, dependences, reference counts, task states, count of ready tasks | `create`, `add_dependence`, `spawn`, `respawn`, `latch_add`, `wait`, futures assigned and dropped | tasks and the application, from all threads | lock-free stacks, queues closed while they are joined, counts reaching zero once | a task runs after its dependences and is freed once; `wait` returns when all is done |
| TPI ThreadPool (`src/packages/ThreadPool/src`) | `m_control` of each thread, the launch, the count to claim calls from, locks | `TPI_Init`, `TPI_Run*`, `TPI_Start*`, `TPI_Wait`, `TPI_Block`, `TPI_Unblock`, `TPI_Finalize` | its workers, its locks | join through a tree, calls claimed by counting past zero, threads that cannot be created | each call is made once; reductions are exact; nothing runs between launches |
| memory pool (`Kokkos_MemoryPool.hpp`) | superblock bitsets, active superblocks | `allocate`, `deallocate` | concurrent callers | exchange of superblocks | no block is handed out twice |
| allocation tracking (`impl/KokkosExp_SharedAlloc.*`) | reference counts, ring of records whose root pointer is its lock, tracking flag | trackers made, copied, assigned, destroyed, `find`, `is_sane`, the copy of a functor in `parallel_for` | concurrent callers | last reference against traversal, a link that is also a lock | a record is freed once, after the last reference; the ring stays a ring |
| UnorderedMap (`src/packages/kokkos/containers/src`) | hash lists, bitset of slots | insert, erase, rehash | concurrent inserters | two inserts of one key | one entry per key |
| RCP nodes (`src/packages/teuchos/core/src/Teuchos_RCPNode.*`) | strong and weak counts, tracing map | create, copy, release, has-ownership | owners | dispose while the last weak handle lives | freed once, after the last handle |
| Tpetra Distributor (`src/packages/tpetra/core/src/Tpetra_Distributor.*`) | send and receive plans | `createFromSends`, `doPosts`, `doWaits` | other processes by MPI | plans that disagree | every posted receive has its send |

How the modelled parts interact.  The application thread ("the process") calls
`parallel_for` and the like; each `execute()` in
`Threads/Kokkos_Threads_Parallel.hpp` calls `resize_scratch` if it needs memory,
then `start`, then `fence`.  `start` stores the functor's entry in
`s_current_function` and writes `Active` into the word of every thread; each
worker's `driver` loop sees its word change and calls the function.  The
function may call collectives, and ends in `fan_in`: wait for the fan children,
then (in `driver`) write `Inactive` into one's own word.  `fence` spins on the
root's word only.  There are no locks on this path: it is all ordering.

The hazards this code is exposed to, each at its line and with the property
that guards it, are in `PROJECT.json` under `hazards`.

## 2. The modules

| module | stands for |
|---|---|
| `FanTree` | `fan_size` and the child indices; what makes them a tree |
| `ForkJoin` | abstract: a launch is run once by every member and then over |
| `ThreadsExec` | the pool: one action per access to a shared word |
| `ThreadsExecInv` | its inductive invariant |
| `ThreadsExecProofs` | theorems about it |
| `Rendezvous` | abstract: members meet, nobody leaves a meeting somebody has not come to |
| `ThreadsCollective` | the collectives of one launch |
| `ThreadsCollectiveProofs` | they are a rendezvous, and their results exact |
| `WorkRange` | how a `RangePolicy` is divided, as operators |
| `TPIFan` | the tree of TPI |
| `ArithmeticProofs`, `PoolArithmeticProofs` | both trees are trees, both divisions exact, bags join |
| `WorkStealing` | the dynamic schedule: claiming and stealing chunks |
| `WorkStealingProofs` | no index is run twice, none is lost |
| `ThreadsTeam` | a `TeamPolicy` launch: teams, their league and their collectives |
| `ThreadsTeamProofs` | a team stays together, the league is run once, results are exact, the launch is joined |
| `TaskGraph` | abstract: a task starts after what it depends on, and completes |
| `ThreadsTask` | the task policy |
| `WorkPool` | abstract: each call of a launch is made once and returns before the launch ends |
| `TPI` | the Thread Pool Interface |
| `TPIProofs` | it is quiet between launches, launches are exact, it is a work pool |
| `SharedPointer` | abstract: shared, borrowed, and freed when neither |
| `SharedAlloc` | records, trackers, the ring and the tracking flag |
| `SharedAllocProofs` | the ring is whole, and records are shared pointers |
| `MC*` | instances for TLC |

The machines of the Kokkos pool share `FanTree` and `WorkRange` and are
otherwise composed by contract: `ThreadsExec` takes a functor's body as one step
followed by its fan-in; `ThreadsCollective` opens that body, between the
activation and the final deactivation of one launch; `WorkStealing` uses
`barrier()` as the meeting that `ThreadsCollective` shows it to be
(`IsRendezvous`).  `ThreadsTeam` opens the body of a team launch, where the
barrier of the pool and those of the teams are one protocol on the same words,
so it models both; it claims a chunk in one step, which `WorkStealing` takes
apart.  `ThreadsTask` opens the body of the launch in `wait`, and runs a team's
member in one step, which `ThreadsTeam` takes apart.

### ThreadsExec

Entries of `s_threads_exec` name the workers.  A thread of rank *r* sits at
entry `size-(r+1)`; entry 0 is the root, and is the process itself when the
process is part of the pool (`SpawnBegins` = 1).  `registry` is the table,
`state` the words `m_pool_state`, `fn` the function pointer with the kind of
function it holds.  `mpc`/`mi`/`ret` are the process's position, loop index
and the caller of `fence`; `wpc`/`wi` those of each worker.  An action is one
access to a word another thread may use, and all local work up to the next.
The application is a choice of any call the run allows in the pool's present
condition (down, up, asleep).

Details that matter and are modelled: `initialize` clears the table before it
checks whether it may; a failed binding gives `~0u`, stored in an `int`, so the
compare-and-swap goes to the word before the table (`Stray`), whose content is
left open; a worker of a pool with hwloc picks its own entry; spawns fail one
by one and `initialize` goes on; `execute_sleep` deactivates its thread and
`driver` does so again; `resize_scratch` resizes only when a part is too small,
to a size whose two parts are compared separately.

Left out: the values of `bind` and `thread_mapping`, which are choices; detail
of hwloc; `print_configuration` and other read-only operations; the return
values of `sleep` and `wake`; weak memory (the code puts `memory_fence` around
its accesses, and the words are volatile: accesses are taken as atomic and in
program order).  Detached threads are the same as others here.

### ThreadsCollective

One launch in which every thread calls the same sequence of collectives
(`Programs`).  A value in `reduce_memory()` is the bag of the contributions
`<<round, thread>>` joined into it: a contribution lost, joined twice or left
over from an earlier collective shows.  Join order is not modelled.  The
`2*count` words scans use are two bags, `value` and `scanned`.  The root's
serial part in `all_reduce` and `scan_small` is one action: every other thread
is then waiting for it.

### WorkRange and WorkStealing

`WorkRange` has the arithmetic of `RangePolicy::WorkRange` and
`set_work_range`, for any positive chunk size; the source's
`( x + mask ) & ~mask` is rounding up to a multiple only for a power of two,
which is what the library computes and what `set_chunk_size` expects without
checking.  In `WorkStealing` a thread is its entry; `m_work_range` is a pair
read in two steps (the 16-byte copy may tear) and swapped in one.  The search
for a steal target, which reads without swapping, is one step per thread looked
at: ranges only shrink (`RangesShrink`), so a torn look can only find work that
has gone since, and the claim that follows finds that out itself.

### ThreadsTeam

A thread is its entry in the pool; its place in its team is counted the same
way.  `Teams`, `Alloc` and `TeamOf` are what `TeamPolicyInternal::init` and the
constructor of `ThreadsExecTeamMember` compute from pool, grain and team size;
threads that are left over are `Idle`, in no team.  `call` says which meeting a
thread is in: one of its team (`TeamCall`, and "index" and "next" of the
league's loop) or one of the pool ("start", "end", "fan_in"); all go through
`FanIn`, `Meet`, `RootActs` and `Release` with the fan of the team or of the
pool.  Values are bags of contributions, as in `ThreadsCollective`; the team
scan's global amount is a bag of its own.  `got` is what the functor's last
call returned, read where the code reads it: `team_reduce` and
`team_broadcast` from the base's memory, after the fan-out.

### ThreadsTask

The application and the functors are programs: for each run of each task a
script of creations, dependences, spawns, futures given away and dropped,
counts of latches, respawns.  `ref`, `state`, `wait`, `next`, `dep` are the
fields of a task, `queue` the heads of the ready stacks, three priorities for
team and for serial tasks.  `wait` of a complete task is `Denied` and a stack
being popped is `Lock`, as in the code.  An action is one access to such a word
and the local work up to the next; `ret` is where `schedule_task` was called
from.  `spawn` raises the count of references that the policy drops at the end
of `complete_executed_task`.  `program.memory` bounds the tasks that have
memory at a time: a script that creates one more respawns for memory, and the
third stack is passed over until there is room, as `is_empty` tells the driver.  `Live` and `IsEmpty` are what the tasks see of
`MemoryPool`: a count of blocks, while the code calls a pool empty as soon as all
its superblocks are four fifths full, and may still find a block after that.

### TPI

`control` is `m_control`: raised from the last worker to the first, lowered by
each thread after its children.  `then` says what the master does after raising
them: take part and return, return at once (`TPI_Start`), or finish `TPI_Init`,
whose created threads meet in the same barrier once.  Calls are made by rank or
claimed by counting down a word which goes below zero.  `value` is the bag of
what a reduction has joined, with one element for each initial value.
`TPI_Block` is a launch whose work waits for a mutex the master holds.

### SharedAlloc

`next` and `prev` are the ring; null in `next[Root]` is the lock.  `op[t]`
holds the step a thread is at with its local variables, `held` its counting
trackers and `bare` the copies a launch made while tracking was off.  A thread
copies what it or another thread holds (`Reachable`): sharing between threads
is the program's matter, what keeps the source alive meanwhile is the contract
of any shared pointer.  "thrown" stands for every exception of the code;
`TypeOK` excludes it.

Beside some definitions there is a second one with the same parameters, such as
`NotWaitedFor` beside `Settled`.  Nothing uses it: it is a plausible mistake in
that place, and `PROJECT.json` names the property that excludes it.

## 3. What the runs check

| run | instance | checks |
|---|---|---|
| `PoolArithmetic` | every pool size 1..130; ranges within 0..14, 1..5 threads, chunks 1, 2, 4 | `FansAreTrees`: children come later and inside the table, subtrees nest, are disjoint and the root's is the pool; in TPI every worker has one parent. `RangesAreDivided`: both schedules give every index to one thread (the dynamic one for ranges that begin on a chunk) |
| `ThreadsPool` | pools of 1..4, process in or out, all orders of initialize, for, reduce, fence, finalize while the pool is up, three scratch requests, fair | `JoinIsSound`, `NoActivationLost`: a launch is joined; `AllocationIsSafe`: scratch is ready, allocated by one thread at a time and not in parallel; `NoCrash`; `FinalizeReaps`; the pool implements `ForkJoin` with its fairness; calls return; `Inductive` is an invariant |
| `ThreadsSpawn` | pools of 1..3, spawns and bindings may fail, one thread left behind, sleep and wake, fair | a pool that comes up is complete; no worker passes the lock while the pool sleeps; once `wake` is called, all of them and the process pass it (`SleepEndsWithWake`) |
| `ThreadsCollective` | 1..4 threads, every program of up to two collectives; 5 and 6 threads, one `scan_large` | exact results; `LaunchIsWhole`: functors run in active threads, the root is last; the meetings implement `Rendezvous`; the launch ends |
| `WorkStealing` | 1..3 threads, six ranges, pairs left from an earlier launch | nothing runs twice, everything runs, no owner leaves a chunk, ranges shrink, loops end |
| `ThreadsTeam` | pools of 2..5, static and dynamic, whole and cut-off leagues, idle threads, pairs left over, every sound pair of team collectives | each member runs each item once, a team stays on one item, results are exact, the root is last, the launch ends |
| `ThreadsTask` | two threads, five programs, tasks serial or of a team of two | memory: counts are exact, nothing dangling is followed; no consistency check of the code fails; a task waits in one place; the count covers the work; `TaskGraph` is implemented; `wait` returns |
| `TPI` | pools of 1, 2 and 4, work for none, two and four calls, with and without a lock, thread creation may fail | a launch makes the calls it was asked for and joins their results; all is quiet between launches; `WorkPool` is implemented; started work runs and calls return |
| `SharedAlloc` | two threads, two records, two trackers of a record each, one lookup, check or launch each | the ring is sound whenever it is unlocked, traversals stay in it, find and is_sane are right; `SharedPointer` is implemented; what nobody refers to is freed and calls return |

Runs that end in a violation, each a disagreement between the code and what its
comments, documentation or tests say (`findings` quotes both):

| run | what happens |
|---|---|
| `ThreadsSleepTwice` | a worker leaving `sleep` deactivates itself twice and nothing waits for the second time; after two sleeps it can fall on the `Terminating` that `finalize` wrote, and `finalize` hangs |
| `TeamsOfThree` | in a pool of six with teams of three, entry 0 takes entry 4's meeting in its team for its arrival in the pool, and the launch is over while the other team runs |
| `TeamsAfterTeams` | a team of two in a pool of three under the dynamic schedule: its lead steals from the entry after the team, an idle thread whose `m_work_range` nobody has set since an earlier launch, and an item is run twice |

`ThreadsSleepTwice` in steps.  A worker that leaves `sleep` writes `Inactive` in
`execute_sleep` (`Threads/Kokkos_ThreadsExec.cpp:282`) and again in `driver`
(`:130`).  In a pool of two that the process is not in: the root's second store,
left over from the first wake, comes after `sleep` has activated it again
(`:377`) and is lost on it; the `fence` of the second wake looks at the root
alone (`:323`) and returns while the child is still in `execute_sleep`;
`resize_scratch(0,0)` of `finalize` activates the child and takes its first
`Inactive` for the end of its turn (`:418`); its second falls on `Terminating`
(`:783`), and `finalize` waits at `:785`.  One sleep and wake, as in
`unit_test/TestThreads.cpp`, cannot hang: each worker has one store pending at
most, and `execute_serial` takes that one for the end of its turn before
`Terminating` is written.  (A launch can
be lost after one, see below.)

Other behaviour the models show when the constants allow it, which the passing
runs therefore leave out:

* A second `initialize` empties the live table (`Threads/Kokkos_ThreadsExec.cpp:617`),
  then throws; `fence` then dereferences null (`NoCrash` fails with
  "initialize" in `CallsAwake`).
* A thread whose binding failed with `~0u` claims entry -1
  (`Threads/Kokkos_ThreadsExec.cpp:164`), is not waited for, and may call the
  function pointer after it was zeroed (`NoCrash` fails with `BindMayFail`).
* `get_steal_target` compares an entry with a rank
  (`Threads/Kokkos_ThreadsExec.hpp:545`): with two threads nothing is ever
  stolen, and thieves of larger pools stop early.  Every chunk still runs,
  by its owner.
* Under `Schedule<Dynamic>` a range that begins inside a chunk loses its first
  indices (`Threads/Kokkos_ThreadsExec.hpp:475`: 1..6 in chunks of two);
  `Aligned` leaves such ranges out.
* sleep, wake, then a launch: the second deactivation of a worker overwrites
  its activation, `fence` returns without its share (`JoinIsSound` fails; the
  cause is that of `ThreadsSleepTwice`).
* `in_parallel()` is true in application code while a synchronous pool sleeps,
  and `fence()` on such a pool spins on the process's own word for ever
  (`InParallelIsExact`, `CallsReturn` fail with `fence` or nothing in
  `CallsAsleep`).
* After an `initialize` in which a spawn failed, the pool size is zero and
  `finalize` leaves the threads that were spawned (`FinalizeReaps` fails with
  `SpawnMayFail`).
* Two scans in a row of which the second is `scan_large`: a thread waits for
  one that is not its child and takes the state left from the first scan for
  the second's (`ScanIsExact` fails for `<<"scan_large", "scan_large",
  "fan_in">>`).  The call in `ParallelScan` is commented out, so nothing in the
  repository does this today; `MCThreadsCollective` leaves such programs out.
* Teams: after `team_broadcast` and the adding `team_reduce` the members read
  the base's memory behind the fan-out, while the base may already be in the
  next collective and overwrite it (a comment at
  `Threads/Kokkos_ThreadsTeam.hpp:252` says as much of a similar case); `Sound`
  in `ThreadsTeam` says where a barrier has to be.
* A team allocation that does not divide the pool and is larger than the team
  (a pool of 11, teams of 4): "pool_size = m_team_alloc * team_count" is a
  comment, nothing enforces it; `IsDivided` leaves this out.  For an empty
  league the constructor sets nothing (`Threads/Kokkos_ThreadsTeam.hpp:359`):
  the static loop ends at once, and the run has such a launch; under the dynamic
  schedule `valid_dynamic` reads `m_invalid_thread`, which was not set, and
  follows `m_team_base`, which is null (`:451`); `LosesBase` leaves this out.  A
  `parallel_reduce` over a `TeamPolicy` takes the static loop whatever its
  schedule.
* Tasks: dropping the last future of a task that was given dependences but
  never spawned fails the check of a deleted task's state (the programs spawn
  whatever they give dependences), and the functor of a task that was never
  spawned is not destroyed.
* TPI: `TPI_Start_threads` waits for the work although `TPI.h` says that the
  master returns at once, and `TPI_Init(256)` initialises one thread past the
  table.  Work started before `TPI_Init` and waited for after it is dropped.
  `local_block`, the work of `TPI_Block`, blocks the calls of every rank but 0,
  and rank 0 is given to the last worker: that one keeps spinning.
* Allocations: assigning a tracker to itself gives up the record before it
  refers to it again, and frees it if it was the last (`AnotherOf` leaves this
  out).  The tracking flag is one for all threads: a tracker another thread
  copies while a launch has claimed it is not counted (`IsTracking` in `Copy`
  leaves this out).  `print_host_accessible_records` follows the ring unlocked
  and can meet the null of its lock.

### Bounds

`MaxThreads` = 4 has the first tree of depth two (0 over 2 over 3) and an entry
with two children, in a pool that is a power of two, and 3 one that is not;
everything the pool does to an entry depends on its parent and children alone,
and `PoolArithmetic` covers the tree itself up to 130.  `scan_large` needs more: the
wait for a neighbour's *scan* (not just its reduction) only bites when that
neighbour waits too, the chain 1, 2, 4 of a pool of five, hence the larger
pools in `ThreadsCollective`.  Three scratch requests, one larger in each part and one
empty, take `resize_scratch` through each of its outcomes.  `MaxLeaked` bounds
the threads earlier failed initializations left behind; they only wait.  Two
collectives show every ordered pair, and so every overlap of one round with the
next; a thread is never two rounds ahead (`IsRendezvous`).  In `WorkStealing`
three threads give two thieves and an owner on one range; six ranges are: even,
fewer chunks than threads, a cut-off last chunk, begins that are not zero, and
empty.  `ran` is bounded by the model itself, no counter needs a cap.


Teams up to four in pools up to five have a team with a tree of depth two, two
teams that steal from each other, a team alone in its allocation and threads in
no team; six threads in teams of three is the smallest pool whose fan-in tree
joins threads of two teams by a non-base member.  Two threads and three tasks
with a latch are enough for a push to meet a pop, for two completions to meet
on one wait queue and for a task to be freed while another looks at it; three
threads exceed what TLC explores in minutes.  Four threads are TPI's first tree
of depth two, and four calls are both more than the threads of a pool of two
and as many as those of a pool of four.  Two records and two threads give a
ring that is empty, has one and has two records while another thread inserts,
removes or traverses; `MaxRefs` bounds the trackers of a thread, `MaxCalls` its
lookups, checks and launches.  A record and a task are used once, so that what
is freed can be told from what is reused; addresses that come back are not
modelled.

What the passing runs leave out, and which hazards they therefore cover in part
only (a `note` in `PROJECT.json` says so of each): `ThreadsPool` has no failed
spawns or bindings (`SpawnMayFail`, `CanBind`), so that `FinalizeReaps` and
`NoCrash` do not speak of them, and no sleep, since a second deactivation breaks
the join; `ThreadsSpawn` has all three, without launches in a pool that is up,
and checks what holds with them.  `Sound` keeps a `scan_large` away from a scan
before it and, in teams, puts a barrier where a result may be read late;
`IsTracking` and `AnotherOf` keep threads from copying while another has claimed
the tracking flag and from assigning a tracker to itself.  `TPI_Init` does not
look at `m_work_routine`; `Initialize` in `TPI` is guarded by it.

`CHECK_DEADLOCK FALSE` appears where the system stops: a launch that is over,
a size that has reached its bound, and an application with nothing it may call.

### Fairness

Each thread has weak fairness of its own steps, the process of the steps inside
a call, and a spawned thread of its first step.  Every wait in the code is a
spin that yields (`spinwait`, `wait_yield`), so a thread that can go on is run
by the operating system in time; the condition each wait is for stays true until
the waiter has seen it, so strong fairness is never needed; the locks of
`SharedAlloc` and the global lock of the pool are the exceptions: there the calls
are bounded, or a thread takes the lock once each time it is activated, so that
the others get their turn.  Functors and work subprograms return.
The application is not assumed to call anything; in `ThreadsTask`, where it is
a script, it goes on to the end of it.

## 4. What is proved

tlapm checks these for every value of the constants.

* `TypeCorrect` (`ThreadsExecProofs`): every variable keeps its type, in every
  protocol of calls, sleeping and failing included.
* `InductiveCorrect` (`ThreadsExecProofs`): `Spec => []Inductive`, for
  applications that are *disciplined*: they never sleep, and do not initialize
  a pool that is up.  Both are what the findings above break, so the assumption
  (`Disciplined`) cannot be dropped.
* From it: `LaunchesAreJoined` (`JoinIsSound`), `FanInIsSound`
  (`SubtreeIsDone`, the fan-in of every entry), `ResizeIsExclusive`
  (`SerialIsExclusive`), `PoolComplete`, `ActivationsAreServed`
  (`NoActivationLost`, an action property), and `NobodyCrashes`, which also
  assumes that no binding fails.
* `StrongCorrect` (`ThreadsExecProofs`): `Inductive` with `CallOK`,
  which relates the call being executed to where the process is, and
  `MemoryOK`, which says which entries have been given the scratch that
  `resize_scratch` believes they have.  From it `AllocationSafe`
  (`AllocationIsSafe`), the refinement `ForkJoinImplemented` (`IsForkJoin`),
  and `FinalizeLeavesNothing` (`FinalizeReaps`), which also assumes that
  neither a spawn nor a binding fails: the reaping counts on a thread in every
  entry.
* `LaunchesAreWhole` (`LaunchIsWhole`), `CollectivesMeet` (the refinement
  `IsRendezvous`) and `ResultsCorrect` (`ResultsAreExact`)
  (`ThreadsCollectiveProofs`): for every pool and all sequences of collectives,
  nobody leaves one before everybody has entered it, and functors run only in
  active threads; and every thread gets from each the contributions it should.
  `ResultsCorrect` assumes `ScansSeparated`: a `scan_large` comes first in its
  launch or right after a `barrier` or an `all_reduce`.  The runs keep to that
  too (`Sound`, of two collectives), because of what is said about two scans in
  a row above.
* `FanInIsATree` and `SpansAreATree` (`ArithmeticProofs`): the fan-in of the
  Kokkos pool is a tree over its threads, for every number of threads, and TPI's
  for every number that `TPI_Init` accepts.  `EveryFanIsATree`
  (`PoolArithmeticProofs`) is the invariant `FansAreTrees` of the run, for any
  bound of the enumeration.
* `StaticPartition` and `DynamicDivision` (`ArithmeticProofs`): for every range,
  every number of threads and every chunk size, each index belongs to the part
  of exactly one thread, and, when the range begins on a chunk, to exactly one
  chunk of one thread.  `EveryRangeIsDivided` (`PoolArithmeticProofs`) is the
  same of the enumeration TLC checks.
* `ClaimsSound`, `NoIndexIsLost` and `PublishedRangesShrink`
  (`WorkStealingProofs`): the dynamic schedule runs each index at most once and
  leaves none out, for every pool and range.  `NoIndexIsLost` assumes that the
  ranges begin on a chunk: `set_work_range` rounds the begin of a range up to a
  chunk (`Threads/Kokkos_ThreadsExec.hpp:475`), and nobody runs what is before it.
* `RingSafe` and `IsASharedPointer` (`SharedAllocProofs`): the ring of records
  is whole for whoever holds its lock, and every step is one of the abstract
  shared pointer, for every finite set of threads, every set of records, and
  every number of trackers.
* `QuietBetweenLaunches`, `LaunchesAreExact` and `ImplementsWorkPool`
  (`TPIProofs`): the workers of a TPI pool are all at rest between launches and
  none is left by a pool that is ended or could not be made; a launch makes each
  of its calls once, once on each thread when there are as many, and its
  reduction ends with each contribution once; and every step is one of the
  abstract work pool, for every pool and every number of calls.

* `TeamIsTogether` (`TeamTogether`), `RootIsTheLast` (`RootIsLast`),
  `LeagueIsRunOnce` (`LeagueRunsOnce`) and `TeamResultsAreExact`
  (`ResultsAreExact`) (`ThreadsTeamProofs`): for every pool,
  team size, league, chunk and program, in launches of which `TreesAgree`, a team
  works on one item at a time and the root is done after everybody else; if
  also `StealsFromTeams` holds, every item is run once by every member of one
  team; and if also `CallsAreSound` holds, what team_broadcast, team_reduce and
  team_scan return is exact, and at the end the global amount of the scans has,
  of every item, scan and place, one contribution.
  `TreesAgree` says that a thread that waits in its team is waited for, in
  the pool, by its parent in the team; it fails for the launch of `TeamsOfThree`,
  and `TeamsOfPowersOfTwo` shows that it holds with one team, and whenever the
  allocation of a team is a power of two.  `StealsFromTeams` is what
  `TeamsAfterTeams` breaks: with pairs left over, the allocation is the team and
  divides the pool.  `CallsAreSound` says that two calls of the functor that
  follow each other are `Sound` (a barrier stands between them where a result in
  the base's memory may be read late) and that broadcasts come from a member of
  the team.  Every launch of the run `ThreadsTeam` satisfies all three.

Why `Inductive` is what it is.  `JoinIsSound` looks at the pool between
launches, but it is true there only because of what each thread was doing
during the launch.  The process's program counter says which phase the pool is
in, and in each phase an entry has a few possible conditions: *newborn* or
already settled while the pool is built (`BuildOK`); *quiet* at rest
(`RestOK`); quiet, or the one thread *resizing*, in `execute_serial`
(`SerialOK`); not yet activated, *working*, or *done with its whole subtree*
during a launch (`LaunchOK`); quiet, *dying* or *gone* while it is reaped
(`ReapOK`).  A working thread in its fan-in has waited for a prefix of its
children, and each of those is done with *its* subtree: this is the clause
that makes the root's word stand for the pool, by `SubtreesNest` and
`RootSpansPool`.  It is preserved because activation goes from the last entry
to the first, so a parent never looks at a child that is not active yet.
`ControlOK`, `BirthOK`, `StrayOK`, `OutsideOK`, `ProcessOK`, `TableOK` and
`RootOK` say where the process can be, that at most one thread is between
birth and report, and that threads in no pool do nothing.

`Control` of `ThreadsCollective` counts, for each thread, the collectives it has
fanned in for, was let out of, and, of a `scan_large`, was called to copy the
scan in and has copied.  Who has fanned in has waited for its whole subtree
(`Tree`); the root lets everybody out, by rank, or each parent its children in
turn, and the root is always out first (`Grants`); the calls go down the tree
one child after the other, and copies are waited for in the same order
(`Scans`).  The words say no more than that: a parent that reads a word of its
child reads it of the round it means, since the child is out of the round before
(`ChildOut`) and not out of this one.  That argument is about parent and child,
and a `scan_large` also waits for the thread past its subtree, which is neither:
that thread is out of the round before only if the root let everybody out by
rank, as after a `barrier` or an `all_reduce`.  This is where `ScansSeparated`
is needed (`NextReducedIsFanned`).  `Values` then says of whose contributions
each value is the join: of the children waited for so far, of the subtree, of
everybody from there on.  What is read from another thread is of this round and
not yet overwritten: the one place where it could be, `CopyScan`, comes after
the parent has called, hence after it has joined (`JoinReads`).

`Control` of `ThreadsTeam` has the same task with two trees on one word and
meetings nobody numbers.  A member's `Meeting` is computed from what it knows:
which collective, which item and which call of it; `Heading` is what comes after
it.  A member and the base of its team are in the same meeting, or the base is
out of the one the member is still in, and heads for the next (`Together`).  A
child that waits for its parent is in the parent's meeting or the parent is out
of it (`TeamEdges`), and the same along the tree of the pool (`PoolEdges`), where
a child that waits in its *team* must not be taken for one that has arrived: it
is a child of the same parent there, and that parent waits for the team first
(`TreesAgree`).  `PoolStages` has the three meetings of the pool, which the root
lets everybody out of from the last entry down.  `TeamTogether` follows since all
members agree with their base, and `RootIsLast` since every parent has waited
for its children.

`Shared` is the account of the league: an item is, for each place in a team, in
one hand (`OneHas`, `DueOrHeld`): *due* to a member, which will run it before its
team claims again, or *held* in the window of chunks a lead has published; and it
was run once if it is in none (`Counts`).  A claim moves a chunk from a window to
every member of the claimer's team at once, though each member reads it in its
own time: a member that has not read `m_team_work_index` yet and is in the
meeting that publishes it is `Taking` what the word says.  That nothing is left
at the end needs that a lead that gives up has found its own window empty
(`GaveAway`), and that nothing is run that the league does not have, that
thieves look into windows of leads only (`StealsFromLeads`, `InLeague`).  The
constructors deal every item to one rank because the cuts between the parts
grow from 0 to the league (`OneStep`, `MarksGrow`).

`Exactly` is the account of what is in the scratch memories and in the global
amount.  In a call of its functor a member's lead has joined the contributions
or not, which the member's and the lead's meetings tell (`Acted`): before, the
member's contribution is where it put it (`Contributed`), after, the result is
where the member will read it (`Answered`), until it has (`Received`).  What
could disturb this is a member that is already in the next call, and `Sound` is
what its writing must spare (`CallSpares`).  `Account` has the global amount:
it has a contribution once (`AddedOnce`), by a thread that has run the item in
its place, and the thread that runs an item now has those of its own only, to
the scans its lead has passed (`AddedByPassing`); an item that was run has all of
its, except those its runner has not come to (`AllAdded`).  It is here that
`Shared` is needed: an item that begins was not run before, so that nothing of
it has been added, and the lead of a scan finds none of its team's
contributions in the amount it adds to (`NotYetAdded`).

`WindowInv` of `WorkStealing`: the chunks of a thread are a block; its published
pair is a window into the block that is closed from both ends and never opened;
an index has run just if its chunk is in the block of a thread and not in its
window.  A compare-and-swap that succeeds has not read a torn pair: only the
owner changes the first of its pair, the owner reads and swaps its own pair in
turn, and the second only shrinks, so a copy that is half old never equals the
word again (`ReadOK`, `GateOK`).

`SharedInv` of `SharedAlloc`: a record on its way into the ring or out of it is
in one thread's hands and nobody else's (`OwnOK`); the count of a record is the
number of trackers that count (`CountOK`); the copies that do not count are
backed by ones that do, while one thread at most has the tracking flag
(`TrackOK`); the root's `next` is null while one thread has the lock (`LockOK`);
and there is a list *f* of the linked records, from the root back to the root,
along `next`, and along `prev` except where the owner of the lock is just
linking or unlinking (`RingOK`, with one clause of `Owner` for each step under
the lock).  `RingIsSafe` walks the ring with recursive functions; the lemma
`NextLists` shows that they give *f*, by the least place where they would not.

`PlaceInv` of `TPI` is `Inductive`'s argument for a pool whose threads are
activated by a count: `Out`, the workers the master has activated or created,
are active or done (`WorkersOK`), one that is done stands for those below it
(`TreeOK`), and one that waits has seen a part of its children done (`JoinOK`);
a pool that could not be made is ended from its last thread to its first, the
rest of it spare.  `CallInv` has the calls: in the order of the ranks without
workers (`InOrder`), each thread's own (`OneEach`), or those that the count says
were claimed (`AsClaimed`).  The count goes below zero once per thread at most,
since a thread that finds it there is through (`ClaimOK`): this bounds
`m_work_count_claim` from below.  Of a reduction it says (`ValuesOK`) that each
value is a set, every contribution is held, by a thread that no parent has
joined yet, and no two such threads hold the same; a thread has one parent
(`OneParent`), and it has looked at no child while it still makes calls
(`FreshOK`).

The trees.  An entry is a multiple of the power of two of its fan size, and an
even multiple of those below it (`EntryIsMultiple`), so the *i*-th child is an odd
multiple of the *i*-th power and its subtree is the entries up to the next
multiple (`SubtreeOfOdd`): either its own fan size is *i*, or its loop ended at the
end of the pool, which cuts the subtree off at the same place.  Between the
entry and the end of its subtree every entry is between two powers of two
(`BetweenPowers`), in one child's part.  In TPI a worker's parent is its rank
without the highest bit (`HighestBit`, `OneHighestBit`), and where the children
of a thread begin counts the workers reached through the threads before it
(`ReachedFirstSize`).

What the proofs rest on: the named ASSUMEs on the constants, and nothing else.
They say what kind of thing each constant is; `CountAssumption` of `TPI` and
`SizeAssumption` of `MCPoolArithmetic` are the limit `THREAD_COUNT_MAX` that
`TPI_Init` enforces.  Induction over numbers is possible in the form used here
(`LeastNumber`, `UpTo`: a set of numbers has a least element), which also gives
that a function defined by recursion over numbers is what its definition says
(`PowerDoubles`, `SumJoins`, `SpanBegins`).  The provers know nothing of `^`;
`FanTree` defines its powers of two (`Power`) by the doubling of the loop.

Only model-checked: all liveness (fairness and ENABLED are out of the
prover's reach), the refinement `IsTaskGraph`, `SleepEndsWithWake`, and the
safety of tasks.
The invariants of `ThreadsTask` speak of lists linked through `m_next` and of
what the scripts of the application and of the tasks have in hand; they hold for
scripts that keep the rules of the interface (spawn what was given dependences,
drop a future once), and those rules are about whole executions, not about a
script, so that they would have to become part of the invariant first.

## 5. Plan

Theorems to prove next: `WaitsInOnePlace` and `MemoryIsSound` of `ThreadsTask`.

Modules that would come next: `UnorderedMap` with its `Bitset` (concurrent
insertion and the removal of duplicates), `MemoryPool` (superblocks exchanged
without locks), `RCPNode` (strong and weak counts), `Distributor` (send and
receive plans that agree).

## Not modelled

* Memory order: words that threads share are taken to be read and written
  atomically and in program order.  The code declares them volatile and puts
  fences around most accesses; TPI declares them volatile but not the fields of
  the work that the workers read after them.
* `hwloc`: the outcome of a binding is a choice; the arithmetic of topologies
  is not modelled.
* The four parts of the list above, for which there is a plan but no module:
  memory pool (of which `ThreadsTask` has the number of blocks only), containers,
  RCP nodes, Tpetra's Distributor.
* The other back ends of Kokkos (OpenMP, CUDA, Qthreads) leave scheduling to
  code outside the repository.
* Everything else in Trilinos is numerical, sequential data structures, file
  formats or build scripts: what could go wrong there is not a matter of the
  order of steps.  `PROJECT.json` names each with its reason.
