---------------------------- MODULE MCThreadsTask ----------------------------
(* Task programs for TLC.                                                  *)
EXTENDS ThreadsTask, TLC

CONSTANTS a, b, c, l

Q(memory, scripts, team, priority) ==
  [script |-> scripts @@ [t \in Actor |-> <<<<>>>>], team |-> team, priority |-> priority,
   count |-> [t \in Task |-> 2], memory |-> memory, teamSize |-> IF b \in team THEN Threads ELSE 1]
P(scripts, team, priority) == Q(Cardinality(Task), scripts, team, priority)

Make(t) == <<"create", t>>
Go1(t) == <<"spawn", t>>
Off(t) == <<"drop", t>>
On(t, u) == <<"depend", t, u>>

(* c after a and b, b after a; the futures dropped before the wait.        *)
Chain(team) ==
  P(Main :> << <<Make(a), Make(b), Make(c), On(b, a), On(c, a), On(c, b),
                 Go1(c), Go1(b), Go1(a), Off(a), Off(b), Off(c)>> >>, team, {b})

(* a spawns b and c, depends on them and respawns.                         *)
Fork(team) ==
  P((Main :> << <<Make(a), Go1(a)>>, <<Off(a)>> >>)
    @@ (a :> << <<Make(b), Make(c), Go1(b), Go1(c), <<"clear">>, On(a, b), On(a, c),
                  <<"respawn">>, Off(b), Off(c)>>, <<>> >>), team, {})

(* a and b open the latch l, which c waits for.                            *)
Latch(team) ==
  P((Main :> << <<Make(l), Make(a), <<"give", l, a>>, Make(b), <<"give", l, b>>, Make(c),
                 On(c, l), Off(l), Go1(a), Go1(b), Go1(c), Off(a), Off(b), Off(c)>> >>)
    @@ (a :> << <<<<"add", l>>>> >>) @@ (b :> << <<<<"add", l>>>> >>), team, {})

(* While a opens l and completes, b makes c wait for both.                 *)
Late(team) ==
  P((Main :> << <<Make(l), Make(a), Make(b), <<"give", l, a>>, <<"give", l, b>>,
                 <<"give", a, b>>, Off(l), Go1(a), Go1(b), Off(a), Off(b)>> >>)
    @@ (a :> << <<<<"add", l>>, <<"add", l>>>> >>)
    @@ (b :> << <<Make(c), On(c, l), On(c, a), Go1(c), Off(a)>> >>), team, {c})

(* There is room for two tasks: a can create c once b is gone.             *)
Scarce(team) ==
  Q(2, (Main :> << <<Make(a), Make(b), Go1(a), Go1(b), Off(a), Off(b)>> >>)
       @@ (a :> << <<Make(c), Go1(c), On(a, c), <<"respawn">>, Off(c)>>, <<>> >>), team, {})

Sample == UNION {{Chain(team), Fork(team), Latch(team), Late(team), Scarce(team)} : team \in {{}, {a, b}}}
=============================================================================
