---------------------------- MODULE MCThreadsTeam ----------------------------
(* Team launches for TLC.                                                  *)
EXTENDS ThreadsTeam

L(pool, grain, team, league, chunk, dynamic, program, left) ==
  [pool |-> pool, grain |-> grain, team |-> team, league |-> league, chunk |-> chunk,
   dynamic |-> dynamic, program |-> program, source |-> team - 1, left |-> left]


Pairs == {p \in TeamCall \X TeamCall : Sound(p[1], p[2])}
Pairwise == {L(n, 1, n, 1, 1, FALSE, p, 0) : n \in 2..3, p \in Pairs}
Four == {L(4, 1, 4, 1, 1, FALSE, <<c>>, 0) : c \in TeamCall}

(* Two teams of two, whole and cut-off work, one and two items per team.   *)
Static == {L(4, 1, 2, n, 1, FALSE, <<c>>, 0) : n \in {0, 1, 3}, c \in {"join"}}
          \cup {L(2, 1, 1, 3, 1, FALSE, <<"scan">>, 0), L(3, 1, 1, 2, 1, FALSE, <<>>, 0)}

(* Dynamic teams of one to three, filling their allocation or not; idle    *)
(* threads in the allocation of a team, or (static) past the last one.     *)
Uneven ==
  {L(4, 1, 2, 3, 1, TRUE, <<>>, 2), L(3, 1, 1, 6, 2, TRUE, <<>>, 3),
   L(3, 1, 2, 3, 2, TRUE, <<"broadcast">>, 0), L(4, 2, 1, 3, 1, TRUE, <<>>, 0),
   L(4, 1, 3, 2, 1, TRUE, <<>>, 0), L(5, 1, 2, 2, 1, FALSE, <<>>, 0),
   L(3, 1, 1, 2, 2, TRUE, <<"reduce">>, 1)}

Sample == Pairwise \cup Four \cup Static \cup Uneven

(* Two teams of three, of which one is slower.                             *)
Threes == {L(6, 1, 3, 2, 1, FALSE, <<"barrier">>, 0)}

(* A team of two alone in a pool of three, and a pair somebody left.       *)
Stale == {L(3, 1, 2, 2, 1, TRUE, <<>>, 1)}
=============================================================================
