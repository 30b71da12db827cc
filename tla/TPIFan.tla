------------------------------- MODULE TPIFan -------------------------------
(***************************************************************************)
(* The tree in which the threads of the Thread Pool Interface meet.        *)
(* TPI_Init gives each thread where its children begin in m_thread[],      *)
(* counting on: they end where those of the next thread begin.             *)
(***************************************************************************)
EXTENDS Integers, FiniteSets

THREAD_COUNT_MAX == 256

(* what up, which is shifted, can be while t + up is a thread              *)
Ups == {1, 2, 4, 8, 16, 32, 64, 128}

(* thread t + up is reached through t, for the powers of two above t       *)
SpanSize(n, t) == Cardinality({up \in Ups : t < up /\ t + up < n})

SpanBegin(n, t) ==
  LET begin[s \in 0..t] == IF s = 0 THEN 1 ELSE begin[s - 1] + SpanSize(n, s - 1)
  IN  begin[t]
SpanEnd(n, t) == SpanBegin(n, t + 1)

(* Every worker is the child of one thread, one of lower rank: the         *)
(* children of all threads follow each other and end with the last thread, *)
(* and begin after their parent.                                           *)
IsSpanTree(n) ==
  /\ SpanBegin(n, n) = n
  /\ \A t \in 0..(n - 1) : SpanSize(n, t) > 0 => SpanBegin(n, t) > t
=============================================================================
