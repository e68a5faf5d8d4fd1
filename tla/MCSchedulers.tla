----------------------------- MODULE MCSchedulers -----------------------------
(* One client, two tasks, at most two threads. *)
EXTENDS Schedulers

CONSTANTS c1, t1, t2

MCThreads == 1..2
=============================================================================
