-------------------------- MODULE MCThreadPoolLinux --------------------------
(* Instances of ThreadPoolLinux for TLC. *)
EXTENDS ThreadPoolLinux

CONSTANTS c1, t1, t2

OneClient  == {c1}
TwoTasks   == {t1, t2}
TwoThreads == 1..2
=============================================================================
