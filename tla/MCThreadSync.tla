---------------------------- MODULE MCThreadSync ----------------------------
(* Instances of ThreadSync: the threads are interchangeable.               *)
EXTENDS ThreadSync, TLC

CONSTANTS t1, t2, t3, m1, m2, s1, c1, c2

\* Timed waits on a condition are left to one thread.
AllPrograms  == {<<{m1}, 3>>, <<{s1}, 3>>, <<{m2, c1}, 3>>, <<{m2, c2}, 1>>}

Threads == Permutations(Thread)
=============================================================================
