---------------------------- MODULE MCScheduler ----------------------------
(* Small instances of Scheduler: a process with two threads beside a       *)
(* process with one, or the two-threaded process alone.                    *)
EXTENDS Scheduler, TLC

CONSTANTS c1, c2, t1, t2, t3, p1, p2

TwoOwner == t1 :> p1 @@ t2 :> p1
TwoMain  == p1 :> t1

ThreeOwner == TwoOwner @@ t3 :> p2
ThreeMain  == TwoMain @@ p2 :> t3

NoPinning  == {CPU}
AnyPinning == (SUBSET CPU) \ {{}}
=============================================================================
