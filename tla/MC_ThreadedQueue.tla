-------------------------- MODULE MC_ThreadedQueue --------------------------
(* Two workers, two submission loops (one interruptible, one killed at    *)
(* once by stop) and two client requests.                                 *)
EXTENDS ThreadedQueue, TLC

CONSTANTS w1, w2, l1, l2, r1, r2

MCWorkers == {w1, w2}
MCLoops == {l1, l2}
MCInterruptible == {l1}
MCReqs == {r1, r2}
=============================================================================
