---------------------------- MODULE MC_Cygserver ----------------------------
(* Two workers, two submission loops (one interruptible), two pipe         *)
(* instances and one client process, which may be killed once.             *)
EXTENDS Cygserver, TLC

CONSTANTS w1, w2, l1, l2, c1

MCWorkers == {w1, w2}
MCLoops == {l1, l2}
MCInterruptible == {l1}
MCClients == {c1}
=============================================================================
