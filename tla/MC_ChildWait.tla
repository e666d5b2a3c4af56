---------------------------- MODULE MC_ChildWait ----------------------------
(* ChildWait with two children, wait4 patterns for any child, my own      *)
(* process group and one exact pid, and one or two wait4 callers.         *)
EXTENDS ChildWait, TLC

CONSTANTS w1, w2

MCKids == {2, 3}
MCPatterns == {-1, 0, 3}
MCOneWaiter == {w1}
MCTwoWaiters == {w1, w2}
==============================================================================
