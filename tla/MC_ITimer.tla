------------------------------ MODULE MC_ITimer ------------------------------
(* UINT narrowed to 16 bits, so UINT_MAX / 1000 = 65 seconds: a value of  *)
(* 66 s wraps to 464 ms.  Values of whole seconds, of microseconds, under  *)
(* a millisecond, and past the wrap.                                       *)
EXTENDS ITimer, TLC

MCValues == {[sec |-> 0, usec |-> 0], [sec |-> 1, usec |-> 0],
             [sec |-> 0, usec |-> 500000], [sec |-> 0, usec |-> 999],
             [sec |-> 66, usec |-> 0]}
MCIntervals == {[sec |-> 0, usec |-> 0], [sec |-> 0, usec |-> 500000]}
=============================================================================
