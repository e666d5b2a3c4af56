------------------------------- MODULE EnvMap -------------------------------
(***************************************************************************)
(* What getenv, setenv, putenv and unsetenv promise a program: the        *)
(* environment is a map from variable names to values, and each call      *)
(* changes at most the variable it names.  setenv with overwrite 0 leaves  *)
(* a set variable alone; putenv always replaces; unsetenv removes.  last   *)
(* is the call just made, so that a refinement ties each step of an        *)
(* implementation to the call that caused it.                              *)
(***************************************************************************)
EXTENDS Integers

CONSTANTS Names, Vals, Unset

VARIABLES env, last

Call(c, n, v, ow) == [call |-> c, name |-> n, val |-> v, ow |-> ow]

Init ==
  /\ env \in [Names -> Vals \cup {Unset}]
  /\ last = Call("init", Unset, Unset, 0)

Setenv(n, v, ow) ==
  /\ last' = Call("setenv", n, v, ow)
  /\ env' = IF ow = 0 /\ env[n] # Unset THEN env ELSE [env EXCEPT ![n] = v]

Putenv(n, v) ==
  /\ last' = Call("putenv", n, v, -1)
  /\ env' = [env EXCEPT ![n] = v]

Unsetenv(n) ==
  /\ last' = Call("unsetenv", n, Unset, 0)
  /\ env' = [env EXCEPT ![n] = Unset]

Next ==
  \E n \in Names :
    \/ \E v \in Vals, ow \in {0, 1} : Setenv(n, v, ow)
    \/ \E v \in Vals : Putenv(n, v)
    \/ Unsetenv(n)

Spec == Init /\ [][Next]_<<env, last>>
=============================================================================
