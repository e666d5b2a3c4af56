--------------------------- MODULE MC_SigDelivery ---------------------------
(* One process with its main thread m and one other thread n calling the   *)
(* signal API, one remote process r sending to it, and two user signals.  *)
EXTENDS SigDelivery, TLC

CONSTANTS m, n, r

MCThreads == {m, n}
MCRemote == {r}
MCUserSigs == {1, 2}
MCMaskChoices == {{}, {1}}
MCActSigs == {1}
MCBudget == (m :> 1 @@ n :> 1 @@ r :> 1)
=============================================================================
