-------------------------- MODULE MC_SigLifecycle ---------------------------
(* The main thread mt, which runs dll_crt0_1 and exits, and one other      *)
(* thread ot; two sig_send calls each.                                     *)
EXTENDS SigLifecycle, TLC

CONSTANTS mt, ot

MCThreads == {mt, ot}
=============================================================================
