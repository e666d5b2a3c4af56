------------------------------- MODULE MC_Gtod -------------------------------
(* Two threads calling gettimeofday once each.  A 3-bit DWORD, so the     *)
(* counter wraps every 8 ms: Boot 6 makes it wrap 2 ms after the start,   *)
(* and MaxTime 10 lets a call come more than one wrap after prime.  Halves *)
(* of 14 bits and FACTOR 20000, so a FILETIME has a non-zero HighPart and  *)
(* a torn initime_us differs from the whole one.                           *)
EXTENDS Gtod

CONSTANTS t1, t2

MCThreads == {t1, t2}
==============================================================================
