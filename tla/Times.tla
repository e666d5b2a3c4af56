-------------------------------- MODULE Times --------------------------------
(***************************************************************************)
(* The time conversions of winsup/cygwin/times.cc and the calls built on  *)
(* them: utime and utimes, which turn a time_t or a timeval into a        *)
(* FILETIME and set a file's times; times, which turns the children's     *)
(* rusage and the process times into clock ticks; time and ftime.  A      *)
(* FILETIME counts 100 ns ticks since 1601 in two DWORDs; a time_t counts *)
(* seconds since 1970 in a long.                                          *)
(*                                                                         *)
(* Widths and units are constants so that a small instance keeps the real *)
(* relations: FACTOR, the FILETIME of 1970, is a whole number of seconds  *)
(* more than a long can count, a 64-bit sum of two DWORDs is wide enough  *)
(* for every FILETIME a time_t gives, and the unit ratios divide.  The    *)
(* file's times are read back the way fstat reads them, through           *)
(* to_timestruc_t.  The debug output is left out.                          *)
(***************************************************************************)
EXTENDS Integers

CONSTANTS
  DW,              \* width of a DWORD
  LW,              \* width of a long (time_t, clock_t)
  USPERSEC,        \* microseconds per second (1e6)
  TPU,             \* FILETIME ticks per microsecond (10)
  MSPERSEC,        \* milliseconds per second (1000)
  CLOCKS_PER_SEC,  \* clock ticks per second (1000)
  FACTOR,          \* FILETIME of 1970-01-01
  Kinds,           \* what the path of utime names
  SysTimes,        \* FILETIMEs GetSystemTime may give
  ProcTimes,       \* FILETIMEs GetProcessTimes may give
  RUsages,         \* rusage_children times wait has gathered
  NowUs,           \* microsecond counts hires_ms::usecs may give, or -1
  Tvs,             \* timevals passed to utimes
  MaxCalls

NSPERSEC == USPERSEC * TPU
NSPERTICK == 1000 \div TPU   \* nanoseconds per FILETIME tick (100)
Half == 2 ^ DW

\* C's truncating division and remainder, and a store into a signed long.
CDiv(a, b) == IF a >= 0 THEN a \div b ELSE -((-a) \div b)
CRem(a, b) == a - CDiv(a, b) * b
Long(x) == ((x + 2 ^ (LW - 1)) % 2 ^ LW) - 2 ^ (LW - 1)

\* out->dwHighDateTime = x >> 32; out->dwLowDateTime = x.
Split(x) == [hi |-> (x \div Half) % Half, lo |-> x % Half]

\* ((long long) ptr->dwHighDateTime << 32) + ((unsigned) ptr->dwLowDateTime).
Join(f) == f.hi * Half + f.lo

Timeval(s, u) == [sec |-> s, usec |-> u]

\* time_t_to_timeval: tv_sec = in, tv_usec = 0.
TimeTToTimeval(t) == Timeval(t, 0)

\* timeval_to_filetime.
TimevalToFiletime(tv) == Split(tv.sec * NSPERSEC + tv.usec * TPU + FACTOR)

\* to_time_t: a FILETIME of 0 is passed as the epoch.
ToTimeT(f) ==
  IF Join(f) = 0 THEN 0 ELSE Long(CDiv(Join(f) - FACTOR, NSPERSEC))

\* Mutant of ToTimestruc: the low DWORD joined sign-extended, as a (long)
\* cast in place of the (unsigned) one would.
ToTimestrucSigned(f) ==
  LET x == f.hi * Half + (IF f.lo >= Half \div 2 THEN f.lo - Half ELSE f.lo) IN
  [sec |-> Long(CDiv(x - FACTOR, NSPERSEC)),
   nsec |-> Long(CRem(x - FACTOR, NSPERSEC)) * NSPERTICK]

\* to_timestruc_t: tv_nsec is the remainder in ticks, times 100 ns.
ToTimestruc(f) ==
  IF Join(f) = 0 THEN [sec |-> 0, nsec |-> 0]
  ELSE [sec |-> Long(CDiv(Join(f) - FACTOR, NSPERSEC)),
        nsec |-> Long(CRem(Join(f) - FACTOR, NSPERSEC)) * NSPERTICK]

\* Mutant of ToClockT: FACTOR never taken off.
ToClockTNoFactor(f, flag) == Join(f) \div (NSPERSEC \div CLOCKS_PER_SEC)

\* __to_clock_t: an unsigned long long, less FACTOR when flag is set,
\* divided by the FILETIME ticks per clock tick.
ToClockT(f, flag) ==
  (IF flag THEN (Join(f) - FACTOR) % (Half * Half) ELSE Join(f))
    \div (NSPERSEC \div CLOCKS_PER_SEC)

NoTimes == [a |-> Timeval(0, 0), m |-> Timeval(0, 0), none |-> TRUE]
NoRUsage == [stime |-> Timeval(0, 0), utime |-> Timeval(0, 0)]

VARIABLES
  path,        \* the kind of file utime works on
  ntTimes,     \* wincap.has_get_process_times ()
  ftAccess,    \* the file's last access FILETIME
  ftWrite,     \* the file's last write FILETIME
  setTo,       \* history: the timevals the last SetFileTime wrote
  last,        \* the call just made and what it returned
  tmsFrom,     \* history: the rusage the last times call converted
  calls

vars == <<path, ntTimes, ftAccess, ftWrite, setTo, last, tmsFrom, calls>>

Secs == -(2 ^ (LW - 1))..(2 ^ (LW - 1) - 1)

Init ==
  /\ path \in Kinds /\ ntTimes \in BOOLEAN
  /\ ftAccess \in {Split(0), Split(FACTOR)} /\ ftWrite = Split(FACTOR)
  /\ setTo = NoTimes /\ last = [call |-> "none"] /\ tmsFrom = NoRUsage
  /\ calls = MaxCalls

Calling == calls > 0 /\ calls' = calls - 1

\* utimes (path, tvp) with the two timevals: path_conv fails for a missing
\* path; CreateFile may fail, which a directory reports as success and a
\* file as failure; SetFileTime fails on a read-only file (the FIXME).
UtimesSet(tv0, tv1) ==
  \/ /\ path = "missing"
     /\ last' = [call |-> "utimes", ret |-> -1]
     /\ UNCHANGED <<ftAccess, ftWrite, setTo>>
  \/ /\ path = "dir_noopen"
     /\ last' = [call |-> "utimes", ret |-> 0]
     /\ UNCHANGED <<ftAccess, ftWrite, setTo>>
  \/ /\ path \in {"file_noopen", "readonly"}
     /\ last' = [call |-> "utimes", ret |-> -1]
     /\ UNCHANGED <<ftAccess, ftWrite, setTo>>
  \/ /\ path \in {"file", "dir"}
     /\ ftAccess' = TimevalToFiletime(tv0)
     /\ ftWrite' = TimevalToFiletime(tv1)
     /\ setTo' = [a |-> tv0, m |-> tv1, none |-> FALSE]
     /\ last' = [call |-> "utimes", ret |-> 0]

\* gettimeofday (tv, tz): -1 when the clock fails, else now split into
\* seconds and microseconds.
GetTimeOfDay(us) == Timeval(us \div USPERSEC, us % USPERSEC)

\* utimes (path, tvp) with a timeval pair.
Utimes(tv0, tv1) ==
  /\ Calling /\ UtimesSet(tv0, tv1)
  /\ UNCHANGED <<path, ntTimes, tmsFrom>>

\* utimes (path, 0), and utime (path, NULL) which calls it: both times from
\* gettimeofday, whose result utimes does not test; when it fails tmp[0]
\* is left uninitialized and may hold any timeval.
UtimesNull(us) ==
  /\ Calling
  /\ \/ us # -1 /\ UtimesSet(GetTimeOfDay(us), GetTimeOfDay(us))
     \/ us = -1 /\ \E tv \in Tvs : UtimesSet(tv, tv)
  /\ UNCHANGED <<path, ntTimes, tmsFrom>>

\* utime (path, buf): both times through time_t_to_timeval.
Utime(actime, modtime) ==
  /\ Calling /\ UtimesSet(TimeTToTimeval(actime), TimeTToTimeval(modtime))
  /\ UNCHANGED <<path, ntTimes, tmsFrom>>

\* times (buf): the uptime from GetTickCount in clock ticks; on NT the
\* process times, and the children's rusage converted to a FILETIME and
\* back with flag set; elsewhere the uptime as the user time.
Times(ticks, kt, ut, ru) ==
  LET tc == Long((ticks * CLOCKS_PER_SEC) \div MSPERSEC) IN
  /\ Calling
  /\ \/ /\ ntTimes
        /\ last' = [call |-> "times", ret |-> tc,
                    stime |-> Long(ToClockT(kt, FALSE)),
                    utime |-> Long(ToClockT(ut, FALSE)),
                    cstime |-> Long(ToClockT(TimevalToFiletime(ru.stime), TRUE)),
                    cutime |-> Long(ToClockT(TimevalToFiletime(ru.utime), TRUE))]
     \/ /\ ~ntTimes
        /\ last' = [call |-> "times", ret |-> tc, stime |-> 0, utime |-> tc,
                    cstime |-> 0, cutime |-> 0]
  /\ tmsFrom' = ru
  /\ UNCHANGED <<path, ntTimes, ftAccess, ftWrite, setTo>>

\* time (ptr): to_time_t of the system time.
Time(f) ==
  /\ Calling
  /\ last' = [call |-> "time", ret |-> ToTimeT(f)]
  /\ UNCHANGED <<path, ntTimes, ftAccess, ftWrite, setTo, tmsFrom>>

\* ftime (tp): -1 when gettimeofday fails, else its seconds and its
\* microseconds in milliseconds.
Ftime(us) ==
  /\ Calling
  /\ \/ us = -1 /\ last' = [call |-> "ftime", ret |-> -1]
     \/ /\ us # -1
        /\ last' = [call |-> "ftime", ret |-> 0, time |-> GetTimeOfDay(us).sec,
                    millitm |-> GetTimeOfDay(us).usec \div (USPERSEC \div MSPERSEC)]
  /\ UNCHANGED <<path, ntTimes, ftAccess, ftWrite, setTo, tmsFrom>>

Next ==
  \/ \E tv0, tv1 \in Tvs : Utimes(tv0, tv1)
  \/ \E us \in NowUs : UtimesNull(us)
  \/ \E a, m \in Secs : Utime(a, m)
  \/ \E ticks \in 0..(Half - 1), kt, ut \in ProcTimes, ru \in RUsages :
       Times(ticks, kt, ut, ru)
  \/ \E f \in SysTimes : Time(f)
  \/ \E us \in NowUs : Ftime(us)

Spec == Init /\ [][Next]_vars

-----------------------------------------------------------------------------
TypeOK ==
  /\ path \in Kinds /\ ntTimes \in BOOLEAN
  /\ ftAccess \in [hi : 0..(Half - 1), lo : 0..(Half - 1)]
  /\ ftWrite \in [hi : 0..(Half - 1), lo : 0..(Half - 1)]
  /\ calls \in 0..MaxCalls /\ tmsFrom \in RUsages \cup {NoRUsage}

\* What stat reports of a time set to timeval tv: its seconds, and its
\* microseconds in nanoseconds.
Stat(tv) == [sec |-> tv.sec, nsec |-> tv.usec * 1000]

\* After utime or utimes changed a file's times, fstat's to_timestruc_t
\* gives back the times they were given, for any time_t in whole seconds
\* and any timeval from 1970 on: timeval_to_filetime splits the 64-bit
\* count into two DWORDs that to_timestruc_t joins again unsigned, and
\* the epoch offset FACTOR is taken off as it was added.
UtimeRoundTrip ==
  ~setTo.none =>
    \A w \in {<<ftAccess, setTo.a>>, <<ftWrite, setTo.m>>} :
      (w[2].sec >= 0 \/ w[2].usec = 0) => ToTimestruc(w[1]) = Stat(w[2])

\* A timeval in clock ticks.
ClockTicks(tv) == tv.sec * CLOCKS_PER_SEC + tv.usec \div (USPERSEC \div CLOCKS_PER_SEC)

\* The children's times in the struct tms of times are rusage_children's
\* in clock ticks: the round trip through timeval_to_filetime and
\* __to_clock_t with flag set takes off the FACTOR it put on.

ChildTimesInTicks ==
  (last.call = "times" /\ ntTimes) =>
    /\ last.cstime = ClockTicks(tmsFrom.stime)
    /\ last.cutime = ClockTicks(tmsFrom.utime)
=============================================================================
