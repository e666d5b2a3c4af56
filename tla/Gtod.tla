-------------------------------- MODULE Gtod --------------------------------
(***************************************************************************)
(* gettimeofday of winsup/cygwin/times.cc and the static hires_ms clock   *)
(* behind it.  The first call primes the clock: it reads the millisecond  *)
(* counter timeGetTime into initime_ms and the system time, a FILETIME of *)
(* 100 ns units since 1601, into initime_us, converted to microseconds    *)
(* since 1970.  Every call then adds the milliseconds elapsed on the      *)
(* counter, a DWORD difference, to initime_us.  The object is a static    *)
(* shared by every thread of the process, with no lock (the FIXME above   *)
(* gettimeofday).                                                         *)
(*                                                                         *)
(* Time is an abstract millisecond count since 1970, now.  The counter is *)
(* (Boot + now) mod 2^W, the system time FACTOR + now * 10000.  prime     *)
(* raises the thread to TIME_CRITICAL around its two reads, so they are   *)
(* one step here.  The stores to initime_us are separate steps in program *)
(* order: HighPart, LowPart, the subtraction of FACTOR, the division;     *)
(* the halves are HB bits wide.  timeBeginPeriod, the thread priority and *)
(* the timezone branch do not affect the value returned and are left out. *)
(***************************************************************************)
EXTENDS Integers

CONSTANTS
  Threads,    \* threads of the process that call gettimeofday
  W,          \* width of a DWORD
  HB,         \* width of each half of a LARGE_INTEGER
  FACTOR,     \* FILETIME of 1970-01-01, a multiple of 10
  Boot,       \* timeGetTime at now = 0
  MaxTime,    \* bound on the clock
  MaxCalls    \* calls per thread

DMod == 2 ^ W
Half == 2 ^ HB

\* The two clocks Windows offers.
TimeGetTime(t) == (Boot + t) % DMod
SystemFileTime(t) == FACTOR + t * 10000

Hi(x) == x \div Half
Lo(x) == x % Half

VARIABLES
  now,         \* milliseconds since 1970
  inited,      \* hires_ms::inited
  initimeMs,   \* hires_ms::initime_ms
  initimeUs,   \* hires_ms::initime_us.QuadPart
  pc,          \* per thread: where it is in gettimeofday
  ft,          \* per thread: the FILETIME prime read
  tick,        \* per thread: the timeGetTime usecs read
  readAt,      \* history: per thread, now when usecs read the counter
  result,      \* per thread: the microseconds the last call returned, or -1
  calls,       \* per thread: calls left
  primedAt     \* history: now when prime last read the clocks

vars == <<now, inited, initimeMs, initimeUs, pc, ft, tick, readAt, result, calls,
          primedAt>>

Init ==
  /\ now = 0
  /\ inited = 0 /\ initimeMs = 0 /\ initimeUs = 0
  /\ pc = [t \in Threads |-> "idle"]
  /\ ft = [t \in Threads |-> 0] /\ tick = [t \in Threads |-> 0]
  /\ readAt = [t \in Threads |-> 0] /\ result = [t \in Threads |-> -1]
  /\ calls = [t \in Threads |-> MaxCalls]
  /\ primedAt = 0

Tick ==
  /\ now < MaxTime
  /\ now' = now + 1
  /\ UNCHANGED <<inited, initimeMs, initimeUs, pc, ft, tick, readAt, result, calls, primedAt>>

Goto(t, l) == pc' = [pc EXCEPT ![t] = l]

\* gettimeofday calls gtod.usecs (false), which primes the clock when
\* inited is 0.
Call(t) ==
  /\ pc[t] = "idle" /\ calls[t] > 0
  /\ calls' = [calls EXCEPT ![t] = @ - 1]
  /\ Goto(t, IF inited = 0 THEN "prime" ELSE "read")
  /\ UNCHANGED <<now, inited, initimeMs, initimeUs, ft, tick, readAt, result, primedAt>>

\* prime: initime_ms = timeGetTime (); GetSystemTimeAsFileTime (&f).
PrimeRead(t) ==
  /\ pc[t] = "prime"
  /\ initimeMs' = TimeGetTime(now)
  /\ ft' = [ft EXCEPT ![t] = SystemFileTime(now)]
  /\ primedAt' = now
  /\ Goto(t, "inited")
  /\ UNCHANGED <<now, inited, initimeUs, tick, readAt, result, calls>>

\* inited = 1, before initime_us is written.
PrimeInited(t) ==
  /\ pc[t] = "inited"
  /\ inited' = 1
  /\ Goto(t, "high")
  /\ UNCHANGED <<now, initimeMs, initimeUs, ft, tick, readAt, result, calls, primedAt>>

\* initime_us.HighPart = f.dwHighDateTime; initime_us.LowPart =
\* f.dwLowDateTime; initime_us.QuadPart -= FACTOR; initime_us.QuadPart /= 10.
PrimeStore(t) ==
  \/ /\ pc[t] = "high"
     /\ initimeUs' = Hi(ft[t]) * Half + Lo(initimeUs)
     /\ Goto(t, "low")
  \/ /\ pc[t] = "low"
     /\ initimeUs' = Hi(initimeUs) * Half + Lo(ft[t])
     /\ Goto(t, "sub")
  \/ /\ pc[t] = "sub"
     /\ initimeUs' = initimeUs - FACTOR
     /\ Goto(t, "div")
  \/ /\ pc[t] = "div"
     /\ initimeUs' = initimeUs \div 10
     /\ Goto(t, "read")

PrimeStep(t) ==
  /\ PrimeStore(t)
  /\ UNCHANGED <<now, inited, initimeMs, ft, tick, readAt, result, calls, primedAt>>

\* usecs: DWORD now = timeGetTime ().
ReadCounter(t) ==
  /\ pc[t] = "read"
  /\ tick' = [tick EXCEPT ![t] = TimeGetTime(now)]
  /\ readAt' = [readAt EXCEPT ![t] = now]
  /\ Goto(t, "sum")
  /\ UNCHANGED <<now, inited, initimeMs, initimeUs, ft, result, calls, primedAt>>

\* Mutant of Usecs: the difference taken as a signed long instead of a
\* DWORD, so a counter that wrapped since prime goes back.
UsecsSigned(t) == initimeUs + (tick[t] - initimeMs) * 1000

\* initime_us.QuadPart + ((LONGLONG) (now - initime_ms) * 1000), the DWORD
\* difference taken modulo 2^W.
Usecs(t) == initimeUs + ((tick[t] - initimeMs) % DMod) * 1000

\* gettimeofday returns usecs split into tv_sec and tv_usec, a lossless
\* division for the non-negative values here; the model keeps the total.
Return(t) ==
  /\ pc[t] = "sum"
  /\ result' = [result EXCEPT ![t] = Usecs(t)]
  /\ Goto(t, "idle")
  /\ UNCHANGED <<now, inited, initimeMs, initimeUs, ft, tick, readAt, calls, primedAt>>

Next ==
  \/ Tick
  \/ \E t \in Threads :
       Call(t) \/ PrimeRead(t) \/ PrimeInited(t) \/ PrimeStep(t)
       \/ ReadCounter(t) \/ Return(t)

Spec == Init /\ [][Next]_vars

-----------------------------------------------------------------------------
TypeOK ==
  /\ now \in 0..MaxTime /\ inited \in {0, 1}
  /\ initimeMs \in 0..(DMod - 1) /\ initimeUs \in Int
  /\ pc \in [Threads -> {"idle", "prime", "inited", "high", "low", "sub",
                         "div", "read", "sum"}]
  /\ tick \in [Threads -> 0..(DMod - 1)] /\ readAt \in [Threads -> 0..MaxTime]
  /\ calls \in [Threads -> 0..MaxCalls] /\ primedAt \in 0..MaxTime

\* Every value gettimeofday returns is the system time at which usecs read
\* the millisecond counter, in microseconds: the thread that primes and
\* every other thread agree with the clock, however their steps interleave
\* with prime's stores to initime_us, and however long ago prime ran.
GtodAccurate ==
  \A t \in Threads : pc[t] = "idle" /\ result[t] # -1 => result[t] = readAt[t] * 1000

\* The same for a program whose threads never call gettimeofday while the
\* clock is being primed (one thread here), up to 2^32 ms after prime: the
\* millisecond counter may wrap in between, and the DWORD difference of two
\* readings still counts the milliseconds between them.  Past 2^32 ms the
\* difference restarts from zero, as the FIXME in usecs says.
GtodAccurateBeforeWrap ==
  \A t \in Threads :
    pc[t] = "idle" /\ result[t] # -1 /\ readAt[t] - primedAt < DMod
      => result[t] = readAt[t] * 1000
=============================================================================
