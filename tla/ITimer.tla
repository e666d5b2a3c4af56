------------------------------- MODULE ITimer -------------------------------
(***************************************************************************)
(* The interval timer of winsup/cygwin/window.cc.  setitimer, alarm and    *)
(* ualarm run in the calling thread and arm a Windows timer (id 1) on the  *)
(* hidden window; the "win" thread retrieves WM_TIMER with GetMessage and  *)
(* WndProc re-arms or stops the timer and raises SIGALRM.  Both threads    *)
(* read and write itv, timer_active and start_time without a lock, so     *)
(* setitimer and WndProc are each split into the steps another thread can *)
(* run between: setitimer's KillTimer, timer_active = 0 and assignment;   *)
(* WndProc's id check, KillTimer, re-arm and raise.                       *)
(* Windows keeps a timer periodic until KillTimer, and a WM_TIMER already  *)
(* retrieved is processed whatever happened to the timer meanwhile.       *)
(* Time is abstracted to the Windows timer becoming due; getitimer's      *)
(* GetTickCount () - start_time is chosen from the times that agree with  *)
(* whether the timer is due.  UINT arithmetic is kept modulo               *)
(* 2^UBits.  raise (SIGALRM) is recorded, not delivered (SigDelivery).     *)
(***************************************************************************)
EXTENDS Integers

CONSTANTS
  UBits,      \* width of UINT
  Values,     \* it_value arguments: records [sec, usec]
  Intervals,  \* it_interval arguments
  MaxCalls    \* bound on setitimer, alarm and ualarm calls

UMod == 2 ^ UBits
UINT_MAX == UMod - 1
Zero == [sec |-> 0, usec |-> 0]

\* tv.tv_sec * 1000 + tv.tv_usec / 1000 assigned to a UINT.
Ms(tv) == (tv.sec * 1000 + tv.usec \div 1000) % UMod

VARIABLES
  itv,          \* the static struct itimerval: [value, interval]
  timerActive,  \* timer_active: the id SetTimer returned, or 0
  wtimer,       \* the Windows timer: armed, due (its period elapsed),
                \* period in ms, and the arming it belongs to
  callpc,       \* the calling thread inside setitimer: idle, clear, assign
  callArg,      \* the itimerval that call is setting: [value, interval]
  winpc,        \* the win thread: get (in GetMessage) or a step of WndProc
  winElapse,    \* WndProc's local elapse, read from itv.it_interval
  msg,          \* the WM_TIMER the win thread has retrieved: its gen, or 0
  msgLate,      \* history: that WM_TIMER was retrieved after a cancel
  gen,          \* history: number of setitimer calls that changed the timer
  pendingGen,   \* history: the arming whose expiry the program still awaits
  cancelled,    \* history: the last change was a successful cancel
  lateAlarm,    \* history: SIGALRM raised for a WM_TIMER retrieved after
                \* a cancel returned, with no setitimer since
  calls,        \* calls left
  got           \* what the last getitimer returned: it_value, and the
                \* it_value that was armed when it was called

vars == <<itv, timerActive, wtimer, callpc, callArg, winpc, winElapse, msg,
          msgLate, gen, pendingGen, cancelled, lateAlarm, calls, got>>

Off == [armed |-> FALSE, due |-> FALSE, period |-> 0, gen |-> 0]

Init ==
  /\ itv = [value |-> Zero, interval |-> Zero]
  /\ timerActive = 0
  /\ wtimer = Off /\ msg = 0 /\ msgLate = FALSE
  /\ callpc = "idle" /\ callArg = [value |-> Zero, interval |-> Zero]
  /\ winpc = "get" /\ winElapse = 0
  /\ gen = 0 /\ pendingGen = 0 /\ cancelled = FALSE /\ lateAlarm = FALSE
  /\ calls = MaxCalls
  /\ got = [value |-> Zero, armed |-> Zero]

\* SetTimer (hwnd, 1, elapse, NULL) for arming g.
Arm(elapse, g) == [armed |-> TRUE, due |-> FALSE, period |-> elapse, gen |-> g]

WinVars == <<winpc, winElapse, msg, msgLate>>

\* setitimer (ITIMER_REAL, value, &old) (window.cc 143-185) runs in three
\* steps, none under a lock.  First (150-161) the wrap check on the itv
\* the previous call set, which fails with EINVAL, then, if timer_active
\* is set, KillTimer; *oldvalue = itv is left out.
Setitimer(v, iv) ==
  /\ callpc = "idle" /\ calls > 0 /\ calls' = calls - 1
  /\ IF itv.value.sec >= UINT_MAX \div 1000
     THEN UNCHANGED <<wtimer, callpc, callArg>>
     ELSE /\ callArg' = [value |-> v, interval |-> iv]
          /\ IF timerActive # 0
             THEN wtimer' = Off /\ callpc' = "clear"
             ELSE UNCHANGED wtimer /\ callpc' = "assign"
  /\ UNCHANGED <<itv, timerActive, gen, pendingGen, cancelled, lateAlarm,
                 got, WinVars>>

\* timer_active = 0 after the KillTimer (162).
SetitimerClear ==
  /\ callpc = "clear" /\ callpc' = "assign"
  /\ timerActive' = 0
  /\ UNCHANGED <<itv, wtimer, callArg, gen, pendingGen, cancelled,
                 lateAlarm, calls, got, WinVars>>

\* itv = *value (164-185): a zero value returns at once, a value under a
\* millisecond arms a 1 ms timer, otherwise SetTimer arms elapse ms; its
\* failure leaves timer_active 0 and returns -1.
SetitimerAssign ==
  /\ callpc = "assign" /\ callpc' = "idle"
  /\ itv' = callArg
  /\ gen' = gen + 1
  /\ LET e0 == Ms(callArg.value)
         elapse == IF e0 = 0 /\ callArg.value.usec # 0 THEN 1 ELSE e0
     IN IF elapse = 0
        THEN /\ pendingGen' = 0 /\ cancelled' = TRUE
             /\ UNCHANGED <<timerActive, wtimer>>
        ELSE /\ cancelled' = FALSE
             /\ \/ /\ wtimer' = Arm(elapse, gen + 1) /\ timerActive' = 1
                   /\ pendingGen' = gen + 1
                \/ /\ timerActive' = 0 /\ pendingGen' = 0
                   /\ UNCHANGED wtimer
  /\ UNCHANGED <<callArg, lateAlarm, calls, got, WinVars>>

\* alarm (seconds) (217-232): setitimer with a whole-second value and no
\* interval.
Alarm == \E v \in Values : v.usec = 0 /\ Setitimer(v, Zero)

\* ualarm (value, interval) (234-248): microsecond value and interval.
Ualarm ==
  \E v \in Values, iv \in Intervals : v.sec = 0 /\ iv.sec = 0 /\ Setitimer(v, iv)

\* The message loop of Winmain (120-121): GetMessage returns the WM_TIMER
\* of a due timer, and Windows restarts the timer's period.
GetTimerMessage ==
  /\ winpc = "get" /\ wtimer.armed /\ wtimer.due
  /\ winpc' = "check"
  /\ msg' = wtimer.gen /\ msgLate' = cancelled
  /\ wtimer' = [wtimer EXCEPT !.due = FALSE]
  /\ UNCHANGED <<itv, timerActive, callpc, callArg, winElapse, gen,
                 pendingGen, cancelled, lateAlarm, calls, got>>

TimerVars == <<itv, timerActive, wtimer>>
HistVars == <<callpc, callArg, gen, pendingGen, cancelled, calls, got>>

\* WndProc's WM_TIMER case (46-50): wParam, always 1, against timer_active,
\* and elapse from it_interval.  A message that does not match is dropped.
WndProcCheck ==
  /\ winpc = "check"
  /\ IF timerActive = 1
     THEN /\ winpc' = "kill" /\ winElapse' = Ms(itv.interval)
          /\ UNCHANGED <<msg, msgLate>>
     ELSE /\ winpc' = "get" /\ msg' = 0 /\ msgLate' = FALSE
          /\ UNCHANGED winElapse
  /\ UNCHANGED <<TimerVars, lateAlarm, HistVars>>

\* KillTimer (hwnd, timer_active) (51): timer_active is read again; 0
\* names no timer.
WndProcKill ==
  /\ winpc = "kill" /\ winpc' = "set"
  /\ wtimer' = IF timerActive # 0 THEN Off ELSE wtimer
  /\ UNCHANGED <<itv, timerActive, winElapse, msg, msgLate, lateAlarm, HistVars>>

\* Then (52-61) timer_active = 0 for a zero interval; otherwise
\* timer_active takes SetTimer's result unchecked, start_time is reset and
\* it_value = it_interval.  When that SetTimer fails the periodic timer
\* has stopped.
WndProcSet ==
  /\ winpc = "set" /\ winpc' = "raise"
  /\ IF winElapse = 0
     THEN /\ timerActive' = 0 /\ UNCHANGED <<itv, wtimer>>
          /\ pendingGen' = IF msg = pendingGen THEN 0 ELSE pendingGen
     ELSE /\ itv' = [itv EXCEPT !.value = itv.interval]
          /\ \/ /\ wtimer' = Arm(winElapse, gen) /\ timerActive' = 1
                /\ UNCHANGED pendingGen
             \/ /\ timerActive' = 0 /\ pendingGen' = 0
                /\ UNCHANGED wtimer
  /\ UNCHANGED <<callpc, callArg, winElapse, msg, msgLate, gen, cancelled,
                 lateAlarm, calls, got>>

\* raise (SIGALRM) (62), and back to GetMessage.
WndProcRaise ==
  /\ winpc = "raise" /\ winpc' = "get"
  /\ lateAlarm' = (lateAlarm \/ (msgLate /\ cancelled))
  /\ msg' = 0 /\ msgLate' = FALSE
  /\ UNCHANGED <<TimerVars, winElapse, HistVars>>

WndProc == WndProcCheck \/ WndProcKill \/ WndProcSet \/ WndProcRaise

\* The period of the armed timer elapses.
Expire ==
  /\ wtimer.armed /\ ~wtimer.due
  /\ wtimer' = [wtimer EXCEPT !.due = TRUE]
  /\ UNCHANGED <<itv, timerActive, callpc, callArg, gen, pendingGen, cancelled,
                 lateAlarm, calls, got, WinVars>>

\* Milliseconds since start_time when getitimer runs.  start_time is set
\* where the Windows timer is (re)armed; before its period is up less than
\* the period has passed, once it is due (its WM_TIMER waiting or
\* retrieved and not yet dispatched) at least the period.
Overdue == wtimer.due \/ (msg # 0 /\ msg = wtimer.gen)
Elapsed == IF Overdue THEN {wtimer.period, wtimer.period + 1}
           ELSE {0, wtimer.period - 1}

\* getitimer (ITIMER_REAL, &value) (187-215): itv with it_value 0 when no
\* timer is active; otherwise it_value in ms, less the elapsed ticks, both
\* UINT, split into tv_sec = val / 1000 and tv_usec = val % 1000.
Getitimer ==
  /\ callpc = "idle" /\ calls > 0 /\ calls' = calls - 1
  /\ IF timerActive = 0
     THEN got' = [value |-> Zero, armed |-> itv.value]
     ELSE \E e \in Elapsed :
            LET val == (Ms(itv.value) - e) % UMod IN
            got' = [value |-> [sec |-> val \div 1000, usec |-> val % 1000],
                    armed |-> itv.value]
  /\ UNCHANGED <<itv, timerActive, wtimer, callpc, callArg, gen, pendingGen,
                 cancelled, lateAlarm, WinVars>>

Next ==
  \/ \E v \in Values, iv \in Intervals : Setitimer(v, iv)
  \/ Alarm \/ Ualarm \/ SetitimerClear \/ SetitimerAssign \/ Getitimer
  \/ GetTimerMessage \/ WndProc \/ Expire

\* The win thread runs whenever it has a message to get or dispatch, and
\* a setitimer that started returns.
Spec == Init /\ [][Next]_vars /\ WF_vars(GetTimerMessage \/ WndProc)
          /\ WF_vars(SetitimerClear \/ SetitimerAssign)

-----------------------------------------------------------------------------
(* Properties.                                                             *)

TypeOK ==
  /\ itv \in [value : Values \cup Intervals \cup {Zero}, interval : Intervals \cup {Zero}]
  /\ timerActive \in {0, 1}
  /\ wtimer.armed \in BOOLEAN /\ wtimer.gen \in 0..gen /\ msg \in 0..gen
  /\ pendingGen \in 0..gen /\ cancelled \in BOOLEAN /\ lateAlarm \in BOOLEAN
  /\ callpc \in {"idle", "clear", "assign"}
  /\ callArg \in [value : Values, interval : Intervals \cup {Zero}]
       \cup {[value |-> Zero, interval |-> Zero]}
  /\ winpc \in {"get", "check", "kill", "set", "raise"}
  /\ winElapse \in Nat /\ msgLate \in BOOLEAN
  /\ calls \in 0..MaxCalls
  /\ got.value \in [sec : 0..(UMod \div 1000), usec : 0..999]

\* After a setitimer, alarm (0) or ualarm (0, ...) that stopped the timer
\* has returned, no SIGALRM comes from a WM_TIMER retrieved later, until
\* the timer is set again.  setitimer's KillTimer and timer_active = 0,
\* and WndProc's id check, KillTimer and re-arm, run in two threads
\* without a lock.
CancelSilences == ~lateAlarm

\* Between calls, while the program awaits the expiry of its latest
\* setitimer, that arming is still on its way: its Windows timer is armed
\* with timer_active set, so that WndProc will take its WM_TIMER, or its
\* WM_TIMER is in the win thread's hands.  A WM_TIMER of an earlier
\* arming, retrieved before setitimer killed that timer and processed
\* after setitimer armed the new one, must not stop the new one.
ArmedWhilePending ==
  callpc = "idle" /\ pendingGen # 0 =>
    \/ wtimer.armed /\ wtimer.gen = pendingGen /\ timerActive = 1
    \/ msg = pendingGen
=============================================================================
