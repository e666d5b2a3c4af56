---------------------------- MODULE SigDelivery ----------------------------
(***************************************************************************)
(* The pending-signal delivery protocol of one process:                    *)
(* winsup/cygwin/sigproc.cc (sig_send, wait_sig, sig_dispatch_pending,     *)
(* sig_clear) and the signal API entry points of winsup/cygwin/signal.cc   *)
(* that drive it (kill, sigprocmask, sigaction).                           *)
(*                                                                         *)
(* Two counter arrays hold pending signals: localTodo (local_sigtodo,      *)
(* written by this process's own threads) and globalTodo                   *)
(* (myself->_sigtodo, written by other processes, by "nowait" senders and  *)
(* by wait_sig itself when it re-queues a blocked signal).  Senders        *)
(* increment a counter and then raise one of three wake primitives; the    *)
(* wait_sig thread decrements every slot in turn, restoring it when the    *)
(* decrement went below zero, and applies the disposition of what it       *)
(* found.  A synchronous sender then waits on a completion primitive that  *)
(* is shared by every thread of its kind (sigcomplete_main,                *)
(* sigcomplete_nonmain).                                                   *)
(*                                                                         *)
(* Every counter update, semaphore release and event set of the code is   *)
(* its own step, because the hazards of this code are the interleavings   *)
(* between them.                                                           *)
(***************************************************************************)
EXTENDS Integers, Sequences, FiniteSets

CONSTANTS
  Threads,      \* threads of this process that call the signal API
  Main,         \* the main thread (mainthread.id)
  Remote,       \* other processes (and the reaper's "nowait" sends) signalling us
  UserSigs,     \* the POSIX signal numbers the model sends (1..NSIG-1)
  MaskChoices,  \* sets of signals sigprocmask may install
  ActSigs,      \* signals whose disposition sigaction may change
  Budget        \* bound: API calls per thread, sends per remote process

ASSUME /\ Main \in Threads
       /\ Threads \cap Remote = {}
       /\ UserSigs \subseteq 1..31
       /\ MaskChoices \subseteq SUBSET UserSigs
       /\ ActSigs \subseteq UserSigs
       /\ Budget \in [Threads \cup Remote -> Nat]

\* pinfo.h: internal pseudo-signals live below 1; only __SIGFLUSH is modelled
\* (__SIGSTRACE and __SIGCOMMUNE only call strace/commune code).
SigFlush == -2
SIGKILL == 9
SIGSTOP == 17
SIGCHLD == 20
Slots == {SigFlush} \cup UserSigs
\* wait_sig scans the slots from -__SIGOFFSET upward
Order == LET RECURSIVE Sorted(_)
             Sorted(S) == IF S = {} THEN << >>
                          ELSE LET m == CHOOSE v \in S : \A w \in S : v <= w
                               IN <<m>> \o Sorted(S \ {m})
         IN Sorted(Slots)
Disps == {"dfl", "ign", "hdl"}
RCs == <<"main", "nonmain", "nosync">>   \* catchem[] order: RC_MAIN, RC_NONMAIN, RC_NOSYNC

VARIABLES
  localTodo,        \* local_sigtodo[]
  globalTodo,       \* myself->_sigtodo[]
  catchMain,        \* sigcatch_main semaphore count
  catchNonmain,     \* sigcatch_nonmain semaphore count
  catchNosync,      \* sigcatch_nosync auto-reset event
  completeMain,     \* sigcomplete_main auto-reset event
  completeNonmain,  \* sigcomplete_nonmain semaphore count
  pendingSignals,   \* pending_signals flag
  sigMask,          \* myself->getsigmask ()
  disp,             \* myself->getsig (sig).sa_handler, as dfl/ign/hdl
  ws,               \* the wait_sig thread: program point and locals
  th,               \* each API thread: program point and locals
  rp,               \* each remote sender: program point and signal
  ops,              \* API calls made so far, per thread or remote sender
  sent,             \* history: occurrences of each user signal sent
  delivered,        \* history: occurrences whose disposition was applied
  discarded         \* history: occurrences thrown away by sig_clear

vars == <<localTodo, globalTodo, catchMain, catchNonmain, catchNosync,
          completeMain, completeNonmain, pendingSignals, sigMask, disp,
          ws, th, rp, ops, sent, delivered, discarded>>
protocol == <<catchMain, catchNonmain, catchNosync, completeMain, completeNonmain>>
history == <<sent, delivered, discarded>>

Nonmain == Threads \ {Main}
MaxOf(a, b) == IF a >= b THEN a ELSE b

-----------------------------------------------------------------------------
(* wait_sig's view of the arrays: RC_MAIN and RC_NONMAIN scan local_sigtodo, *)
(* RC_NOSYNC scans myself->_sigtodo (sigproc.cc 1152-1155).                 *)
Todo(rc) == IF rc = "nosync" THEN globalTodo ELSE localTodo
SetTodo(rc, s, v) ==
  IF rc = "nosync"
  THEN globalTodo' = [globalTodo EXCEPT ![s] = v] /\ UNCHANGED localTodo
  ELSE localTodo' = [localTodo EXCEPT ![s] = v] /\ UNCHANGED globalTodo

\* The mask test of wait_sig (sigproc.cc 1176-1179); main_vfork and
\* PID_STOPPED are not modelled.
Blocked(s) == s > 0 /\ s \notin {SIGKILL, SIGSTOP} /\ s \in sigMask

Signalled(c) == CASE c = "main"    -> catchMain > 0
                  [] c = "nonmain" -> catchNonmain > 0
                  [] c = "nosync"  -> catchNosync

\* The catch primitive to poll first, then WaitForMultipleObjects, which
\* returns the lowest signalled index (sigproc.cc 1121-1129).
Woken(prev) ==
  LET first == IF prev \in {"main", "nonmain"} THEN "nosync" ELSE "main"
  IN IF Signalled(first) THEN first
     ELSE RCs[CHOOSE k \in 1..3 : Signalled(RCs[k]) /\ \A j \in 1..(k-1) : ~Signalled(RCs[j])]

Consume(c) ==
  /\ catchMain' = IF c = "main" THEN catchMain - 1 ELSE catchMain
  /\ catchNonmain' = IF c = "nonmain" THEN catchNonmain - 1 ELSE catchNonmain
  /\ catchNosync' = IF c = "nosync" THEN FALSE ELSE catchNosync

\* Where the for/do-while of wait_sig goes after a slot (sigproc.cc 1162-1236).
NextSlot(w) ==
  IF w.i < Len(Order) THEN [w EXCEPT !.i = w.i + 1, !.pc = "dec"]
  ELSE IF w.more > 0 THEN [w EXCEPT !.i = 1, !.more = 0, !.pc = "dec"]
  ELSE [w EXCEPT !.pc = "out"]

\* After a slot whose counter was >= 0 (sigproc.cc 1218-1228).
AfterProcessed(w) ==
  IF w.failed \/ w.rc # "nosync" THEN [w EXCEPT !.pc = "out"] ELSE NextSlot(w)

MoreIf(w, x) == IF w.rc = "nosync" /\ x > 0 THEN w.more + 1 ELSE w.more

-----------------------------------------------------------------------------
(* The wait_sig thread.                                                    *)

WaitSigWake ==
  /\ ws.pc = "wait"
  /\ \E k \in 1..3 : Signalled(RCs[k])
  /\ LET rc == Woken(ws.rc)
     IN /\ Consume(rc)
        /\ ws' = [ws EXCEPT !.pc = "dec", !.rc = rc, !.i = 1, !.x = 0,
                            !.more = 0, !.failed = FALSE]
  /\ pendingSignals' = FALSE
  /\ UNCHANGED <<localTodo, globalTodo, completeMain, completeNonmain,
                 sigMask, disp, th, rp, ops, history>>

\* x = InterlockedDecrement (todo + sig)
WaitSigDecrement ==
  /\ ws.pc = "dec"
  /\ LET s == Order[ws.i]
         x == Todo(ws.rc)[s] - 1
     IN /\ SetTodo(ws.rc, s, x)
        /\ ws' = [ws EXCEPT !.x = x, !.pc = IF x < 0 THEN "restore" ELSE "check"]
  /\ UNCHANGED <<protocol, pendingSignals, sigMask, disp, th, rp, ops, history>>

\* if (x < 0) InterlockedIncrement (todo + sig)
WaitSigRestore ==
  /\ ws.pc = "restore"
  /\ LET s == Order[ws.i] IN SetTodo(ws.rc, s, Todo(ws.rc)[s] + 1)
  /\ ws' = NextSlot(ws)
  /\ UNCHANGED <<protocol, pendingSignals, sigMask, disp, th, rp, ops, history>>

\* The signal is blocked: note it, then re-queue it on the global array.
WaitSigBlocked ==
  /\ ws.pc = "check"
  /\ Blocked(Order[ws.i])
  /\ pendingSignals' = (pendingSignals \/ (ws.rc # "nosync" /\ ws.x > 0))
  /\ ws' = [ws EXCEPT !.pc = "requeue"]
  /\ UNCHANGED <<localTodo, globalTodo, protocol, sigMask, disp, th, rp, ops, history>>

\* Mutant of WaitSigRequeue: a blocked signal is dropped instead of re-queued.
WaitSigRequeueDropped ==
  /\ ws.pc = "requeue"
  /\ ws' = AfterProcessed(ws)
  /\ pendingSignals' = TRUE
  /\ UNCHANGED <<localTodo, globalTodo, protocol, sigMask, disp, th, rp, ops, history>>

\* x = InterlockedIncrement (myself->getsigtodo (sig)); pending_signals = true
WaitSigRequeue ==
  /\ ws.pc = "requeue"
  /\ LET s == Order[ws.i]
     IN /\ globalTodo' = [globalTodo EXCEPT ![s] = @ + 1]
        /\ ws' = AfterProcessed(ws)
  /\ pendingSignals' = TRUE
  /\ UNCHANGED <<localTodo, protocol, sigMask, disp, th, rp, ops, history>>

\* __SIGFLUSH woken through sigcatch_main: set flush, wake the nosync scan and
\* skip the completion (goto out1).
WaitSigFlushMain ==
  /\ ws.pc = "check"
  /\ Order[ws.i] = SigFlush /\ ws.rc = "main"
  /\ pendingSignals' = (pendingSignals \/ ws.x > 0)
  /\ catchNosync' = TRUE
  /\ ws' = [ws EXCEPT !.flush = TRUE, !.pc = "wait"]
  /\ UNCHANGED <<localTodo, globalTodo, catchMain, catchNonmain, completeMain,
                 completeNonmain, sigMask, disp, th, rp, ops, history>>

\* __SIGFLUSH from any other wake does nothing; a user signal is handed to
\* sig_handle, which succeeds.
WaitSigDeliver ==
  /\ ws.pc = "check"
  /\ LET s == Order[ws.i]
     IN /\ ~Blocked(s)
        /\ s = SigFlush => ws.rc # "main"
        /\ delivered' = IF s = SigFlush THEN delivered
                        ELSE [delivered EXCEPT ![s] = @ + 1]
  /\ pendingSignals' = (pendingSignals \/ (ws.rc # "nosync" /\ ws.x > 0))
  /\ ws' = AfterProcessed([ws EXCEPT !.more = MoreIf(ws, ws.x)])
  /\ UNCHANGED <<localTodo, globalTodo, protocol, sigMask, disp, th, rp, ops,
                 sent, discarded>>

\* sig_handle fails to interrupt the main thread for a handler: re-queue the
\* signal and retry through sigcatch_nosync.
WaitSigHandleFailed ==
  /\ ws.pc = "check"
  /\ LET s == Order[ws.i]
     IN /\ s \in UserSigs /\ ~Blocked(s) /\ disp[s] = "hdl"
  /\ pendingSignals' = (pendingSignals \/ (ws.rc # "nosync" /\ ws.x > 0))
  /\ ws' = [ws EXCEPT !.failed = TRUE, !.pc = "requeuefail"]
  /\ UNCHANGED <<localTodo, globalTodo, protocol, sigMask, disp, th, rp, ops, history>>

WaitSigRequeueFailed ==
  /\ ws.pc = "requeuefail"
  /\ LET s == Order[ws.i]
         x == globalTodo[s] + 1
     IN /\ globalTodo' = [globalTodo EXCEPT ![s] = x]
        /\ ws' = AfterProcessed([ws EXCEPT !.more = MoreIf(ws, x)])
  /\ pendingSignals' = TRUE
  /\ UNCHANGED <<localTodo, protocol, sigMask, disp, th, rp, ops, history>>

\* Mutant of WaitSigOut: the flush flag no longer completes the main thread.
WaitSigOutNoFlush ==
  /\ ws.pc = "out"
  /\ completeNonmain' = IF ws.rc = "nonmain" THEN completeNonmain + 1 ELSE completeNonmain
  /\ completeMain' = IF ws.rc = "main" THEN TRUE ELSE completeMain
  /\ catchNosync' = (catchNosync \/ ws.failed)
  /\ ws' = [ws EXCEPT !.pc = "wait", !.flush = IF ws.rc = "main" THEN FALSE ELSE ws.flush]
  /\ UNCHANGED <<localTodo, globalTodo, catchMain, catchNonmain, pendingSignals,
                 sigMask, disp, th, rp, ops, history>>

\* out: signal completion for the wake that started the scan; out1: retry a
\* failed interrupt through sigcatch_nosync.
WaitSigOut ==
  /\ ws.pc = "out"
  /\ completeNonmain' = IF ws.rc = "nonmain" THEN completeNonmain + 1 ELSE completeNonmain
  /\ completeMain' = IF ws.rc # "nonmain" /\ (ws.rc = "main" \/ ws.flush)
                     THEN TRUE ELSE completeMain
  /\ catchNosync' = (catchNosync \/ ws.failed)
  /\ ws' = [ws EXCEPT !.pc = "wait",
                      !.flush = IF ws.rc # "nonmain" /\ (ws.rc = "main" \/ ws.flush)
                                THEN FALSE ELSE ws.flush]
  /\ UNCHANGED <<localTodo, globalTodo, catchMain, catchNonmain, pendingSignals,
                 sigMask, disp, th, rp, ops, history>>

-----------------------------------------------------------------------------
(* sig_send from a thread of this process (sigproc.cc 643-784): always    *)
(* synchronous, on local_sigtodo, through the main or non-main primitives. *)

ThreadsUnchanged == UNCHANGED <<rp, ops>>

BeginSend(t, s, next) ==
  th' = [th EXCEPT ![t].pc = "sinc", ![t].sig = s, ![t].cont = next]

\* sig_dispatch_pending (sigproc.cc 535-566): if wait_sig left signals
\* pending, send __SIGFLUSH to ourselves and wait for it.
DispatchPending(t, next) ==
  IF pendingSignals THEN BeginSend(t, SigFlush, next)
  ELSE th' = [th EXCEPT ![t].pc = next]

\* InterlockedIncrement (todo)
SendIncrement(t) ==
  /\ th[t].pc = "sinc"
  /\ localTodo' = [localTodo EXCEPT ![th[t].sig] = @ + 1]
  /\ sent' = IF th[t].sig \in UserSigs THEN [sent EXCEPT ![th[t].sig] = @ + 1] ELSE sent
  /\ th' = [th EXCEPT ![t].pc = "swake"]
  /\ UNCHANGED <<globalTodo, protocol, pendingSignals, sigMask, disp, ws, rp, ops,
                 delivered, discarded>>

\* ReleaseSemaphore (thiscatch, 1, NULL)
SendWake(t) ==
  /\ th[t].pc = "swake"
  /\ IF t = Main THEN catchMain' = catchMain + 1 /\ UNCHANGED catchNonmain
                 ELSE catchNonmain' = catchNonmain + 1 /\ UNCHANGED catchMain
  /\ th' = [th EXCEPT ![t].pc = "swait"]
  /\ UNCHANGED <<localTodo, globalTodo, catchNosync, completeMain, completeNonmain,
                 pendingSignals, sigMask, disp, ws, rp, ops, history>>

\* WaitForSingleObject (thiscomplete, WSSC) returns WAIT_OBJECT_0.
SendCompleted(t) ==
  /\ th[t].pc = "swait"
  /\ IF t = Main THEN completeMain /\ completeMain' = FALSE /\ UNCHANGED completeNonmain
                 ELSE completeNonmain > 0 /\ completeNonmain' = completeNonmain - 1
                      /\ UNCHANGED completeMain
  /\ th' = [th EXCEPT ![t].pc = th[t].cont]
  /\ UNCHANGED <<localTodo, globalTodo, catchMain, catchNonmain, catchNosync,
                 pendingSignals, sigMask, disp, ws, rp, ops, history>>

\* The WSSC wait expires: sig_send reports the failure and returns ENOSYS.
SendTimeout(t) ==
  /\ th[t].pc = "swait"
  /\ th' = [th EXCEPT ![t].pc = th[t].cont]
  /\ UNCHANGED <<localTodo, globalTodo, protocol, pendingSignals, sigMask, disp,
                 ws, rp, ops, history>>

-----------------------------------------------------------------------------
(* The API calls (signal.cc): each starts with sig_dispatch_pending.       *)

StartCall(t, pc) ==
  /\ th[t].pc = "idle"
  /\ ops[t] < Budget[t]
  /\ ops' = [ops EXCEPT ![t] = @ + 1]
  /\ UNCHANGED rp

\* kill (pid = self, sig) -> kill_worker -> sig_send (myself, sig)
Kill(t, s) ==
  /\ StartCall(t, "kdisp")
  /\ th' = [th EXCEPT ![t].pc = "kdisp", ![t].arg = s]
  /\ UNCHANGED <<localTodo, globalTodo, protocol, pendingSignals, sigMask, disp,
                 ws, history>>

KillDispatch(t) ==
  /\ th[t].pc = "kdisp"
  /\ DispatchPending(t, "ksend")
  /\ UNCHANGED <<localTodo, globalTodo, protocol, pendingSignals, sigMask, disp,
                 ws, rp, ops, history>>

KillSend(t) ==
  /\ th[t].pc = "ksend"
  /\ BeginSend(t, th[t].arg, "idle")
  /\ UNCHANGED <<localTodo, globalTodo, protocol, pendingSignals, sigMask, disp,
                 ws, rp, ops, history>>

\* sigprocmask (how, set): the new mask is computed from the current one
\* and installed by set_process_mask, which flushes pending signals when
\* the mask changed.
Sigprocmask(t, m) ==
  /\ StartCall(t, "mdisp")
  /\ th' = [th EXCEPT ![t].pc = "mdisp", ![t].mask = m]
  /\ UNCHANGED <<localTodo, globalTodo, protocol, pendingSignals, sigMask, disp,
                 ws, history>>

MaskDispatch(t) ==
  /\ th[t].pc = "mdisp"
  /\ DispatchPending(t, "mset")
  /\ UNCHANGED <<localTodo, globalTodo, protocol, pendingSignals, sigMask, disp,
                 ws, rp, ops, history>>

SetProcessMask(t) ==
  /\ th[t].pc = "mset"
  /\ sigMask' = th[t].mask
  /\ th' = [th EXCEPT ![t].pc = IF th[t].mask # sigMask THEN "mdisp2" ELSE "idle"]
  /\ UNCHANGED <<localTodo, globalTodo, protocol, pendingSignals, disp, ws, rp,
                 ops, history>>

MaskDispatchAfter(t) ==
  /\ th[t].pc = "mdisp2"
  /\ DispatchPending(t, "idle")
  /\ UNCHANGED <<localTodo, globalTodo, protocol, pendingSignals, sigMask, disp,
                 ws, rp, ops, history>>

\* sigaction (sig, newact, NULL); SIG_IGN, and SIG_DFL for SIGCHLD, clear
\* the pending counters through sig_clear.
Sigaction(t, s, d) ==
  /\ StartCall(t, "adisp")
  /\ th' = [th EXCEPT ![t].pc = "adisp", ![t].arg = s, ![t].disp = d]
  /\ UNCHANGED <<localTodo, globalTodo, protocol, pendingSignals, sigMask, disp,
                 ws, history>>

ActionDispatch(t) ==
  /\ th[t].pc = "adisp"
  /\ DispatchPending(t, "aset")
  /\ UNCHANGED <<localTodo, globalTodo, protocol, pendingSignals, sigMask, disp,
                 ws, rp, ops, history>>

ClearsPending(s, d) == d = "ign" \/ (d = "dfl" /\ s = SIGCHLD)

ActionSet(t) ==
  /\ th[t].pc = "aset"
  /\ disp' = [disp EXCEPT ![th[t].arg] = th[t].disp]
  /\ th' = [th EXCEPT ![t].pc = IF ClearsPending(th[t].arg, th[t].disp)
                                THEN "aclrg" ELSE "idle"]
  /\ UNCHANGED <<localTodo, globalTodo, protocol, pendingSignals, sigMask, ws, rp,
                 ops, history>>

\* sig_clear: InterlockedExchange (myself->getsigtodo (sig), 0)
ClearGlobal(t) ==
  /\ th[t].pc = "aclrg"
  /\ LET s == th[t].arg
     IN /\ discarded' = [discarded EXCEPT ![s] = @ + MaxOf(globalTodo[s], 0)]
        /\ globalTodo' = [globalTodo EXCEPT ![s] = 0]
  /\ th' = [th EXCEPT ![t].pc = "aclrl"]
  /\ UNCHANGED <<localTodo, protocol, pendingSignals, sigMask, disp, ws, rp, ops,
                 sent, delivered>>

\* sig_clear: InterlockedExchange (getlocal_sigtodo (sig), 0)
ClearLocal(t) ==
  /\ th[t].pc = "aclrl"
  /\ LET s == th[t].arg
     IN /\ discarded' = [discarded EXCEPT ![s] = @ + MaxOf(localTodo[s], 0)]
        /\ localTodo' = [localTodo EXCEPT ![s] = 0]
  /\ th' = [th EXCEPT ![t].pc = "idle"]
  /\ UNCHANGED <<globalTodo, protocol, pendingSignals, sigMask, disp, ws, rp, ops,
                 sent, delivered>>

-----------------------------------------------------------------------------
(* sig_send from another process (or from wait_subproc with               *)
(* myself_nowait): increment myself->_sigtodo and set sigcatch_nosync.    *)

RemoteIncrement(r, s) ==
  /\ rp[r].pc = "idle"
  /\ ops[r] < Budget[r]
  /\ ops' = [ops EXCEPT ![r] = @ + 1]
  /\ globalTodo' = [globalTodo EXCEPT ![s] = @ + 1]
  /\ sent' = [sent EXCEPT ![s] = @ + 1]
  /\ rp' = [rp EXCEPT ![r] = [pc |-> "wake", sig |-> s]]
  /\ UNCHANGED <<localTodo, protocol, pendingSignals, sigMask, disp, ws, th,
                 delivered, discarded>>

RemoteWake(r) ==
  /\ rp[r].pc = "wake"
  /\ catchNosync' = TRUE
  /\ rp' = [rp EXCEPT ![r].pc = "idle"]
  /\ UNCHANGED <<localTodo, globalTodo, catchMain, catchNonmain, completeMain,
                 completeNonmain, pendingSignals, sigMask, disp, ws, th, ops, history>>

-----------------------------------------------------------------------------
Init ==
  /\ localTodo = [s \in Slots |-> 0]
  /\ globalTodo = [s \in Slots |-> 0]
  /\ catchMain = 0 /\ catchNonmain = 0 /\ catchNosync = FALSE
  /\ completeMain = FALSE /\ completeNonmain = 0
  /\ pendingSignals = FALSE
  /\ sigMask = {}
  /\ disp = [s \in UserSigs |-> "dfl"]
  /\ ws = [pc |-> "wait", rc |-> "nosync", i |-> 1, x |-> 0, more |-> 0,
           failed |-> FALSE, flush |-> FALSE]
  /\ th = [t \in Threads |-> [pc |-> "idle", sig |-> SigFlush, cont |-> "idle",
                              arg |-> SigFlush, mask |-> {}, disp |-> "dfl"]]
  /\ rp = [r \in Remote |-> [pc |-> "idle", sig |-> SigFlush]]
  /\ ops = [a \in Threads \cup Remote |-> 0]
  /\ sent = [s \in UserSigs |-> 0]
  /\ delivered = [s \in UserSigs |-> 0]
  /\ discarded = [s \in UserSigs |-> 0]

WaitSigStep ==
  \/ WaitSigWake \/ WaitSigDecrement \/ WaitSigRestore \/ WaitSigBlocked
  \/ WaitSigRequeue \/ WaitSigFlushMain \/ WaitSigDeliver \/ WaitSigHandleFailed
  \/ WaitSigRequeueFailed \/ WaitSigOut

\* A step of an API call already under way.
ThreadStep(t) ==
  \/ SendIncrement(t) \/ SendWake(t) \/ SendCompleted(t)
  \/ KillDispatch(t) \/ KillSend(t)
  \/ MaskDispatch(t) \/ SetProcessMask(t) \/ MaskDispatchAfter(t)
  \/ ActionDispatch(t) \/ ActionSet(t) \/ ClearGlobal(t) \/ ClearLocal(t)

\* A new API call.
ThreadCall(t) ==
  \/ \E s \in UserSigs : Kill(t, s)
  \/ \E m \in MaskChoices : Sigprocmask(t, m)
  \/ \E s \in ActSigs, d \in Disps : Sigaction(t, s, d)

Next ==
  \/ WaitSigStep
  \/ \E t \in Threads : ThreadStep(t) \/ ThreadCall(t) \/ SendTimeout(t)
  \/ \E r \in Remote : RemoteWake(r) \/ \E s \in UserSigs : RemoteIncrement(r, s)

\* wait_sig is a dedicated thread and every call in progress runs to its end;
\* the main thread is eventually interruptible, so a signal with a handler is
\* eventually handed over (strong fairness on the successful sig_handle).
Fairness ==
  /\ WF_vars(WaitSigStep /\ ~WaitSigDeliver)
  /\ SF_vars(WaitSigDeliver)
  /\ \A t \in Threads : WF_vars(ThreadStep(t))
  /\ \A r \in Remote : WF_vars(RemoteWake(r))

Spec == Init /\ [][Next]_vars /\ Fairness

-----------------------------------------------------------------------------
(* Properties.                                                             *)

TypeOK ==
  /\ localTodo \in [Slots -> Int] /\ globalTodo \in [Slots -> Int]
  /\ catchMain \in Nat /\ catchNonmain \in Nat /\ catchNosync \in BOOLEAN
  /\ completeMain \in BOOLEAN /\ completeNonmain \in Nat
  /\ pendingSignals \in BOOLEAN
  /\ sigMask \subseteq UserSigs /\ disp \in [UserSigs -> Disps]
  /\ ws.pc \in {"wait", "dec", "restore", "check", "requeue", "requeuefail", "out"}
  /\ ws.rc \in {"main", "nonmain", "nosync"} /\ ws.i \in 1..Len(Order)
  /\ \A t \in Threads : th[t].pc \in {"idle", "sinc", "swake", "swait", "kdisp",
        "ksend", "mdisp", "mset", "mdisp2", "adisp", "aset", "aclrg", "aclrl"}
  /\ sent \in [UserSigs -> Nat] /\ delivered \in [UserSigs -> Nat]
  /\ discarded \in [UserSigs -> Nat]

\* The occurrence wait_sig has taken out of a counter and not yet delivered
\* or put back; a slot at "restore" was decremented below its real value.
Held(s) ==
  IF ws.pc \in {"restore", "check", "requeue", "requeuefail"} /\ Order[ws.i] = s
  THEN 1 ELSE 0
Stored(s) == localTodo[s] + globalTodo[s] + Held(s)

\* No signal is lost: every occurrence a sender counted in (sig_send's
\* InterlockedIncrement) has been delivered by wait_sig, thrown away by
\* sig_clear, or is still counted, across the decrement/restore and the
\* re-queue of blocked and failed signals by wait_sig.
NoSignalLost ==
  \A s \in UserSigs : sent[s] <= delivered[s] + discarded[s] + Stored(s)

\* No signal is invented: wait_sig never delivers, and the counters never
\* hold, more occurrences than were sent (spec: a signal is never
\* duplicated).
NoDuplicateSignal ==
  \A s \in UserSigs : delivered[s] + discarded[s] + Stored(s) <= sent[s]

\* Every synchronous sig_send that waits for completion eventually returns.
SyncSendReturns ==
  \A t \in Threads : th[t].pc = "swait" ~> th[t].pc # "swait"

\* A pending signal that is not blocked is eventually delivered without
\* being sent again (spec 8: unblocking a blocked signal delivers it).
UnblockedPendingDelivered ==
  \A s \in UserSigs :
    (Stored(s) > 0 /\ s \notin sigMask) ~> (Stored(s) = 0 \/ s \in sigMask)

=============================================================================
