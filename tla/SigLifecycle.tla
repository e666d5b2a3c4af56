---------------------------- MODULE SigLifecycle ----------------------------
(***************************************************************************)
(* The life of the signal machinery of one process, winsup/cygwin/        *)
(* sigproc.cc and dcrt0.cc: sigproc_init, called by dll_crt0_1, creates    *)
(* the manual-reset event wait_sig_inited and starts the wait_sig thread,  *)
(* which makes its catch and completion handles and then sets the event.  *)
(* sigproc_init does not wait for it.  Instead the first sig_send to this *)
(* process that finds wait_sig_inited non-NULL calls wait_for_sigthread,  *)
(* which waits on the event, NULLs the global and closes the handle, and   *)
(* dll_crt0_1 calls wait_for_sigthread itself before main.  At exit,       *)
(* sigproc_terminate NULLs hwait_sig, zeroes sig_loop_wait, closes         *)
(* sigcomplete_main and releases sigcomplete_nonmain 20 times.             *)
(*                                                                         *)
(* What wait_sig does with a signal is SigDelivery's subject; here a catch *)
(* is a count per kind and serving it is one step that signals the        *)
(* matching completion.  Handles are the model values "ev" and "null".  A  *)
(* wait on, or a close of, a NULL or closed handle fails at once (release  *)
(* build; a debug build's assert aborts instead) and is recorded in       *)
(* misuse.  sig_send's 60 s completion timeout may expire only once       *)
(* teardown has begun: before, wait_sig answers in time.                   *)
(***************************************************************************)
EXTENDS Integers

CONSTANTS
  Threads,    \* threads of the process that send to it
  Main,       \* the main thread, which runs dll_crt0_1 and exits
  Budget,     \* sig_send calls per thread
  NRelease    \* the ReleaseSemaphore count of sigproc_terminate (20)

Kinds == {"main", "nonmain", "nosync"}

\* INFINITE, 0xFFFFFFFF as a DWORD.
INFINITE == -1

VARIABLES
  waitSigInited,  \* the global wait_sig_inited: "ev" or "null"
  ev,             \* the event object: still open, set
  hwaitSig,       \* hwait_sig # NULL
  sigLoopWait,    \* sig_loop_wait: INFINITE or 0
  ws,             \* where wait_sig is
  catches,        \* per kind: the catch semaphore's count (an event for nosync)
  compMain,       \* sigcomplete_main: open, set
  compNonmain,    \* sigcomplete_nonmain's count
  pc,             \* per thread: where it is
  h,              \* per thread: the local hsig_inited of wait_for_sigthread
  kind,           \* per thread: the sig_send under way, "none" in dll_crt0_1's call
  ret,            \* per thread: where to go back to
  rc,             \* per thread: what the last sig_send returned
  sends,          \* per thread: sig_send calls left
  misuse          \* history: failed asserts and uses of dead handles

vars == <<waitSigInited, ev, hwaitSig, sigLoopWait, ws, catches, compMain,
          compNonmain, pc, h, kind, ret, rc, sends, misuse>>

threadVars == <<pc, h, kind, ret, rc, sends>>
sigVars == <<waitSigInited, ev, hwaitSig, sigLoopWait, ws, catches, compMain,
             compNonmain>>

\* The process is started; no other thread exists before sigproc_init.
Init ==
  /\ waitSigInited = "null" /\ ev = [open |-> FALSE, set |-> FALSE]
  /\ hwaitSig = FALSE /\ sigLoopWait = INFINITE /\ ws = "none"
  /\ catches = [k \in Kinds |-> 0]
  /\ compMain = [open |-> FALSE, set |-> FALSE] /\ compNonmain = 0
  /\ pc = [t \in Threads |-> IF t = Main THEN "crt0" ELSE "idle"]
  /\ h = [t \in Threads |-> "null"] /\ kind = [t \in Threads |-> "none"]
  /\ ret = [t \in Threads |-> "idle"] /\ rc = [t \in Threads |-> "none"]
  /\ sends = [t \in Threads |-> Budget] /\ misuse = {}

Goto(t, l) == pc' = [pc EXCEPT ![t] = l]
Return(t, r) == pc' = [pc EXCEPT ![t] = ret[t]] /\ rc' = [rc EXCEPT ![t] = r]

\* no_signals_available ().
NoSignalsAvailable == ~hwaitSig \/ sigLoopWait = 0

\* wait_sig has made its catch and completion handles.
HandlesMade == ws \notin {"none", "start"}

\* sigproc_init: wait_sig_inited = CreateEvent (manual reset, unset);
\* hwait_sig = new cygthread (wait_sig).
SigprocInit ==
  /\ pc[Main] = "crt0"
  /\ waitSigInited' = "ev" /\ ev' = [open |-> TRUE, set |-> FALSE]
  /\ hwaitSig' = TRUE /\ ws' = "start"
  /\ pc' = [pc EXCEPT ![Main] = "init"]
  /\ ret' = [ret EXCEPT ![Main] = "init"]
  /\ UNCHANGED <<sigLoopWait, catches, compMain, compNonmain, h, kind, rc,
                 sends, misuse>>

\* dll_crt0_1 before main: wait_for_sigthread (), unconditionally.
CrtWait ==
  /\ pc[Main] = "init"
  /\ pc' = [pc EXCEPT ![Main] = "wfs_read"]
  /\ kind' = [kind EXCEPT ![Main] = "none"]
  /\ ret' = [ret EXCEPT ![Main] = "user"]
  /\ UNCHANGED <<sigVars, h, rc, sends, misuse>>

\* A sig_send to this process (kill or raise of itself, the reaper's
\* SIGCHLD, the win thread's SIGALRM), made during dll_crt0_1 by a DLL
\* initialiser or premain function, or later.  The main thread waits for
\* completion; another thread waits on the non-main semaphore or, through
\* myself_nowait, does not wait.
Call(t) ==
  /\ pc[t] \in {"init", "user", "idle"} /\ pc[Main] # "crt0" /\ sends[t] > 0
  /\ sends' = [sends EXCEPT ![t] = @ - 1]
  /\ \E k \in (IF t = Main THEN {"main"} ELSE {"nonmain", "nosync"}) :
       kind' = [kind EXCEPT ![t] = k]
  /\ ret' = [ret EXCEPT ![t] = pc[t]]
  /\ Goto(t, "check")
  /\ UNCHANGED <<sigVars, h, rc, misuse>>

\* if (no_signals_available ()) goto out; if (wait_sig_inited)
\* wait_for_sigthread ();
Check(t) ==
  /\ pc[t] = "check"
  /\ IF NoSignalsAvailable
     THEN Return(t, "unavailable")
     ELSE /\ Goto(t, IF waitSigInited = "ev" THEN "wfs_read" ELSE "signal")
          /\ UNCHANGED rc
  /\ UNCHANGED <<sigVars, h, kind, ret, sends, misuse>>

\* wait_for_sigthread: hsig_inited = wait_sig_inited; assert (hsig_inited).
WfsRead(t) ==
  /\ pc[t] = "wfs_read"
  /\ h' = [h EXCEPT ![t] = waitSigInited]
  /\ misuse' = IF waitSigInited = "null" THEN misuse \cup {"assert_inited"}
               ELSE misuse
  /\ Goto(t, "wfs_wait")
  /\ UNCHANGED <<sigVars, kind, ret, rc, sends>>

\* Mutant of WfsWait: the wait consumes the event, as if wait_sig_inited
\* were created auto-reset.
WfsWaitAutoReset(t) ==
  /\ \/ /\ pc[t] = "wfs_wait" /\ h[t] = "ev" /\ ev.open /\ ~ev.set
        /\ Goto(t, "wfs_blocked") /\ UNCHANGED <<ev, misuse>>
     \/ /\ pc[t] \in {"wfs_wait", "wfs_blocked"} /\ h[t] = "ev" /\ ev.set
        /\ pc[t] = "wfs_blocked" \/ ev.open
        /\ ev' = [ev EXCEPT !.set = FALSE]
        /\ Goto(t, "wfs_null") /\ UNCHANGED misuse
     \/ /\ pc[t] = "wfs_wait" /\ (h[t] = "null" \/ ~ev.open)
        /\ misuse' = misuse \cup {"wait_dead"}
        /\ Goto(t, "wfs_null") /\ UNCHANGED ev
  /\ UNCHANGED <<waitSigInited, hwaitSig, sigLoopWait, ws, catches, compMain,
                 compNonmain, h, kind, ret, rc, sends>>

\* Mutant of WfsWait: the wait returns whether or not the event is set,
\* as a wait with a zero timeout whose result is ignored.
WfsWaitNoWait(t) ==
  /\ pc[t] = "wfs_wait"
  /\ misuse' = IF h[t] = "null" \/ ~ev.open THEN misuse \cup {"wait_dead"}
               ELSE misuse
  /\ Goto(t, "wfs_null")
  /\ UNCHANGED <<sigVars, h, kind, ret, rc, sends>>

\* WaitForSingleObject (hsig_inited, INFINITE).  On an open handle it
\* returns once the event is set; a close while it waits does not end the
\* wait, as the event object lives on.  On a NULL or closed handle it
\* fails at once.
WfsWait(t) ==
  /\ \/ /\ pc[t] = "wfs_wait" /\ h[t] = "ev" /\ ev.open /\ ~ev.set
        /\ Goto(t, "wfs_blocked") /\ UNCHANGED misuse
     \/ /\ pc[t] \in {"wfs_wait", "wfs_blocked"} /\ h[t] = "ev" /\ ev.set
        /\ pc[t] = "wfs_blocked" \/ ev.open
        /\ Goto(t, "wfs_null") /\ UNCHANGED misuse
     \/ /\ pc[t] = "wfs_wait" /\ (h[t] = "null" \/ ~ev.open)
        /\ misuse' = misuse \cup {"wait_dead"}
        /\ Goto(t, "wfs_null")
  /\ UNCHANGED <<sigVars, h, kind, ret, rc, sends>>

\* wait_sig_inited = NULL; ForceCloseHandle1 (hsig_inited).  Then
\* sig_send goes on; dll_crt0_1 returns to its caller.
WfsNull(t) ==
  /\ pc[t] = "wfs_null"
  /\ waitSigInited' = "null"
  /\ Goto(t, "wfs_close")
  /\ UNCHANGED <<ev, hwaitSig, sigLoopWait, ws, catches, compMain, compNonmain,
                 h, kind, ret, rc, sends, misuse>>

WfsClose(t) ==
  /\ pc[t] = "wfs_close"
  /\ \/ h[t] = "ev" /\ ev.open /\ ev' = [ev EXCEPT !.open = FALSE]
        /\ UNCHANGED misuse
     \/ (h[t] = "null" \/ ~ev.open) /\ misuse' = misuse \cup {"close_dead"}
        /\ UNCHANGED ev
  /\ IF kind[t] = "none" THEN Return(t, rc[t]) ELSE Goto(t, "signal") /\ UNCHANGED rc
  /\ UNCHANGED <<waitSigInited, hwaitSig, sigLoopWait, ws, catches, compMain,
                 compNonmain, h, kind, ret, sends>>

\* proc_can_be_signalled (myself): assert (!wait_sig_inited).  Then the
\* catch and completion of the caller's kind are taken, the signal's
\* counter incremented and the catch released.  A release fails on a
\* handle wait_sig has not made yet: sig_send reports it and returns 1.
\* A send that does not wait returns 0.
Signal(t) ==
  /\ pc[t] = "signal"
  /\ misuse' = IF waitSigInited = "ev" THEN misuse \cup {"assert_not_inited"}
               ELSE misuse
  /\ IF ~HandlesMade
     THEN Return(t, "fail") /\ UNCHANGED catches
     ELSE /\ catches' = [catches EXCEPT ![kind[t]] =
                           IF kind[t] = "nosync" THEN 1 ELSE @ + 1]
          /\ IF kind[t] = "nosync" THEN Return(t, "ok")
             ELSE Goto(t, "wait") /\ UNCHANGED rc
  /\ UNCHANGED <<waitSigInited, ev, hwaitSig, sigLoopWait, ws, compMain,
                 compNonmain, h, kind, ret, sends>>

\* WaitForSingleObject (thiscomplete, WSSC): the main thread waits on the
\* auto-reset sigcomplete_main, failing at once (ENOSYS) once it is
\* closed; another thread waits for a count of sigcomplete_nonmain.  A
\* close while the main thread waits does not end its wait, and wait_sig's
\* SetEvent on the closed handle fails.
Completion(t) ==
  \/ /\ kind[t] = "main" /\ compMain.set /\ (pc[t] = "blocked" \/ compMain.open)
     /\ compMain' = [compMain EXCEPT !.set = FALSE]
     /\ Return(t, "ok") /\ UNCHANGED compNonmain
  \/ /\ kind[t] = "nonmain" /\ compNonmain > 0
     /\ compNonmain' = compNonmain - 1
     /\ Return(t, "ok") /\ UNCHANGED compMain

Wait(t) ==
  /\ \/ pc[t] \in {"wait", "blocked"} /\ Completion(t)
     \/ /\ pc[t] = "wait" /\ kind[t] = "main" /\ ~compMain.open
        /\ Return(t, "enosys") /\ UNCHANGED <<compMain, compNonmain>>
     \/ /\ pc[t] = "wait" /\ ~ENABLED Completion(t)
        /\ (kind[t] = "main" => compMain.open)
        /\ Goto(t, "blocked") /\ UNCHANGED <<rc, compMain, compNonmain>>
  /\ UNCHANGED <<waitSigInited, ev, hwaitSig, sigLoopWait, ws, catches, h,
                 kind, ret, sends, misuse>>

\* The WSSC timeout (60 s) of a blocked wait.  The model lets it expire
\* only once teardown has begun: before, wait_sig answers in time.
Timeout(t) ==
  /\ pc[t] = "blocked" /\ sigLoopWait = 0
  /\ Return(t, "timeout")
  /\ UNCHANGED <<sigVars, h, kind, ret, sends, misuse>>

\* wait_sig, before its loop: the catch and completion handles are made
\* (and PID_ACTIVE set), then SetEvent (wait_sig_inited), which fails on a
\* NULL or closed handle.
WaitSigStart ==
  \/ /\ ws = "start"
     /\ ws' = "ready" /\ compMain' = [open |-> TRUE, set |-> FALSE]
     /\ UNCHANGED ev
  \/ /\ ws = "ready"
     /\ ev' = IF waitSigInited = "ev" /\ ev.open THEN [ev EXCEPT !.set = TRUE]
              ELSE ev
     /\ ws' = "loop" /\ UNCHANGED compMain

\* One turn of wait_sig's loop on a catch of kind k: the signals are
\* handled and the completion of that kind signalled, ReleaseSemaphore
\* (sigcomplete_nonmain) or SetEvent (sigcomplete_main), which fails once
\* the handle is closed.
Serve(k) ==
  /\ catches[k] > 0
  /\ catches' = [catches EXCEPT ![k] = @ - 1]
  /\ compMain' = IF k = "main" /\ compMain.open THEN [compMain EXCEPT !.set = TRUE]
                 ELSE compMain
  /\ compNonmain' = IF k = "nonmain" THEN compNonmain + 1 ELSE compNonmain
  /\ ws' = "loop"

\* WaitForMultipleObjects (3, catchem, FALSE, sig_loop_wait): a pending
\* catch is served; with none, a timeout of 0 ends the thread and INFINITE
\* blocks it until a catch is released, whatever sig_loop_wait becomes.
WaitSigLoop ==
  \/ /\ ws \in {"loop", "blocked"}
     /\ \E k \in Kinds : Serve(k)
  \/ /\ ws = "loop" /\ \A k \in Kinds : catches[k] = 0
     /\ ws' = IF sigLoopWait = 0 THEN "exited" ELSE "blocked"
     /\ UNCHANGED <<catches, compMain, compNonmain>>

WaitSigStep ==
  /\ WaitSigStart \/ WaitSigLoop
  /\ UNCHANGED <<waitSigInited, hwaitSig, sigLoopWait, threadVars, misuse>>
  /\ (WaitSigStart => UNCHANGED <<catches, compNonmain>>)
  /\ (WaitSigLoop => UNCHANGED ev)

TermPcs == {"term_hwait", "term_loop", "term_close", "term_release", "gone"}

\* exit from any thread reaches do_exit's ES_SIGPROCTERMINATE stage under
\* exit_lock, which is never released: one thread gets there.
Exit(t) ==
  /\ pc[t] \in {"user", "idle"}
  /\ \A u \in Threads : pc[u] \notin TermPcs
  /\ Goto(t, "term_hwait")
  /\ UNCHANGED <<sigVars, h, kind, ret, rc, sends, misuse>>

\* sigproc_terminate: hwait_sig = NULL; if (sig_loop_wait) { sig_loop_wait
\* = 0; ForceCloseHandle (sigcomplete_main); ReleaseSemaphore
\* (sigcomplete_nonmain) 20 times }, each store its own step.
Terminate(t) ==
  \/ /\ pc[t] = "term_hwait"
     /\ hwaitSig' = FALSE
     /\ Goto(t, "term_loop")
     /\ UNCHANGED <<sigLoopWait, compMain, compNonmain>>
  \/ /\ pc[t] = "term_loop"
     /\ sigLoopWait' = 0
     /\ Goto(t, IF sigLoopWait = 0 THEN "gone" ELSE "term_close")
     /\ UNCHANGED <<hwaitSig, compMain, compNonmain>>
  \/ /\ pc[t] = "term_close"
     /\ compMain' = [compMain EXCEPT !.open = FALSE]
     /\ Goto(t, "term_release")
     /\ UNCHANGED <<hwaitSig, sigLoopWait, compNonmain>>
  \/ /\ pc[t] = "term_release"
     /\ compNonmain' = compNonmain + NRelease
     /\ Goto(t, "gone")
     /\ UNCHANGED <<hwaitSig, sigLoopWait, compMain>>

TerminateStep(t) ==
  /\ Terminate(t)
  /\ UNCHANGED <<waitSigInited, ev, ws, catches, h, kind, ret, rc, sends, misuse>>

\* The steps of a thread inside dll_crt0_1, sig_send or sigproc_terminate.
ThreadStep(t) ==
  \/ t = Main /\ (SigprocInit \/ CrtWait)
  \/ TerminateStep(t) \/ Check(t) \/ WfsRead(t) \/ WfsWait(t) \/ WfsNull(t) \/ WfsClose(t)
  \/ Signal(t) \/ Wait(t)

Next ==
  \/ WaitSigStep
  \/ \E t \in Threads : Call(t) \/ ThreadStep(t) \/ Exit(t) \/ Timeout(t)

\* wait_sig and a thread inside a call run when they can; making a call,
\* exiting and the 60 s timeout are not forced.
Spec == Init /\ [][Next]_vars /\ WF_vars(WaitSigStep)
                              /\ \A t \in Threads : WF_vars(ThreadStep(t))

-----------------------------------------------------------------------------
TypeOK ==
  /\ waitSigInited \in {"ev", "null"} /\ ev \in [open : BOOLEAN, set : BOOLEAN]
  /\ hwaitSig \in BOOLEAN /\ sigLoopWait \in {INFINITE, 0}
  /\ ws \in {"none", "start", "ready", "loop", "blocked", "exited"}
  /\ catches \in [Kinds -> Nat] /\ compNonmain \in Nat
  /\ compMain \in [open : BOOLEAN, set : BOOLEAN]
  /\ h \in [Threads -> {"ev", "null"}] /\ kind \in [Threads -> Kinds \cup {"none"}]
  /\ sends \in [Threads -> 0..Budget]
  /\ rc \in [Threads -> {"none", "ok", "unavailable", "fail", "enosys", "timeout"}]

\* A sig_send to this process gets past wait_for_sigthread, or past a NULL
\* wait_sig_inited, only after wait_sig has made the handles it releases:
\* sigproc_init's deferred handshake never lets a sender notify early,
\* whichever thread waits on the event and whichever finds it gone.
ReadyBeforeNotify == \A t \in Threads : pc[t] = "signal" => HandlesMade

\* A thread blocked in wait_for_sigthread is never stranded: the event it
\* waits on is set, or wait_sig has still to set it.  The event is created
\* manual-reset, so the one SetEvent of wait_sig releases every waiter:
\* the sig_send of another thread, the main thread's call in dll_crt0_1,
\* or both together, even when one of them closes the handle while the
\* other waits.
HandshakeWaiterReleased ==
  \A t \in Threads : pc[t] = "wfs_blocked" => ev.set \/ ws \in {"start", "ready"}

\* No assert of the handshake fails and no thread waits on or closes
\* wait_sig_inited after it was NULLed or closed: wait_for_sigthread runs
\* once, whether a sig_send during dll_crt0_1 or in another thread gets
\* there before dll_crt0_1's own call.
HandshakeSound == misuse = {}
=============================================================================
