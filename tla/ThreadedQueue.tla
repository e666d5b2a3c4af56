---------------------------- MODULE ThreadedQueue ----------------------------
(***************************************************************************)
(* The request queue of the cygserver daemon,                              *)
(* winsup/cygserver/threaded_queue.cc.  Submission-loop threads accept     *)
(* client requests and add() them to a linked list guarded by _queue_lock,  *)
(* then release one token of _requests_sem.  Worker threads take a token,  *)
(* lock the queue, leave when the queue is no longer _running, and else    *)
(* unlink the head request and process it.  stop() clears _running, stops *)
(* every submission loop (by TerminateThread, after a one-second grace     *)
(* period for interruptible loops), releases one token per worker and      *)
(* sleeps until the worker count is zero.  The daemon that calls start()   *)
(* and stop() is one thread, which starts the queue once and stops it      *)
(* once.  request_loop, which accepts the client requests, is abstracted   *)
(* to "take one of the requests not yet submitted".                        *)
(***************************************************************************)
EXTENDS Integers, Sequences, SequencesExt, FiniteSets

CONSTANTS
  Workers,       \* the worker threads made by create_workers
  Loops,         \* the submission loops registered with add_submission_loop
  Interruptible, \* the loops built with ninterruptible = true
  Reqs,          \* the client requests the loops will submit
  None           \* no thread: the lock is free, no loop is being stopped

ASSUME Interruptible \subseteq Loops /\ None \notin Workers \cup Loops

VARIABLES
  running,    \* threaded_queue::_running
  wcount,     \* _workers_count
  sem,        \* the count of _requests_sem
  queue,      \* the list from _requests_head, in order
  lock,       \* the owner of _queue_lock, or None
  wpc,        \* each worker: waiting on the semaphore, at the lock,
              \* processing, exited, or aborted by a failed assert
  wreq,       \* the request a worker is processing
  lpc,        \* each loop thread: not started, in request_loop, holding
              \* the lock in add, between the unlock and the release of
              \* the token, returned, or killed by TerminateThread
  lreq,       \* the request a loop thread is adding
  lrun,       \* queue_submission_loop::_running
  cpc,        \* the daemon thread: before start, running, in stop
  toStop,     \* the loops stop() has not stopped yet
  cur,        \* the interruptible loop stop() is waiting for, or None
  pending,    \* requests not yet accepted by any loop
  processed   \* history: requests a worker has processed

vars == <<running, wcount, sem, queue, lock, wpc, wreq, lpc, lreq, lrun, cpc,
          toStop, cur, pending, processed>>

\* Mutant of QueueInit: create_workers does not count the workers it starts.
QueueInitUncounted ==
  /\ running = FALSE /\ wcount = 0 /\ sem = 0
  /\ queue = <<>> /\ lock = None
  /\ wpc = [w \in Workers |-> "wait"] /\ wreq = [w \in Workers |-> None]
  /\ lpc = [l \in Loops |-> "none"] /\ lreq = [l \in Loops |-> None]
  /\ lrun = [l \in Loops |-> FALSE]
  /\ cpc = "idle" /\ toStop = {} /\ cur = None
  /\ processed = {}

\* The constructor and create_workers (threaded_queue.cc 34-62, 214-237):
\* every worker counted and blocked on an empty semaphore, not running.
QueueInit ==
  /\ running = FALSE /\ wcount = Cardinality(Workers) /\ sem = 0
  /\ queue = <<>> /\ lock = None
  /\ wpc = [w \in Workers |-> "wait"] /\ wreq = [w \in Workers |-> None]
  /\ lpc = [l \in Loops |-> "none"] /\ lreq = [l \in Loops |-> None]
  /\ lrun = [l \in Loops |-> FALSE]
  /\ cpc = "idle" /\ toStop = {} /\ cur = None
  /\ processed = {}

\* With request_loop abstracted, every request is there to be accepted.
Init == QueueInit /\ pending = Reqs

LoopVars == <<lpc, lreq, lrun>>
StopVars == <<cpc, toStop, cur>>

\* threaded_queue::start (100-122) with queue_submission_loop::start
\* (316-337) for every loop: _running is set under the lock, then each
\* loop gets its thread.
Start ==
  /\ cpc = "idle" /\ lock = None
  /\ running' = TRUE
  /\ lpc' = [l \in Loops |-> "loop"] /\ lrun' = [l \in Loops |-> TRUE]
  /\ cpc' = "running"
  /\ UNCHANGED <<wcount, sem, queue, lock, wpc, wreq, lreq, toStop, cur, pending,
                 processed>>

\* threaded_queue::stop (124-131): _running cleared under the lock.
StopBegin ==
  /\ cpc = "running" /\ lock = None
  /\ running' = FALSE
  /\ cpc' = "loops" /\ toStop' = Loops
  /\ UNCHANGED <<wcount, sem, queue, lock, wpc, wreq, LoopVars, cur, pending,
                 processed>>

\* queue_submission_loop::stop (339-391) for loop l: an interruptible loop
\* has its event set and is waited for; any other loop thread is killed
\* wherever it is.
StopLoop(l) ==
  /\ cpc = "loops" /\ cur = None /\ l \in toStop
  /\ lrun' = [lrun EXCEPT ![l] = FALSE]
  /\ IF l \in Interruptible
     THEN cur' = l /\ UNCHANGED <<lpc, toStop>>
     ELSE /\ lpc' = [lpc EXCEPT ![l] = "killed"]
          /\ toStop' = toStop \ {l} /\ UNCHANGED cur
  /\ UNCHANGED <<running, wcount, sem, queue, lock, wpc, wreq, lreq, cpc, pending,
                 processed>>

\* The interruptible loop notices its event in request_loop and returns;
\* start_routine's own stop () (393-404) finds _running clear.
LoopExit(l) ==
  /\ cur = l /\ lpc[l] = "loop"
  /\ lpc' = [lpc EXCEPT ![l] = "exited"]
  /\ cur' = None /\ toStop' = toStop \ {l}
  /\ UNCHANGED <<running, wcount, sem, queue, lock, wpc, wreq, lreq, lrun, cpc,
                 pending, processed>>

\* WaitForSingleObject (_hThread, 1000) times out: TerminateThread, which
\* does not release a critical section the thread owns.
StopLoopTimeout(l) ==
  /\ cur = l
  /\ lpc' = [lpc EXCEPT ![l] = "killed"]
  /\ cur' = None /\ toStop' = toStop \ {l}
  /\ UNCHANGED <<running, wcount, sem, queue, lock, wpc, wreq, lreq, lrun, cpc,
                 pending, processed>>

\* Mutant of StopRelease: a single token for all workers.
StopReleaseOne ==
  /\ cpc = "loops" /\ toStop = {}
  /\ sem' = sem + 1
  /\ cpc' = "waiting"
  /\ UNCHANGED <<running, wcount, queue, lock, wpc, wreq, LoopVars, toStop, cur,
                 pending, processed>>

\* stop (143): ReleaseSemaphore (_requests_sem, _workers_count).
StopRelease ==
  /\ cpc = "loops" /\ toStop = {}
  /\ sem' = sem + wcount
  /\ cpc' = "waiting"
  /\ UNCHANGED <<running, wcount, queue, lock, wpc, wreq, LoopVars, toStop, cur,
                 pending, processed>>

\* stop (144-151): Sleep until _workers_count is zero.
StopWait ==
  /\ cpc = "waiting" /\ wcount = 0
  /\ cpc' = "stopped"
  /\ UNCHANGED <<running, wcount, sem, queue, lock, wpc, wreq, LoopVars, toStop,
                 cur, pending, processed>>

\* add (158-172) of request r by loop l: the queue lock is taken.
AddLockReq(l, r) ==
  /\ lpc[l] = "loop" /\ lock = None
  /\ pending' = pending \ {r}
  /\ lreq' = [lreq EXCEPT ![l] = r]
  /\ lock' = l /\ lpc' = [lpc EXCEPT ![l] = "locked"]
  /\ UNCHANGED <<running, wcount, sem, queue, wpc, wreq, lrun, StopVars, processed>>

\* request_loop accepts one of the client requests and calls add.
AddLock(l) == \E r \in pending : AddLockReq(l, r)

\* add (172-187): the request is linked at the end and the lock released.
AddInsert(l) ==
  /\ lpc[l] = "locked"
  /\ queue' = Append(queue, lreq[l])
  /\ lock' = None /\ lpc' = [lpc EXCEPT ![l] = "release"]
  /\ UNCHANGED <<running, wcount, sem, wpc, wreq, lreq, lrun, StopVars, pending,
                 processed>>

\* Mutant of AddRelease: the token for the new request is never released.
AddNoRelease(l) ==
  /\ lpc[l] = "release"
  /\ lpc' = [lpc EXCEPT ![l] = "loop"] /\ lreq' = [lreq EXCEPT ![l] = None]
  /\ UNCHANGED <<running, wcount, sem, queue, lock, wpc, wreq, lrun, StopVars,
                 pending, processed>>

\* add (189): one token of _requests_sem for the new request.
AddRelease(l) ==
  /\ lpc[l] = "release"
  /\ sem' = sem + 1
  /\ lpc' = [lpc EXCEPT ![l] = "loop"] /\ lreq' = [lreq EXCEPT ![l] = None]
  /\ UNCHANGED <<running, wcount, queue, lock, wpc, wreq, lrun, StopVars, pending,
                 processed>>

\* worker_loop (243-251): WaitForSingleObject on _requests_sem.
WorkerWake(w) ==
  /\ wpc[w] = "wait" /\ sem > 0
  /\ sem' = sem - 1 /\ wpc' = [wpc EXCEPT ![w] = "lock"]
  /\ UNCHANGED <<running, wcount, queue, lock, wreq, LoopVars, StopVars, pending,
                 processed>>

\* Mutant of WorkerRun: the _running test under the lock is left out.
WorkerRunNoCheck(w) ==
  /\ wpc[w] = "lock" /\ lock = None
  /\ IF queue = <<>>
     THEN wpc' = [wpc EXCEPT ![w] = "aborted"] /\ UNCHANGED <<queue, wreq>>
     ELSE /\ wreq' = [wreq EXCEPT ![w] = Head(queue)] /\ queue' = Tail(queue)
          /\ wpc' = [wpc EXCEPT ![w] = "process"]
  /\ UNCHANGED <<running, wcount, sem, lock, LoopVars, StopVars, pending, processed>>

\* worker_loop (253-266) under the queue lock: a worker of a stopped
\* queue returns and start_routine (192-207) decrements _workers_count;
\* otherwise assert (_requests_head), which aborts the daemon when it
\* fails, and the head request is unlinked.
WorkerRun(w) ==
  /\ wpc[w] = "lock" /\ lock = None
  /\ CASE ~running ->
            /\ wpc' = [wpc EXCEPT ![w] = "exited"] /\ wcount' = wcount - 1
            /\ UNCHANGED <<queue, wreq>>
       [] queue = <<>> ->
            /\ wpc' = [wpc EXCEPT ![w] = "aborted"]
            /\ UNCHANGED <<queue, wreq, wcount>>
       [] OTHER ->
            /\ wreq' = [wreq EXCEPT ![w] = Head(queue)] /\ queue' = Tail(queue)
            /\ wpc' = [wpc EXCEPT ![w] = "process"] /\ UNCHANGED wcount
  /\ UNCHANGED <<running, sem, lock, LoopVars, StopVars, pending, processed>>

\* worker_loop (268-270): process () and delete the request.
WorkerProcess(w) ==
  /\ wpc[w] = "process"
  /\ processed' = processed \cup {wreq[w]}
  /\ wpc' = [wpc EXCEPT ![w] = "wait"] /\ wreq' = [wreq EXCEPT ![w] = None]
  /\ UNCHANGED <<running, wcount, sem, queue, lock, LoopVars, StopVars, pending>>

LoopStep(l) == AddLock(l) \/ AddInsert(l) \/ AddRelease(l)
WorkerStep(w) == WorkerWake(w) \/ WorkerRun(w) \/ WorkerProcess(w)

Next ==
  \/ Start \/ StopBegin \/ StopRelease \/ StopWait
  \/ \E l \in Loops : StopLoop(l) \/ LoopExit(l) \/ StopLoopTimeout(l) \/ LoopStep(l)
  \/ \E w \in Workers : WorkerStep(w)

\* Threads run when they can: the workers, a loop inside add, the loop
\* thread noticing its event, and the daemon thread once it is in stop().
\* Accepting a request and calling start or stop are not forced.
Fairness ==
  /\ \A w \in Workers : WF_vars(WorkerStep(w))
  /\ \A l \in Loops : WF_vars(AddInsert(l) \/ AddRelease(l)) /\ WF_vars(LoopExit(l))
  /\ WF_vars(StopRelease \/ StopWait)
  /\ \A l \in Loops : WF_vars(StopLoop(l)) /\ WF_vars(StopLoopTimeout(l))

Spec == Init /\ [][Next]_vars /\ Fairness

-----------------------------------------------------------------------------
(* Properties.                                                             *)

TypeOK ==
  /\ running \in BOOLEAN /\ wcount \in 0..Cardinality(Workers) /\ sem \in Nat
  /\ queue \in Seq(Reqs) /\ lock \in Loops \cup {None}
  /\ wpc \in [Workers -> {"wait", "lock", "process", "exited", "aborted"}]
  /\ wreq \in [Workers -> Reqs \cup {None}]
  /\ lpc \in [Loops -> {"none", "loop", "locked", "release", "exited", "killed"}]
  /\ lreq \in [Loops -> Reqs \cup {None}] /\ lrun \in [Loops -> BOOLEAN]
  /\ cpc \in {"idle", "running", "loops", "waiting", "stopped"}
  /\ toStop \subseteq Loops /\ cur \in Loops \cup {None}
  /\ pending \subseteq Reqs /\ processed \subseteq Reqs

\* No worker ever finds the queue empty after taking a token
\* (assert (_requests_head) in worker_loop): tokens are released only
\* after the request is linked, and the tokens stop() adds are only taken
\* by workers that see _running clear.
NoEmptyDequeue ==
  \A w \in Workers : wpc[w] # "aborted"

\* A request on the queue of a running server is eventually processed:
\* every request linked by add gets its token and a worker takes it.
RequestsServed ==
  \A r \in Reqs :
    (running /\ r \in ToSet(queue)) ~> (r \in processed \/ ~running)

\* stop () returns once it has released the workers' tokens, unless a
\* submission thread it killed still owns the queue lock.
StopReturnsUnlessLockOrphaned ==
  cpc = "waiting" ~> (cpc = "stopped" \/ (lock # None /\ lpc[lock] = "killed"))

\* stop () returns: the daemon's shutdown does not hang.
StopReturns ==
  cpc = "loops" ~> cpc = "stopped"
=============================================================================
