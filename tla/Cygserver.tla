------------------------------ MODULE Cygserver ------------------------------
(***************************************************************************)
(* The cygserver daemon and its clients: the request queue of             *)
(* ThreadedQueue, composed with the named-pipe transport of                *)
(* winsup/cygserver/transport_pipes.cc and the request/reply code of       *)
(* winsup/cygwin/cygserver_client.cc.  Each submission loop accepts a      *)
(* connection on a fresh pipe instance (counted in pipe_instance under     *)
(* pipe_instance_lock) and adds it to the queue; a worker reads the        *)
(* request, writes the reply, and closes the instance, which flushes until *)
(* the client has read the reply and decrements pipe_instance under the   *)
(* same lock.  A client process checks the daemon's version once, from     *)
(* cygserver_init, and then makes its request; connect retries with        *)
(* WaitNamedPipe while it believes the daemon is running.  Client         *)
(* processes may be killed at any point, which closes their end of the    *)
(* pipe.  Pipe instances are named by Insts, each used once; request and  *)
(* reply bodies are abstracted to "written" and "read".                    *)
(***************************************************************************)
EXTENDS Integers, FiniteSets

CONSTANTS
  Workers, Loops, Interruptible, None, \* as in ThreadedQueue
  MaxInsts,        \* the pipe instances the daemon may create
  Clients,         \* client processes, one thread each
  MaxRetry,        \* MAX_WAIT_NAMED_PIPE_RETRY
  ServerCompatible, \* check_version accepts the daemon's version
  MaxKills         \* client processes killed

VARIABLES
  running, wcount, sem, queue, lock, wpc, wreq, lpc, lreq, lrun, cpc,
  toStop, cur, pending, processed,  \* the queue, as in ThreadedQueue
  srv,          \* server end of each instance: none, open, closed
  peer,         \* the client connected to each instance, or None
  reqSent,      \* the client wrote its request on the instance
  reply,        \* the reply on the instance: none, written, read
  cliClosed,    \* the client end of the instance is closed
  pipeInstance, \* pipe_instance
  plock,        \* owner of pipe_instance_lock, or None
  apc,          \* each loop inside accept: idle, locked, connecting, connected
  ainst,        \* the instance a loop is accepting on
  hpc,          \* each worker processing a connection: handle, flush
  daemonGone,   \* the daemon process has exited
  cstate,       \* each client: init, connect, waitpipe, write, read,
                \* request, done, dead
  phase,        \* the request being made: version or real
  retries,      \* retries in transport_layer_pipes::connect
  cinst,        \* the instance the client is connected to, or None
  csrv,         \* the client's cygserver_running
  assume,       \* the client's assume_cygserver
  kills         \* client kills left

Insts == 1..MaxInsts

TQ == INSTANCE ThreadedQueue WITH Reqs <- Insts

tqVars == <<running, wcount, sem, queue, lock, wpc, wreq, lpc, lreq, lrun, cpc,
            toStop, cur, pending, processed>>
pipeVars == <<srv, peer, reqSent, reply, cliClosed, pipeInstance, plock>>
srvVars == <<apc, ainst, hpc, daemonGone>>
cliVars == <<cstate, phase, retries, cinst, csrv, assume, kills>>
vars == <<tqVars, pipeVars, srvVars, cliVars>>

Init ==
  /\ TQ!QueueInit /\ pending = {}
  /\ srv = [i \in Insts |-> "none"] /\ peer = [i \in Insts |-> None]
  /\ reqSent = [i \in Insts |-> FALSE] /\ reply = [i \in Insts |-> "none"]
  /\ cliClosed = [i \in Insts |-> FALSE]
  /\ pipeInstance = 0 /\ plock = None
  /\ apc = [l \in Loops |-> "idle"] /\ ainst = [l \in Loops |-> None]
  /\ hpc = [w \in Workers |-> "handle"] /\ daemonGone = FALSE
  /\ cstate = [c \in Clients |-> "init"] /\ phase = [c \in Clients |-> "version"]
  /\ retries = [c \in Clients |-> 0] /\ cinst = [c \in Clients |-> None]
  /\ csrv = [c \in Clients |-> "UNKNOWN"] /\ assume = [c \in Clients |-> FALSE]
  /\ kills = MaxKills

\* Instances a client's CreateFile can connect to.
Free == {i \in Insts : srv[i] = "open" /\ peer[i] = None}

\* The instance CreateNamedPipe makes next.
NextInst == CHOOSE i \in Insts : srv[i] = "none" /\ \A j \in 1..(i - 1) : srv[j] # "none"

-----------------------------------------------------------------------------
(* The daemon.                                                             *)

\* accept (transport_pipes.cc 117-125): a submission loop of the running
\* queue enters pipe_instance_lock to create an instance.
AcceptLock(l) ==
  /\ lpc[l] = "loop" /\ lrun[l] /\ apc[l] = "idle" /\ plock = None
  /\ \E i \in Insts : srv[i] = "none"
  /\ plock' = l /\ apc' = [apc EXCEPT ![l] = "locked"]
  /\ UNCHANGED <<tqVars, srv, peer, reqSent, reply, cliClosed, pipeInstance,
                 ainst, hpc, daemonGone, cliVars>>

\* Mutant of AcceptCreate: the new instance is not counted.
AcceptCreateUncounted(l) ==
  /\ lpc[l] = "loop" /\ apc[l] = "locked"
  /\ srv' = [srv EXCEPT ![NextInst] = "open"]
  /\ apc' = [apc EXCEPT ![l] = "connecting"] /\ ainst' = [ainst EXCEPT ![l] = NextInst]
  /\ plock' = None
  /\ UNCHANGED <<tqVars, peer, reqSent, reply, cliClosed, pipeInstance, hpc,
                 daemonGone, cliVars>>

\* accept (126-164): CreateNamedPipe makes the next instance and
\* pipe_instance counts it, under the lock.  (A failed CreateNamedPipe
\* only sends the loop round again and is left out.)
AcceptCreate(l) ==
  /\ lpc[l] = "loop" /\ apc[l] = "locked"
  /\ srv' = [srv EXCEPT ![NextInst] = "open"] /\ pipeInstance' = pipeInstance + 1
  /\ apc' = [apc EXCEPT ![l] = "connecting"] /\ ainst' = [ainst EXCEPT ![l] = NextInst]
  /\ plock' = None
  /\ UNCHANGED <<tqVars, peer, reqSent, reply, cliClosed, hpc, daemonGone, cliVars>>

\* accept (166-178): ConnectNamedPipe returns once a client has connected.
\* When that client has already closed its end, the call fails if it was
\* made after the close (ERROR_NO_DATA): the instance is closed and
\* accept returns NULL, without decrementing pipe_instance.
AcceptConnect(l) ==
  /\ lpc[l] = "loop" /\ apc[l] = "connecting"
  /\ LET i == ainst[l] IN
     /\ peer[i] # None
     /\ \/ /\ apc' = [apc EXCEPT ![l] = "connected"] /\ UNCHANGED srv
        \/ /\ cliClosed[i]
           /\ srv' = [srv EXCEPT ![i] = "closed"]
           /\ apc' = [apc EXCEPT ![l] = "idle"]
  /\ UNCHANGED <<tqVars, peer, reqSent, reply, cliClosed, pipeInstance, plock,
                 ainst, hpc, daemonGone, cliVars>>

\* request_loop hands the accepted connection to threaded_queue::add.
Submit(l) ==
  /\ apc[l] = "connected"
  /\ TQ!AddLockReq(l, ainst[l])
  /\ apc' = [apc EXCEPT ![l] = "idle"]
  /\ UNCHANGED <<pipeVars, ainst, hpc, daemonGone, cliVars>>

\* A worker takes a token of the request semaphore.
WorkerWake(w) == TQ!WorkerWake(w) /\ UNCHANGED <<pipeVars, srvVars, cliVars>>

\* A worker unlinks a connection; it will handle it from the start.
WorkerRun(w) ==
  /\ TQ!WorkerRun(w)
  /\ hpc' = [hpc EXCEPT ![w] = "handle"]
  /\ UNCHANGED <<pipeVars, apc, ainst, daemonGone, cliVars>>

\* handle_request (cygserver_client.cc 255-310) reads the header of the
\* request on instance i; it fails, and no reply is sent, when the client
\* closed its end without writing one.  A ReadFile blocks until one of
\* the two has happened.
ReadDone(i) == reqSent[i] \/ cliClosed[i]
RequestRead(i) == reqSent[i] /\ ~cliClosed[i]

\* handle (391-474): the body is read, the request served, and the reply
\* written, which fails when the client is gone.
WorkerHandle(w) ==
  /\ wpc[w] = "process" /\ hpc[w] = "handle"
  /\ LET i == wreq[w] IN
     /\ ReadDone(i)
     /\ reply' = [reply EXCEPT ![i] = IF RequestRead(i) THEN "written" ELSE @]
  /\ hpc' = [hpc EXCEPT ![w] = "flush"]
  /\ UNCHANGED <<tqVars, srv, peer, reqSent, cliClosed, pipeInstance, plock,
                 apc, ainst, daemonGone, cliVars>>

\* The connection is deleted after process (): close (transport_pipes.cc
\* 184-216) flushes, which blocks until the client has read the reply or
\* closed its end, disconnects, and closes the instance and decrements
\* pipe_instance under pipe_instance_lock.  The worker then goes back to
\* the semaphore (threaded_queue.cc 268-270).
WorkerClose(w) ==
  /\ wpc[w] = "process" /\ hpc[w] = "flush" /\ plock = None
  /\ LET i == wreq[w] IN
     /\ reply[i] # "written" \/ cliClosed[i]
     /\ srv' = [srv EXCEPT ![i] = "closed"]
  /\ pipeInstance' = pipeInstance - 1
  /\ TQ!WorkerProcess(w)
  /\ UNCHANGED <<peer, reqSent, reply, cliClosed, plock, srvVars, cliVars>>

\* After stop () returns the daemon exits, closing every handle it holds.
DaemonExit ==
  /\ cpc = "stopped" /\ ~daemonGone
  /\ daemonGone' = TRUE
  /\ srv' = [i \in Insts |-> IF srv[i] = "open" THEN "closed" ELSE srv[i]]
  /\ UNCHANGED <<tqVars, peer, reqSent, reply, cliClosed, pipeInstance, plock,
                 apc, ainst, hpc, cliVars>>

\* The queue's other steps leave the transport alone.  A loop thread
\* notices its stop event only between two accepts.
QueueStep ==
  /\ \/ TQ!Start \/ TQ!StopBegin \/ TQ!StopRelease \/ TQ!StopWait
     \/ \E l \in Loops :
          \/ TQ!StopLoop(l) \/ TQ!StopLoopTimeout(l)
          \/ TQ!LoopExit(l) /\ apc[l] = "idle"
          \/ TQ!AddInsert(l) \/ TQ!AddRelease(l)
  /\ UNCHANGED <<pipeVars, srvVars, cliVars>>

-----------------------------------------------------------------------------
(* The client processes.                                                   *)

\* make_request returns to its caller, and the transport is deleted,
\* closing the client end.  For the version request of
\* check_cygserver_available, a failed request or a rejected version
\* makes cygserver_init set cygserver_running to CYGSERVER_UNAVAIL.
Return(c, ok) ==
  /\ cstate' = [cstate EXCEPT ![c] = IF phase[c] = "version" THEN "request" ELSE "done"]
  /\ csrv' = IF phase[c] = "version" /\ ~(ok /\ ServerCompatible)
             THEN [csrv EXCEPT ![c] = "UNAVAIL"] ELSE csrv
  /\ cliClosed' = IF cinst[c] = None THEN cliClosed
                  ELSE [cliClosed EXCEPT ![cinst[c]] = TRUE]
  /\ cinst' = [cinst EXCEPT ![c] = None]

\* The tty code calls cygserver_init (tty.cc 410-413; cygserver_client.cc
\* 478-527): with cygserver_running unknown, check_cygserver_available
\* sets it to CYGSERVER_OK and makes the version request, whose
\* make_request goes straight to connect.
CygserverInit(c) ==
  /\ cstate[c] = "init" /\ csrv[c] = "UNKNOWN"
  /\ csrv' = [csrv EXCEPT ![c] = "OK"]
  /\ cstate' = [cstate EXCEPT ![c] = "connect"] /\ phase' = [phase EXCEPT ![c] = "version"]
  /\ retries' = [retries EXCEPT ![c] = 0]
  /\ UNCHANGED <<tqVars, pipeVars, srvVars, cinst, assume, kills>>

\* A later request (make_request, 327-369): ENOSYS at once when the
\* daemon is known to be unavailable, else a fresh transport connects.
MakeRequest(c) ==
  /\ cstate[c] = "request"
  /\ IF csrv[c] = "UNAVAIL"
     THEN cstate' = [cstate EXCEPT ![c] = "done"] /\ UNCHANGED <<phase, retries>>
     ELSE /\ cstate' = [cstate EXCEPT ![c] = "connect"]
          /\ phase' = [phase EXCEPT ![c] = "real"] /\ retries' = [retries EXCEPT ![c] = 0]
  /\ UNCHANGED <<tqVars, pipeVars, srvVars, cinst, csrv, assume, kills>>

\* connect (transport_pipes.cc 268-304): CreateFile takes a free instance
\* and sets assume_cygserver.  Otherwise the error is ERROR_PIPE_BUSY when
\* instances exist and ERROR_FILE_NOT_FOUND when none do; connect gives up
\* at once on the latter unless assume_cygserver is set.
Connect(c) ==
  /\ cstate[c] = "connect"
  /\ IF Free # {}
     THEN \E i \in Free :
            /\ peer' = [peer EXCEPT ![i] = c] /\ cinst' = [cinst EXCEPT ![c] = i]
            /\ assume' = [assume EXCEPT ![c] = TRUE]
            /\ cstate' = [cstate EXCEPT ![c] = "write"]
            /\ UNCHANGED <<csrv, cliClosed>>
     ELSE IF ~assume[c] /\ \A i \in Insts : srv[i] # "open"
          THEN Return(c, FALSE) /\ UNCHANGED <<peer, assume>>
          ELSE /\ cstate' = [cstate EXCEPT ![c] = "waitpipe"]
               /\ UNCHANGED <<peer, cinst, assume, csrv, cliClosed>>
  /\ UNCHANGED <<tqVars, srv, reqSent, reply, pipeInstance, plock, srvVars,
                 phase, retries, kills>>

\* Mutant of WaitPipe: a failed WaitNamedPipe is not counted.
WaitPipeNoCount(c) ==
  /\ cstate[c] = "waitpipe"
  /\ IF Free # {}
     THEN cstate' = [cstate EXCEPT ![c] = "connect"] /\ UNCHANGED <<retries, assume, csrv, cliClosed, cinst>>
     ELSE IF retries[c] + 1 = MaxRetry
          THEN /\ Return(c, FALSE) /\ assume' = [assume EXCEPT ![c] = FALSE]
               /\ retries' = [retries EXCEPT ![c] = retries[c] + 1]
          ELSE UNCHANGED <<cstate, retries, assume, csrv, cliClosed, cinst>>
  /\ UNCHANGED <<tqVars, srv, peer, reqSent, reply, pipeInstance, plock, srvVars,
                 phase, kills>>

\* connect (306-329): WaitNamedPipe succeeds when an instance is free, and
\* CreateFile is tried again; otherwise it counts a retry.  After
\* MAX_WAIT_NAMED_PIPE_RETRY failures connect clears assume_cygserver
\* and fails.
WaitPipe(c) ==
  /\ cstate[c] = "waitpipe"
  /\ IF Free # {}
     THEN cstate' = [cstate EXCEPT ![c] = "connect"] /\ UNCHANGED <<retries, assume, csrv, cliClosed, cinst>>
     ELSE IF retries[c] + 1 = MaxRetry
          THEN /\ Return(c, FALSE) /\ assume' = [assume EXCEPT ![c] = FALSE]
               /\ retries' = [retries EXCEPT ![c] = retries[c] + 1]
          ELSE /\ retries' = [retries EXCEPT ![c] = retries[c] + 1]
               /\ UNCHANGED <<cstate, assume, csrv, cliClosed, cinst>>
  /\ UNCHANGED <<tqVars, srv, peer, reqSent, reply, pipeInstance, plock, srvVars,
                 phase, kills>>

\* send (cygserver_client.cc 140-178): the request header and body are
\* written; a write to an instance the daemon has closed fails.
Write(c) ==
  /\ cstate[c] = "write"
  /\ LET i == cinst[c] IN
     IF srv[i] = "open"
     THEN /\ reqSent' = [reqSent EXCEPT ![i] = TRUE]
          /\ cstate' = [cstate EXCEPT ![c] = "read"]
          /\ UNCHANGED <<csrv, cliClosed, cinst>>
     ELSE Return(c, FALSE) /\ UNCHANGED reqSent
  /\ UNCHANGED <<tqVars, srv, peer, reply, pipeInstance, plock, srvVars, phase,
                 retries, assume, kills>>

\* send (180-233): the reply is read, which blocks until the daemon has
\* written it or closed the instance; then make_request returns.
Read(c) ==
  /\ cstate[c] = "read"
  /\ LET i == cinst[c] IN
     \/ /\ reply[i] = "written"
        /\ reply' = [reply EXCEPT ![i] = "read"]
        /\ Return(c, TRUE)
     \/ /\ reply[i] = "none" /\ srv[i] = "closed"
        /\ Return(c, FALSE) /\ UNCHANGED reply
  /\ UNCHANGED <<tqVars, srv, peer, reqSent, pipeInstance, plock, srvVars, phase,
                 retries, assume, kills>>

\* A client process is killed; its end of the pipe is closed.
ClientKilled(c) ==
  /\ kills > 0 /\ cstate[c] \notin {"done", "dead"}
  /\ kills' = kills - 1
  /\ cstate' = [cstate EXCEPT ![c] = "dead"]
  /\ cliClosed' = IF cinst[c] = None THEN cliClosed
                  ELSE [cliClosed EXCEPT ![cinst[c]] = TRUE]
  /\ UNCHANGED <<tqVars, srv, peer, reqSent, reply, pipeInstance, plock, srvVars,
                 phase, retries, cinst, csrv, assume>>

ClientStep(c) == Connect(c) \/ WaitPipe(c) \/ Write(c) \/ Read(c)

ServerStep(l) == AcceptLock(l) \/ AcceptCreate(l) \/ AcceptConnect(l) \/ Submit(l)

WorkerStep(w) == WorkerWake(w) \/ WorkerRun(w) \/ WorkerHandle(w) \/ WorkerClose(w)

Next ==
  \/ QueueStep \/ DaemonExit
  \/ \E l \in Loops : ServerStep(l)
  \/ \E w \in Workers : WorkerStep(w)
  \/ \E c \in Clients :
       CygserverInit(c) \/ MakeRequest(c) \/ ClientStep(c) \/ ClientKilled(c)

\* Threads run when they can: each worker; each submission loop in its
\* accept loop and inside add; the daemon's main thread once inside
\* stop () and until it exits; a client inside make_request.  Starting and
\* stopping the daemon, a client's calls into cygserver and its death are
\* not forced.
LoopThread(l) ==
  \/ ServerStep(l)
  \/ QueueStep /\ (TQ!AddInsert(l) \/ TQ!AddRelease(l) \/ TQ!LoopExit(l))

DaemonThread ==
  \/ QueueStep /\ (\/ TQ!StopRelease \/ TQ!StopWait
                   \/ \E l \in Loops : TQ!StopLoop(l) \/ TQ!StopLoopTimeout(l))
  \/ DaemonExit

Fairness ==
  /\ \A w \in Workers : WF_vars(WorkerStep(w))
  /\ \A l \in Loops : WF_vars(LoopThread(l))
  /\ WF_vars(DaemonThread)
  /\ \A c \in Clients : WF_vars(ClientStep(c))

Spec == Init /\ [][Next]_vars /\ Fairness

-----------------------------------------------------------------------------
(* Properties.                                                             *)

TypeOK ==
  /\ TQ!TypeOK
  /\ srv \in [Insts -> {"none", "open", "closed"}] /\ peer \in [Insts -> Clients \cup {None}]
  /\ reqSent \in [Insts -> BOOLEAN] /\ reply \in [Insts -> {"none", "written", "read"}]
  /\ cliClosed \in [Insts -> BOOLEAN] /\ pipeInstance \in 0..MaxInsts
  /\ plock \in Loops \cup {None}
  /\ apc \in [Loops -> {"idle", "locked", "connecting", "connected"}]
  /\ ainst \in [Loops -> Insts \cup {None}] /\ hpc \in [Workers -> {"handle", "flush"}]
  /\ cstate \in [Clients -> {"init", "connect", "waitpipe", "write", "read", "request",
                             "done", "dead"}]
  /\ phase \in [Clients -> {"version", "real"}] /\ retries \in [Clients -> 0..MaxRetry]
  /\ cinst \in [Clients -> Insts \cup {None}]
  /\ csrv \in [Clients -> {"UNKNOWN", "OK", "UNAVAIL"}] /\ assume \in [Clients -> BOOLEAN]
  /\ kills \in 0..MaxKills

\* The queue's own properties hold in the composed daemon.
NoEmptyDequeue == TQ!NoEmptyDequeue
RequestsServed == TQ!RequestsServed

\* A submission thread killed by stop () still owns the queue lock or
\* pipe_instance_lock.
Orphaned ==
  \/ lock # None /\ lpc[lock] = "killed"
  \/ plock # None /\ lpc[plock] = "killed"

\* stop () returns once it has released the workers' tokens, unless a
\* killed submission thread owns a lock a worker needs: the queue lock,
\* or pipe_instance_lock, which close () takes for every connection.
StopReturnsUnlessOrphaned ==
  cpc = "waiting" ~> (cpc = "stopped" \/ Orphaned)

\* The assert (pipe_instance > 0) in close () holds: every open instance
\* the daemon created is counted in pipe_instance, whatever order the
\* submission loops create and the workers close instances in.
InstancesCounted ==
  pipeInstance >= Cardinality({i \in Insts : srv[i] = "open"})

\* Every cygserver request a client makes returns, whether the daemon is
\* absent, busy, answering, stopping or gone, unless stop () hangs on an
\* orphaned lock and the daemon never exits.
RequestsReturn ==
  \A c \in Clients :
    cstate[c] \in {"connect", "waitpipe", "write", "read"}
      ~> (cstate[c] \in {"request", "done", "dead"} \/ Orphaned)
=============================================================================
