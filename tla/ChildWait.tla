----------------------------- MODULE ChildWait -----------------------------
(***************************************************************************)
(* The child registry, the reaper and the wait queue of one process:      *)
(* proc_subproc, checkstate, stopped_or_terminated, remove_zombie and the *)
(* wait_subproc thread of winsup/cygwin/sigproc.cc.                        *)
(*                                                                         *)
(* children is pchildren[] (with its tracked process handle per child in  *)
(* tracked, standing for hchildren[]), zombies is zombies[], waitq is the *)
(* list hanging off waitq_head.  Every proc_subproc call holds            *)
(* sync_proc_subproc, so each is one step.  The reaper's                   *)
(* sig_send (myself_nowait, SIGCHLD) and wait_sig's PROC_CLEARWAIT scan    *)
(* for each SIGCHLD occurrence it takes are separate steps, joined by     *)
(* sigchld, the occurrences of SIGCHLD not yet taken by wait_sig.          *)
(*                                                                         *)
(* The wait4 caller (wait.cc) and the child side of exec and stop are not *)
(* part of this source tree; they are modelled from the spec.             *)
(***************************************************************************)
EXTENDS Integers, Sequences, SequencesExt, FiniteSets

CONSTANTS
  Kids,          \* pids of the children this process may spawn
  MyPgid,        \* myself->pgid
  Waiters,       \* threads calling wait4
  Patterns,      \* pid arguments wait4 may be called with
  PSIZE,         \* pinfo.h: pchildren[] holds PSIZE - 1 children
  NZOMBIES,      \* sigproc.cc: zombies kept before a child is reaped at once
  SigchldIgn,    \* SIGCHLD is SIG_IGN: every zombie is reaped at once
  MaxWaits,      \* bound: wait4 calls per waiter
  MaxInterrupts, \* bound: PROC_CLEARWAIT (1) calls (signal to the main
                 \* thread, or proc_terminate's)
  MaxClears,     \* bound: sig_clear (SIGCHLD) calls (sigaction SIG_DFL/SIG_IGN)
  MaxExec,       \* bound: execs, all children together
  MaxStops,      \* bound: stops, all children together
  MaxTerminate   \* bound: proc_terminate calls that find it running (0 or 1)

ASSUME /\ Kids \subseteq 2..99 /\ MyPgid \in Int
       /\ Patterns \subseteq Int
       /\ PSIZE \in Nat \ {0} /\ NZOMBIES \in Nat \ {0} /\ SigchldIgn \in BOOLEAN
       /\ {MaxWaits, MaxInterrupts, MaxClears, MaxExec, MaxStops, MaxTerminate} \subseteq Nat

VARIABLES
  spawned,     \* children whose spawn reached PROC_ADDCHILD, and its result
  children,    \* pchildren[0..nchildren-1]
  tracked,     \* hchildren[]: generation of the process handle waited on
  hproc,       \* child->hProcess: generation of the child's current process
  gone,        \* generations of each child's processes that have exited
  stopsig,     \* child->stopsig != 0
  pgid,        \* child->pgid
  zombies,     \* zombies[0..nzombies-1]
  waitq,       \* waitq_head.next, ...
  node,        \* each waiter's waitq: pattern, options, result, event
  wpc,         \* each waiter thread: idle, or blocked in wait4
  rpc,         \* the wait_subproc thread: waiting, or about to send SIGCHLD
  sigchld,     \* SIGCHLD occurrences sent to this process, not yet taken
  budget,      \* calls left for the bounded environment actions
  reported,    \* history: times each child's termination was returned by wait4
  syncProcSubproc \* sync_proc_subproc, hwait_subproc and proc_loop_wait non-zero

vars == <<spawned, children, tracked, hproc, gone, stopsig, pgid, zombies, waitq,
          node, wpc, rpc, sigchld, budget, reported, syncProcSubproc>>

-----------------------------------------------------------------------------
\* stopped_or_terminated: does child c match the pid argument of wait4
\* (sigproc.cc 979-986)?
Matches(pat, c) ==
  CASE pat = -1 -> TRUE
    [] pat = 0  -> pgid[c] = MyPgid
    [] pat < 0  -> pgid[c] = -pat
    [] OTHER    -> pat = c

\* mychild (sigproc.cc 241-251)
MyChild(pid) == pid \in ToSet(children) \cup ToSet(zombies)

\* Mutant of SwapRemove: the last entry is dropped instead of moved into
\* the freed slot.
SwapRemoveNoMove(s, i) == Front(s)

\* remove_zombie / the child removal of PROC_CHILDTERMINATED: swap the last
\* entry into slot i and shrink the table.
SwapRemove(s, i) ==
  IF i < Len(s) THEN Front([s EXCEPT ![i] = s[Len(s)]]) ELSE Front(s)

\* Mutant of CheckState: a matched zombie is reported but not removed.
CheckStateKeepZombie(st, w) ==
  LET n == st.node[w]
      ZMatch(c) == Matches(n.pid, c)
  IN
  IF \E i \in 1..Len(st.z) : ZMatch(st.z[i])
  THEN LET c == st.z[SelectInSeq(st.z, ZMatch)]
       IN [pm |-> 1,
           st |-> [st EXCEPT !.node[w] = [@ EXCEPT !.pid = c, !.status = "exit",
                                                   !.woken = TRUE],
                             !.reported[c] = @ + 1]]
  ELSE [pm |-> IF \E i \in 1..Len(children) : Matches(n.pid, children[i]) THEN -1 ELSE 0,
        st |-> st]

\* checkstate (sigproc.cc 835-874) for the node of waiter w, on the scan
\* state st: zombies first, then stopped live children for WUNTRACED.
\* Returns the potential_match value and the new scan state.
CheckState(st, w) ==
  LET n == st.node[w]
      ZMatch(c) == Matches(n.pid, c)
      SMatch(c) == Matches(n.pid, c) /\ n.untraced /\ st.stop[c]
  IN
  IF \E i \in 1..Len(st.z) : ZMatch(st.z[i])
  THEN LET c == st.z[SelectInSeq(st.z, ZMatch)]
       IN [pm |-> 1,
           st |-> [st EXCEPT !.z = SwapRemove(@, SelectInSeq(@, ZMatch)),
                             !.node[w] = [@ EXCEPT !.pid = c, !.status = "exit",
                                                   !.woken = TRUE],
                             !.reported[c] = @ + 1]]
  ELSE IF \E i \in 1..Len(children) : SMatch(children[i])
  THEN LET c == children[SelectInSeq(children, SMatch)]
       IN [pm |-> 1,
           st |-> [st EXCEPT !.stop[c] = FALSE,
                             !.node[w] = [@ EXCEPT !.pid = c, !.status = "stop",
                                                   !.woken = TRUE]]]
  ELSE [pm |-> IF \E i \in 1..Len(children) : Matches(n.pid, children[i]) THEN -1 ELSE 0,
        st |-> st]

\* The loop of proc_subproc's scan_wait (sigproc.cc 408-442) from the
\* node after position p of the queue.  After a node is unlinked the loop
\* still steps to the next node, so the node that took the unlinked one's
\* place is not looked at in this scan.
RECURSIVE ScanFrom(_, _, _)
ScanFrom(p, st, clearing) ==
  IF p >= Len(st.q) THEN st
  ELSE
    LET w      == st.q[p + 1]
        cs     == CheckState(st, w)
        n      == cs.st.node[w]
        Unlink(s) == [s EXCEPT !.q = RemoveAt(@, p + 1)]
        NoMatch == [n EXCEPT !.pid = 0,
                             !.status = IF clearing THEN "intr" ELSE @,
                             !.evnull = IF ~clearing /\ (cs.pm = 0 \/ ~n.nohang)
                                        THEN TRUE ELSE @,
                             !.woken = TRUE]
        next   == CASE cs.pm > 0 -> Unlink(cs.st)
                    [] ~clearing /\ ~n.nohang /\ cs.pm < 0 -> cs.st
                    [] OTHER -> Unlink([cs.st EXCEPT !.node[w] = NoMatch])
    IN ScanFrom(p + 1, next, clearing)

ScanState == [q |-> waitq, z |-> zombies, stop |-> stopsig, node |-> node,
              reported |-> reported]

\* Make a scan's result the new state.
ApplyScan(st) ==
  /\ waitq' = st.q
  /\ zombies' = st.z
  /\ stopsig' = st.stop
  /\ node' = st.node
  /\ reported' = st.reported

Signalled(k) == tracked[children[k]] \in gone[children[k]]

NoNode == [pid |-> 0, nohang |-> FALSE, untraced |-> FALSE, status |-> "none",
           evnull |-> TRUE, woken |-> FALSE]

Init ==
  /\ spawned = [c \in Kids |-> "no"]
  /\ children = <<>>
  /\ tracked = [c \in Kids |-> 0]
  /\ hproc = [c \in Kids |-> 0]
  /\ gone = [c \in Kids |-> {}]
  /\ stopsig = [c \in Kids |-> FALSE]
  /\ pgid = [c \in Kids |-> MyPgid]
  /\ zombies = <<>>
  /\ waitq = <<>>
  /\ node = [w \in Waiters |-> NoNode]
  /\ wpc = [w \in Waiters |-> "idle"]
  /\ rpc = "wait"
  /\ sigchld = 0
  /\ budget = [wait |-> [w \in Waiters |-> MaxWaits], intr |-> MaxInterrupts,
                clear |-> MaxClears, stop |-> MaxStops, exec |-> MaxExec,
                term |-> MaxTerminate]
  /\ reported = [c \in Kids |-> 0]
  /\ syncProcSubproc = TRUE

-----------------------------------------------------------------------------
(* The children.                                                           *)

\* PROC_ADDCHILD (sigproc.cc 280-311): refused when the table is full.
\* Once proc_terminate has zeroed sync_proc_subproc, get_proc_lock fails and
\* proc_subproc returns its initial rc of 1 without adding the child.
Spawn(c) ==
  /\ spawned[c] = "no"
  /\ IF ~syncProcSubproc
     THEN /\ spawned' = [spawned EXCEPT ![c] = "added"]
          /\ UNCHANGED <<children, tracked, pgid>>
     ELSE IF Len(children) >= PSIZE - 1
     THEN /\ spawned' = [spawned EXCEPT ![c] = "refused"]
          /\ UNCHANGED <<children, tracked, pgid>>
     ELSE /\ spawned' = [spawned EXCEPT ![c] = "added"]
          /\ children' = Append(children, c)
          /\ tracked' = [tracked EXCEPT ![c] = hproc[c]]
          /\ pgid' = [pgid EXCEPT ![c] = MyPgid]
  /\ UNCHANGED <<syncProcSubproc, hproc, gone, stopsig, zombies, waitq, node, wpc, rpc, sigchld,
                 budget, reported>>

Running(c) == spawned[c] = "added" /\ hproc[c] \notin gone[c]

\* exec in the child: the new process is recorded as child->hProcess
\* before the old one exits (spawn.cc, modelled from the spec).
ExecStart(c) ==
  /\ Running(c)
  /\ budget.exec > 0
  /\ hproc' = [hproc EXCEPT ![c] = @ + 1]
  /\ budget' = [budget EXCEPT !.exec = @ - 1]
  /\ UNCHANGED <<syncProcSubproc, spawned, children, tracked, gone, stopsig, pgid, zombies, waitq,
                 node, wpc, rpc, sigchld, reported>>

\* A process of the child (the current one, or one that has exec'd) exits.
ChildExit(c) ==
  /\ spawned[c] = "added"
  /\ \E g \in 0..hproc[c] \ gone[c] :
       gone' = [gone EXCEPT ![c] = @ \cup {g}]
  /\ UNCHANGED <<syncProcSubproc, spawned, children, tracked, hproc, stopsig, pgid, zombies, waitq,
                 node, wpc, rpc, sigchld, budget, reported>>

\* The child stops and its stop code sends SIGCHLD to its parent
\* (exceptions.cc, modelled from the spec); after proc_terminate set its
\* ppid to 1 that is no longer this process.
ChildStop(c) ==
  /\ Running(c)
  /\ ~stopsig[c]
  /\ budget.stop > 0
  /\ stopsig' = [stopsig EXCEPT ![c] = TRUE]
  /\ sigchld' = IF syncProcSubproc THEN sigchld + 1 ELSE sigchld
  /\ budget' = [budget EXCEPT !.stop = @ - 1]
  /\ UNCHANGED <<syncProcSubproc, spawned, children, tracked, hproc, gone, pgid, zombies, waitq,
                 node, wpc, rpc, reported>>

\* setpgid (0, 0) in the child (modelled from the spec).
ChildSetpgid(c) ==
  /\ Running(c)
  /\ pgid[c] # c
  /\ pgid' = [pgid EXCEPT ![c] = c]
  /\ UNCHANGED <<syncProcSubproc, spawned, children, tracked, hproc, gone, stopsig, zombies, waitq,
                 node, wpc, rpc, sigchld, budget, reported>>

-----------------------------------------------------------------------------
(* The wait_subproc thread.                                                *)

\* Mutants of ReaperNotice: the exec hand-off test is missing; the
\* hand-off does not record the new handle; the zombie table is taken as
\* full one entry late.
ReaperNoticeNoHandoff ==
  /\ rpc = "wait"
  /\ \E k \in 1..Len(children) :
       /\ Signalled(k)
       /\ \A j \in 1..(k - 1) : ~Signalled(j)
       /\ LET z == Append(zombies, children[k]) IN
          /\ children' = SwapRemove(children, k)
          /\ zombies' = IF Len(z) >= NZOMBIES \/ SigchldIgn
                         THEN SwapRemove(z, Len(z)) ELSE z
          /\ rpc' = "send"
  /\ UNCHANGED <<syncProcSubproc, spawned, tracked, hproc, gone, stopsig, pgid, waitq, node, wpc,
                 sigchld, budget, reported>>

ReaperNoticeStaleHandle ==
  /\ rpc = "wait"
  /\ \E k \in 1..Len(children) :
       /\ Signalled(k)
       /\ \A j \in 1..(k - 1) : ~Signalled(j)
       /\ LET c == children[k] IN
          IF tracked[c] # hproc[c]
          THEN UNCHANGED <<tracked, children, zombies, rpc>>
          ELSE LET z == Append(zombies, c) IN
               /\ children' = SwapRemove(children, k)
               /\ zombies' = IF Len(z) >= NZOMBIES \/ SigchldIgn
                              THEN SwapRemove(z, Len(z)) ELSE z
               /\ rpc' = "send"
               /\ UNCHANGED tracked
  /\ UNCHANGED <<syncProcSubproc, spawned, hproc, gone, stopsig, pgid, waitq, node, wpc, sigchld,
                 budget, reported>>

ReaperNoticeZombieLimit ==
  /\ rpc = "wait"
  /\ \E k \in 1..Len(children) :
       /\ Signalled(k)
       /\ \A j \in 1..(k - 1) : ~Signalled(j)
       /\ LET c == children[k] IN
          IF tracked[c] # hproc[c]
          THEN /\ tracked' = [tracked EXCEPT ![c] = hproc[c]]
               /\ UNCHANGED <<children, zombies, rpc>>
          ELSE LET z == Append(zombies, c) IN
               /\ children' = SwapRemove(children, k)
               /\ zombies' = IF Len(z) > NZOMBIES \/ SigchldIgn
                              THEN SwapRemove(z, Len(z)) ELSE z
               /\ rpc' = "send"
               /\ UNCHANGED tracked
  /\ UNCHANGED <<syncProcSubproc, spawned, hproc, gone, stopsig, pgid, waitq, node, wpc, sigchld,
                 budget, reported>>

\* WaitForMultipleObjects returns the lowest signalled child slot, and
\* PROC_CHILDTERMINATED (sigproc.cc 319-362) handles it: an exec hand-off
\* when the tracked handle is no longer the child's process, otherwise the
\* child becomes a zombie (reaped at once if the zombie table is full or
\* SIGCHLD is ignored) and wait_subproc goes on to send SIGCHLD.
ReaperNotice ==
  /\ rpc = "wait"
  /\ \E k \in 1..Len(children) :
       /\ Signalled(k)
       /\ \A j \in 1..(k - 1) : ~Signalled(j)
       /\ LET c == children[k] IN
          IF tracked[c] # hproc[c]
          THEN /\ tracked' = [tracked EXCEPT ![c] = hproc[c]]
               /\ UNCHANGED <<children, zombies, rpc>>
          ELSE LET z == Append(zombies, c) IN
               /\ children' = SwapRemove(children, k)
               /\ zombies' = IF Len(z) >= NZOMBIES \/ SigchldIgn
                              THEN SwapRemove(z, Len(z)) ELSE z
               /\ rpc' = "send"
               /\ UNCHANGED tracked
  /\ UNCHANGED <<syncProcSubproc, spawned, hproc, gone, stopsig, pgid, waitq, node, wpc, sigchld,
                 budget, reported>>

\* After PROC_CHILDTERMINATED: the thread exits if proc_terminate has
\* zeroed proc_loop_wait (sigproc.cc 1318-1320), else it goes on to send
\* SIGCHLD.
ReaperSend ==
  /\ rpc = "send"
  /\ rpc' = IF syncProcSubproc THEN "signal" ELSE "exit"
  /\ UNCHANGED <<syncProcSubproc, spawned, children, tracked, hproc, gone, stopsig, pgid, zombies,
                 waitq, node, wpc, sigchld, budget, reported>>

\* sig_send (myself_nowait, SIGCHLD) (1325-1326), a step of its own: no
\* lock is held, and proc_terminate may have run since the test.
ReaperSignal ==
  /\ rpc = "signal"
  /\ rpc' = "wait"
  /\ sigchld' = sigchld + 1
  /\ UNCHANGED <<syncProcSubproc, spawned, children, tracked, hproc, gone, stopsig, pgid, zombies,
                 waitq, node, wpc, budget, reported>>

\* Woken by proc_terminate, WaitForMultipleObjects with a zero timeout
\* times out and the thread leaves its loop (sigproc.cc 1272-1276).
ReaperExit ==
  /\ rpc = "wait" /\ ~syncProcSubproc
  /\ rpc' = "exit"
  /\ UNCHANGED <<syncProcSubproc, spawned, children, tracked, hproc, gone, stopsig,
                 pgid, zombies, waitq, node, wpc, sigchld, budget, reported>>

-----------------------------------------------------------------------------
(* wait_sig and the main thread's signal dispatch.                         *)

\* Mutant of DeliverSigchld: SIGCHLD is taken without a rescan.
DeliverSigchldNoScan ==
  /\ sigchld > 0
  /\ sigchld' = sigchld - 1
  /\ UNCHANGED <<syncProcSubproc, spawned, children, tracked, hproc, gone, stopsig, pgid, zombies,
                 waitq, node, wpc, rpc, budget, reported>>

\* wait_sig takes one occurrence of SIGCHLD and scans the wait queue with
\* PROC_CLEARWAIT (0) (sigproc.cc 1222-1223).
DeliverSigchld ==
  /\ sigchld > 0
  /\ sigchld' = sigchld - 1
  /\ IF syncProcSubproc THEN ApplyScan(ScanFrom(0, ScanState, FALSE))
     ELSE UNCHANGED <<waitq, zombies, stopsig, node, reported>>
  /\ UNCHANGED <<syncProcSubproc, spawned, children, tracked, hproc, gone, pgid, wpc, rpc, budget>>

\* sigaction (SIGCHLD, SIG_DFL or SIG_IGN) calls sig_clear (SIGCHLD), which
\* zeroes the pending count (signal.cc 336-339, sigproc.cc 513-519).  With
\* nothing pending the call changes nothing, so only the one that discards
\* is an action.
ClearSigchld ==
  /\ budget.clear > 0 /\ sigchld > 0
  /\ budget' = [budget EXCEPT !.clear = @ - 1]
  /\ sigchld' = 0
  /\ UNCHANGED <<syncProcSubproc, spawned, children, tracked, hproc, gone, stopsig, pgid, zombies,
                 waitq, node, wpc, rpc, reported>>

\* The scan state after PROC_CLEARWAIT (1): every node scanned is woken
\* as interrupted, then the queue is emptied (sigproc.cc 400-442).
ClearWait == [ScanFrom(0, ScanState, TRUE) EXCEPT !.q = <<>>]

\* PROC_CLEARWAIT (1) before a handler runs on the main thread; a call
\* after proc_terminate finds no lock and does nothing.
InterruptWaiters ==
  /\ budget.intr > 0
  /\ budget' = [budget EXCEPT !.intr = @ - 1]
  /\ IF syncProcSubproc THEN ApplyScan(ClearWait)
     ELSE UNCHANGED <<waitq, zombies, stopsig, node, reported>>
  /\ UNCHANGED <<syncProcSubproc, spawned, children, tracked, hproc, gone, pgid, wpc,
                 rpc, sigchld>>

-----------------------------------------------------------------------------
(* proc_terminate, from exec or exit.                                     *)

\* proc_terminate (sigproc.cc 459-513), holding sync_proc_subproc from its
\* acquire on: proc_loop_wait zeroed and the reaper woken, PROC_CLEARWAIT
\* (1), the zombies released and every child disassociated (its handle
\* closed, ppid 1), both tables emptied and sync_proc_subproc zeroed
\* without a release.  A call that finds hwait_subproc NULL does nothing.
ProcTerminate ==
  /\ syncProcSubproc /\ budget.term > 0 /\ budget.intr > 0
  /\ syncProcSubproc' = FALSE
  /\ budget' = [budget EXCEPT !.term = @ - 1, !.intr = @ - 1]
  /\ ApplyScan([ClearWait EXCEPT !.z = <<>>])
  /\ children' = <<>>
  /\ UNCHANGED <<spawned, tracked, hproc, gone, pgid, wpc, rpc, sigchld>>

-----------------------------------------------------------------------------
(* The wait4 callers.                                                      *)

\* PROC_WAIT (sigproc.cc 368-394): no event for a pid that is not a child,
\* otherwise reset the event, insert the node at the head and scan.  After
\* proc_terminate proc_subproc returns 1 without touching the node, and
\* wait4 (wait.cc, modelled from the spec) returns at once: on a NULL
\* event, or on its thread event left set by the previous call.
WaitCall(w) ==
  /\ wpc[w] = "idle"
  /\ budget.wait[w] > 0
  /\ wpc' = [wpc EXCEPT ![w] = "blocked"]
  /\ budget' = [budget EXCEPT !.wait[w] = @ - 1]
  /\ \E pat \in Patterns, nohang, untraced \in BOOLEAN :
       LET n == [node[w] EXCEPT !.pid = pat, !.nohang = nohang,
                                !.untraced = untraced, !.evnull = TRUE]
       IN IF ~syncProcSubproc \/ (pat > 0 /\ ~MyChild(pat))
          THEN /\ node' = [node EXCEPT ![w] = n]
               /\ UNCHANGED <<waitq, zombies, stopsig, reported>>
          ELSE ApplyScan(ScanFrom(0,
                 [ScanState EXCEPT
                    !.q = <<w>> \o @,
                    !.node[w] = [n EXCEPT !.status = "none", !.evnull = FALSE,
                                          !.woken = FALSE]], FALSE))
  /\ UNCHANGED <<syncProcSubproc, spawned, children, tracked, hproc, gone, pgid, rpc, sigchld>>

\* wait4 returns: at once when the event is NULL (ECHILD), otherwise when
\* the event is set (a status, 0 for WNOHANG, or EINTR).  No field of the
\* node is read again before the next PROC_WAIT writes it, so the model
\* forgets them.
WaitReturn(w) ==
  /\ wpc[w] = "blocked"
  /\ node[w].evnull \/ node[w].woken
  /\ wpc' = [wpc EXCEPT ![w] = "idle"]
  /\ node' = [node EXCEPT ![w] = NoNode]
  /\ UNCHANGED <<syncProcSubproc, spawned, children, tracked, hproc, gone, stopsig, pgid, zombies,
                 waitq, rpc, sigchld, budget, reported>>

-----------------------------------------------------------------------------
Next ==
  \/ \E c \in Kids : Spawn(c) \/ ExecStart(c) \/ ChildExit(c) \/ ChildStop(c)
                     \/ ChildSetpgid(c)
  \/ ReaperNotice \/ ReaperSend \/ ReaperSignal \/ ReaperExit \/ ProcTerminate
  \/ DeliverSigchld \/ ClearSigchld \/ InterruptWaiters
  \/ \E w \in Waiters : WaitCall(w) \/ WaitReturn(w)

\* The reaper and wait_sig are threads that run whenever they have work, and
\* a woken wait4 caller runs; the children and the callers of wait4,
\* sigaction and the interrupt path act when they choose.
Fairness ==
  /\ WF_vars(ReaperNotice \/ ReaperSend \/ ReaperSignal) /\ WF_vars(DeliverSigchld)
  /\ \A w \in Waiters : WF_vars(WaitReturn(w))

Spec == Init /\ [][Next]_vars /\ Fairness

-----------------------------------------------------------------------------
(* Properties.                                                             *)

Status == {"none", "exit", "stop", "intr"}

TypeOK ==
  /\ spawned \in [Kids -> {"no", "added", "refused"}]
  /\ children \in Seq(Kids) /\ Len(children) <= PSIZE - 1
  /\ zombies \in Seq(Kids) /\ Len(zombies) < NZOMBIES
  /\ tracked \in [Kids -> 0..MaxExec] /\ hproc \in [Kids -> 0..MaxExec]
  /\ gone \in [Kids -> SUBSET (0..MaxExec)]
  /\ stopsig \in [Kids -> BOOLEAN] /\ pgid \in [Kids -> Int]
  /\ waitq \in Seq(Waiters)
  /\ node \in [Waiters -> [pid : Int, nohang : BOOLEAN, untraced : BOOLEAN,
                          status : Status, evnull : BOOLEAN, woken : BOOLEAN]]
  /\ wpc \in [Waiters -> {"idle", "blocked"}]
  /\ rpc \in {"wait", "send", "signal", "exit"}
  /\ sigchld \in Nat
  /\ reported \in [Kids -> Nat]
  /\ syncProcSubproc \in BOOLEAN

\* Every child is in at most one slot of the live and zombie tables
\* together: PROC_CHILDTERMINATED moves a child from pchildren[] to
\* zombies[] with its swap-with-last removal, and remove_zombie shrinks
\* the zombie table the same way.
ChildInOneTable ==
  /\ IsInjective(children \o zombies)
  /\ \A i \in 1..Len(children \o zombies) : spawned[(children \o zombies)[i]] = "added"

\* A child is made a zombie only when its current process has exited: the
\* exec hand-off check of PROC_CHILDTERMINATED must not take the exit of
\* the process that exec'd for the end of the child.
ZombieMeansExited ==
  \A i \in 1..Len(zombies) : hproc[zombies[i]] \in gone[zombies[i]]

\* wait4 returns a child's termination at most once, and a child whose
\* termination was returned is in neither table (checkstate removes the
\* zombie it reports).
ReapedOnce ==
  \A c \in Kids :
    /\ reported[c] <= 1
    /\ reported[c] = 1 => c \notin ToSet(children \o zombies)

\* A wait4 caller blocked on its event is still on the wait queue, or its
\* event has been set or cleared: no scan drops a node from the queue
\* without waking it.
NoWaiterStranded ==
  \A w \in Waiters :
    wpc[w] = "blocked" => w \in ToSet(waitq) \/ node[w].evnull \/ node[w].woken

MatchingZombie(w) == \E i \in 1..Len(zombies) : Matches(node[w].pid, zombies[i])

\* A blocking wait4 caller whose pattern matches a zombie returns, or the
\* zombie is reaped by another caller: the SIGCHLD the reaper sends after
\* making the zombie makes wait_sig rescan the queue.
WaiterServed ==
  \A w \in Waiters :
    (wpc[w] = "blocked" /\ w \in ToSet(waitq) /\ MatchingZombie(w))
      ~> (wpc[w] = "idle" \/ ~MatchingZombie(w))

\* The same promise while sig_clear (SIGCHLD) may come: until a sigaction
\* on SIGCHLD discards the pending SIGCHLD, a blocking wait4 caller whose
\* pattern matches a zombie is served; only that discard, not an
\* interleaving of the reaper, wait_sig and the scans of wait4, strands it.
WaiterServedUnlessCleared ==
  \A w \in Waiters :
    (wpc[w] = "blocked" /\ w \in ToSet(waitq) /\ MatchingZombie(w)
       /\ budget.clear = MaxClears)
      ~> (wpc[w] = "idle" \/ ~MatchingZombie(w) \/ budget.clear < MaxClears)

\* Once every process of a child (the one exec'd last and those that
\* exec'd) has exited, wait_subproc eventually notices: the child leaves the
\* live table, through as many exec hand-offs as it takes.  Both sides are
\* stable (a child is spawned once, and an exited process stays exited), so
\* this is stated as: eventually every child whose processes have all
\* exited is out of the table for good.
AllExited(c) == spawned[c] = "added" /\ gone[c] = 0..hproc[c]
TerminationNoticed ==
  <>[](\A c \in Kids : AllExited(c) => c \notin ToSet(children))
==============================================================================
