------------------------------ MODULE KillPgrp ------------------------------
(***************************************************************************)
(* The process-group broadcast of winsup/cygwin/signal.cc: kill_pgrp      *)
(* walking the list of runtime-visible processes (winpids), filtering     *)
(* each by the pid pattern, and sending through kill_worker, with the     *)
(* caller itself signalled after the scan.  Other processes exit, stop,   *)
(* continue and change their process group while the scan runs.  A       *)
(* single-target send is one step: it succeeds when the target still     *)
(* exists (kill_worker's pinfo lookup and sig_send's                      *)
(* proc_can_be_signalled check).                                          *)
(***************************************************************************)
EXTENDS Integers, Sequences, SequencesExt, FiniteSets

CONSTANTS
  Procs,     \* pids of the runtime-visible processes
  Me,        \* the calling process
  Order,     \* the order in which winpids lists them
  Ctty,      \* controlling tty of each process
  Groups,    \* process groups processes may move to with setpgid
  Calls,     \* pid arguments of kill_pgrp: 0, 1, or a group
  MaxEvents  \* bound: exits, stops, continues and setpgid calls of others

ASSUME /\ Me \in Procs /\ Order \in Seq(Procs) /\ ToSet(Order) = Procs
       /\ IsInjective(Order) /\ Ctty \in [Procs -> Nat]
       /\ Groups \subseteq Nat \ {0, 1} /\ Calls \subseteq Nat /\ MaxEvents \in Nat

VARIABLES
  alive,     \* proc_exists: the process has not exited
  stopped,   \* ISSTATE (p, PID_STOPPED)
  pgid,      \* p->pgid
  kpc,       \* the caller: idle, scanning, sending to Order[i], self, done
  arg,       \* the pid and sig of the call; sig < 0 only to stopped ones
  i,         \* loop index into winpids
  found,     \* processes matched
  killself,  \* the caller matched
  res,       \* result so far: 0 or -1
  sentTo,    \* history: targets signalled by this call, in order
  stable,    \* history: processes matching and existing since the call began
  events     \* environment events left

vars == <<alive, stopped, pgid, kpc, arg, i, found, killself, res, sentTo,
          stable, events>>

\* The filter of kill_pgrp (signal.cc 250-254) for process p, with the
\* given process groups and stop states.
WantedIn(p, a, pg, st) ==
  ~ \/ a.pid = 0 /\ (pg[p] # pg[Me] \/ Ctty[p] # Ctty[Me])
    \/ a.pid > 1 /\ pg[p] # a.pid
    \/ a.sig < 0 /\ ~st[p]

Wanted(p, a) == WantedIn(p, a, pgid, stopped)

Matching(a) == {p \in Procs : alive[p] /\ Wanted(p, a)}

Init ==
  /\ alive = [p \in Procs |-> TRUE]
  /\ stopped \in [Procs -> BOOLEAN] /\ ~stopped[Me]
  /\ pgid \in [Procs -> Groups]
  /\ kpc = "idle"
  /\ arg = [pid |-> 0, sig |-> 1]
  /\ i = 1 /\ found = 0 /\ killself = FALSE /\ res = 0
  /\ sentTo = <<>> /\ stable = {}
  /\ events = MaxEvents

\* Each step of another process keeps in stable only what still matches.
Env(alive2, stopped2, pgid2) ==
  /\ events > 0
  /\ events' = events - 1
  /\ alive' = alive2 /\ stopped' = stopped2 /\ pgid' = pgid2
  /\ stable' = {p \in stable : alive2[p] /\ WantedIn(p, arg, pgid2, stopped2)}
  /\ UNCHANGED <<kpc, arg, i, found, killself, res, sentTo>>

ProcExit(p) == p # Me /\ alive[p] /\ Env([alive EXCEPT ![p] = FALSE], stopped, pgid)
ProcStop(p) == p # Me /\ alive[p] /\ Env(alive, [stopped EXCEPT ![p] = ~@], pgid)
ProcSetpgid(p) ==
  /\ p # Me /\ alive[p]
  /\ \E g \in Groups \ {pgid[p]} : Env(alive, stopped, [pgid EXCEPT ![p] = g])

\* Mutant of KillPgrp: the count of matches is not reset between calls.
KillPgrpNoReset ==
  /\ kpc \in {"idle", "done"}
  /\ \E pid \in Calls, sig \in {1, -1} :
       LET a == [pid |-> pid, sig |-> sig] IN
       /\ arg' = a
       /\ stable' = Matching(a)
  /\ kpc' = "scan" /\ i' = 1 /\ killself' = FALSE /\ res' = 0
  /\ sentTo' = <<>>
  /\ UNCHANGED <<alive, stopped, pgid, events, found>>

\* kill (-pid, sig) or killpg, or the SIGHUP of dcrt0.cc to the stopped
\* processes of the group (sig < 0).
KillPgrp ==
  /\ kpc \in {"idle", "done"}
  /\ \E pid \in Calls, sig \in {1, -1} :
       LET a == [pid |-> pid, sig |-> sig] IN
       /\ arg' = a
       /\ stable' = Matching(a)
  /\ kpc' = "scan" /\ i' = 1 /\ found' = 0 /\ killself' = FALSE /\ res' = 0
  /\ sentTo' = <<>>
  /\ UNCHANGED <<alive, stopped, pgid, events>>

\* Mutant of ScanCheck: the caller is signalled where winpids lists it.
ScanCheckSelfInPlace ==
  /\ kpc = "scan"
  /\ i <= Len(Order)
  /\ LET p == Order[i] IN
     IF ~alive[p] \/ ~Wanted(p, arg)
     THEN /\ i' = i + 1 /\ UNCHANGED <<kpc, found, killself>>
     ELSE /\ found' = found + 1 /\ kpc' = "send" /\ UNCHANGED <<i, killself>>
  /\ UNCHANGED <<alive, stopped, pgid, arg, res, sentTo, stable, events>>

\* One iteration of the winpids loop (signal.cc 245-262): skip a process
\* that does not exist or is not wanted; note the caller for later;
\* otherwise go on to kill_worker.
ScanCheck ==
  /\ kpc = "scan"
  /\ i <= Len(Order)
  /\ LET p == Order[i] IN
     IF ~alive[p] \/ ~Wanted(p, arg)
     THEN /\ i' = i + 1 /\ UNCHANGED <<kpc, found, killself>>
     ELSE /\ found' = found + 1
          /\ IF p = Me
             THEN /\ killself' = TRUE /\ i' = i + 1 /\ UNCHANGED kpc
             ELSE /\ kpc' = "send" /\ UNCHANGED <<i, killself>>
  /\ UNCHANGED <<alive, stopped, pgid, arg, res, sentTo, stable, events>>

\* Mutant of ScanSend: a failed kill_worker does not fail the call.
ScanSendNoFail ==
  /\ kpc = "send"
  /\ LET p == Order[i] IN
     IF alive[p] THEN sentTo' = Append(sentTo, p) ELSE UNCHANGED sentTo
  /\ kpc' = "scan" /\ i' = i + 1
  /\ UNCHANGED <<alive, stopped, pgid, arg, found, killself, res, stable,
                 events>>

\* kill_worker (signal.cc 167-204) for Order[i]: ESRCH when the process
\* no longer exists.  A negative sig is sent followed by SIGCONT; the
\* target acts on both later, in its own wait_sig.
ScanSend ==
  /\ kpc = "send"
  /\ LET p == Order[i] IN
     IF alive[p]
     THEN /\ sentTo' = Append(sentTo, p) /\ UNCHANGED res
     ELSE /\ res' = -1 /\ UNCHANGED sentTo
  /\ kpc' = "scan" /\ i' = i + 1
  /\ UNCHANGED <<alive, stopped, pgid, arg, found, killself, stable, events>>

\* Mutant of ScanEnd: the loop stops one process early.
ScanEndEarly ==
  /\ kpc = "scan"
  /\ i >= Len(Order)
  /\ sentTo' = IF killself THEN Append(sentTo, Me) ELSE sentTo
  /\ res' = IF found = 0 THEN -1 ELSE res
  /\ kpc' = "done"
  /\ UNCHANGED <<alive, stopped, pgid, arg, i, found, killself, stable,
                 events>>

\* After the loop: the caller signals itself, then ESRCH if nothing was
\* found (signal.cc 264-273).
ScanEnd ==
  /\ kpc = "scan"
  /\ i > Len(Order)
  /\ sentTo' = IF killself THEN Append(sentTo, Me) ELSE sentTo
  /\ res' = IF found = 0 THEN -1 ELSE res
  /\ kpc' = "done"
  /\ UNCHANGED <<alive, stopped, pgid, arg, i, found, killself, stable,
                 events>>

Next ==
  \/ KillPgrp \/ ScanCheck \/ ScanSend \/ ScanEnd
  \/ \E p \in Procs : ProcExit(p) \/ ProcStop(p) \/ ProcSetpgid(p)

Spec == Init /\ [][Next]_vars /\ WF_vars(ScanCheck \/ ScanSend \/ ScanEnd)

-----------------------------------------------------------------------------
(* Properties.                                                             *)

TypeOK ==
  /\ alive \in [Procs -> BOOLEAN] /\ stopped \in [Procs -> BOOLEAN]
  /\ pgid \in [Procs -> Groups]
  /\ kpc \in {"idle", "scan", "send", "done"}
  /\ arg \in [pid : Calls \cup {0}, sig : {1, -1}]
  /\ i \in 1..(Len(Order) + 1) /\ found \in 0..Len(Order)
  /\ killself \in BOOLEAN /\ res \in {0, -1}
  /\ sentTo \in Seq(Procs) /\ stable \subseteq Procs /\ events \in 0..MaxEvents

\* The caller is signalled after every other target, so that a stop signal
\* to itself cannot cut the scan short (kill_pgrp's killself).
SelfLast ==
  \A k \in 1..Len(sentTo) : sentTo[k] = Me => k = Len(sentTo)

\* When the call returns, every process that existed and matched the
\* pattern from the start of the call to its end has been signalled
\* exactly once, whatever other processes did meanwhile.
ReachesStableMembers ==
  kpc = "done" =>
    \A p \in stable : Len(SelectSeq(sentTo, LAMBDA q : q = p)) = 1

\* A call that returns 0 signalled every process it matched and no process
\* it did not: success means the group saw the signal.
SuccessMeansAllSignalled ==
  kpc = "done" /\ res = 0 =>
    /\ found > 0
    /\ Len(sentTo) = found

==============================================================================
