-------------------------------- MODULE Tty --------------------------------
(***************************************************************************)
(* The table of ttys every Cygwin process shares (cygwin_shared->tty) and  *)
(* its allocation, from winsup/cygwin/tty.cc: tty_init at start-up,        *)
(* attach_tty, allocate_tty with create_tty_master, connect_tty, and       *)
(* tty_list::terminate from do_exit.                                       *)
(*                                                                         *)
(* A process started from Windows with CYGWIN=tty (PID_USETTY) looks for   *)
(* the tty of its console window, reusing it when that tty's master       *)
(* process lives, and otherwise takes the first free tty and becomes its  *)
(* master; a process a Cygwin parent started inherits the parent's ctty.  *)
(* allocate_tty takes no lock (its FIXME says so), so its scan, its claim *)
(* of the tty (init, setsid, setpgid, sethwnd) and create_tty_master's    *)
(* common_init, which records master_pid, are separate steps.  Finding    *)
(* the console window (the title dance under title_mutex) is abstracted  *)
(* to Console.                                                             *)
(*                                                                         *)
(* tty::exists is declared in tty.h, outside this tree; the model takes   *)
(* it from what tty.cc's own liveness tests read: the named objects a     *)
(* tty's master creates and the TTY_SLAVE_ALIVE event of its slaves       *)
(* (tty::alive), which exist while a process holding them lives.  A      *)
(* process whose ctty is a tty has that tty open as a slave, through the  *)
(* descriptors it inherited or opened.                                    *)
(***************************************************************************)
EXTENDS Integers

CONSTANTS
  Procs,     \* Cygwin processes, named by their Windows pids
  NTTYS,     \* entries of cygwin_shared->tty
  Console,   \* each process's console window; NoHwnd when FindWindow fails
  NoHwnd,    \* a NULL HWND
  Parent,    \* the Cygwin process that spawned each one, 0 for none
  UseTty,    \* processes with PID_USETTY (CYGWIN=tty)
  MaxKills,  \* bound: processes that die by TerminateProcess or api_fatal
  MaxOpens   \* bound: opens of /dev/ttyN

ASSUME /\ Procs \subseteq Nat \ {0} /\ NTTYS \in Nat \ {0}
       /\ Parent \in [Procs -> Procs \cup {0}] /\ UseTty \subseteq Procs
       /\ {MaxKills, MaxOpens} \subseteq Nat

Ttys == 0..(NTTYS - 1)

VARIABLES
  hwnd,       \* ttys[i].hwnd
  masterPid,  \* ttys[i].master_pid
  masters,    \* processes holding tty i's master objects (common_init)
  slaves,     \* processes with tty i open as a slave
  pc,         \* each process: new, scan, claim, master, run, term, reset, dead
  ctty,       \* myself->ctty
  freetty,    \* allocate_tty's freetty, from its scan to its claim
  budget      \* kills and opens left

vars == <<hwnd, masterPid, masters, slaves, pc, ctty, freetty, budget>>

\* tty::exists: the master's objects or a slave's TTY_SLAVE_ALIVE event
\* can be opened (tty::alive).
Exists(i) == masters[i] # {} \/ slaves[i] # {}

Alive(p) == pc[p] \notin {"new", "dead"}

\* OpenProcess (PROCESS_DUP_HANDLE, FALSE, master_pid) succeeds.
MasterAlive(i) == masterPid[i] \in Procs /\ Alive(masterPid[i])

\* A scan that stops at the first free tty even with a console, so the
\* console's own tty further on is never reused.
RECURSIVE ScanFromFirstFree(_, _, _, _)
ScanFromFirstFree(i, free, con, withConsole) ==
  IF i >= NTTYS THEN [kind |-> "free", tty |-> free]
  ELSE LET f == IF ~Exists(i) /\ free < 0 THEN i ELSE free IN
       IF ~Exists(i) THEN [kind |-> "free", tty |-> f]
       ELSE IF withConsole /\ hwnd[i] = con
            THEN IF MasterAlive(i) THEN [kind |-> "found", tty |-> i]
                 ELSE [kind |-> "free", tty |-> i]
            ELSE ScanFromFirstFree(i + 1, f, con, withConsole)

\* The loop of allocate_tty (tty.cc 238-265) from tty i on, with the
\* freetty found so far: "found" a tty of the console whose master lives,
\* or "free" with the tty to claim, -1 when there is none.
RECURSIVE ScanFrom(_, _, _, _)
ScanFrom(i, free, con, withConsole) ==
  IF i >= NTTYS THEN [kind |-> "free", tty |-> free]
  ELSE LET f == IF ~Exists(i) /\ free < 0 THEN i ELSE free IN
       IF ~Exists(i) /\ ~withConsole THEN [kind |-> "free", tty |-> f]
       ELSE IF withConsole /\ hwnd[i] = con
            THEN IF MasterAlive(i) THEN [kind |-> "found", tty |-> i]
                 ELSE [kind |-> "free", tty |-> i]
            ELSE ScanFrom(i + 1, f, con, withConsole)

\* A process dies: every handle it held is closed.
Release(p) ==
  /\ masters' = [i \in Ttys |-> masters[i] \ {p}]
  /\ slaves' = [i \in Ttys |-> slaves[i] \ {p}]

Init ==
  /\ hwnd = [i \in Ttys |-> NoHwnd]
  /\ masterPid = [i \in Ttys |-> 0]
  /\ masters = [i \in Ttys |-> {}]
  /\ slaves = [i \in Ttys |-> {}]
  /\ pc = [p \in Procs |-> "new"]
  /\ ctty = [p \in Procs |-> -1]
  /\ freetty = [p \in Procs |-> -1]
  /\ budget = [kills |-> MaxKills, opens |-> MaxOpens]

-----------------------------------------------------------------------------
(* Start-up.                                                               *)

\* The process starts and dll_crt0_1 calls tty_init (tty.cc 51-65): a
\* child of a running Cygwin process has its ctty already and opens it;
\* one started from Windows with PID_USETTY calls attach_tty (-1), which
\* calls allocate_tty (1) (tty.cc 108-117), failing when no console window
\* is found.
Start(p) ==
  /\ pc[p] = "new"
  /\ Parent[p] # 0 => pc[Parent[p]] = "run"
  /\ IF Parent[p] # 0
     THEN LET t == ctty[Parent[p]] IN
          /\ ctty' = [ctty EXCEPT ![p] = t]
          /\ slaves' = IF t = -1 THEN slaves ELSE [slaves EXCEPT ![t] = @ \cup {p}]
          /\ pc' = [pc EXCEPT ![p] = "run"]
     ELSE /\ pc' = [pc EXCEPT ![p] = IF p \in UseTty /\ Console[p] # NoHwnd
                                      THEN "scan" ELSE "run"]
          /\ UNCHANGED <<ctty, slaves>>
  /\ UNCHANGED <<hwnd, masterPid, masters, freetty, budget>>

\* allocate_tty's scan: the console's tty is taken over when its master
\* lives; otherwise the tty found is claimed, or there is none.
AllocScan(p) ==
  /\ pc[p] = "scan"
  /\ LET r == ScanFrom(0, -1, Console[p], TRUE) IN
     CASE r.kind = "found" ->
            /\ ctty' = [ctty EXCEPT ![p] = r.tty]
            /\ slaves' = [slaves EXCEPT ![r.tty] = @ \cup {p}]
            /\ pc' = [pc EXCEPT ![p] = "run"]
            /\ UNCHANGED freetty
       [] r.tty = -1 ->
            /\ pc' = [pc EXCEPT ![p] = "run"]
            /\ UNCHANGED <<ctty, slaves, freetty>>
       [] OTHER ->
            /\ freetty' = [freetty EXCEPT ![p] = r.tty]
            /\ pc' = [pc EXCEPT ![p] = "claim"]
            /\ UNCHANGED <<ctty, slaves>>
  /\ UNCHANGED <<hwnd, masterPid, masters, budget>>

\* t->init (), setsid (-1), setpgid (myself->pgid), sethwnd (console)
\* (tty.cc 273-277, 328-337): of the fields, the model keeps hwnd.
AllocClaim(p) ==
  /\ pc[p] = "claim"
  /\ hwnd' = [hwnd EXCEPT ![freetty[p]] = Console[p]]
  /\ pc' = [pc EXCEPT ![p] = "master"]
  /\ UNCHANGED <<masterPid, masters, slaves, ctty, freetty, budget>>

\* create_tty_master (tty.cc 70-97): tty_master->init runs common_init,
\* which makes the tty's pipes, events and mutexes and records master_pid
\* (tty.cc 390-469); myself->ctty is set and the utmp entry logged.
MasterInit(p) ==
  /\ pc[p] = "master"
  /\ LET t == freetty[p] IN
     /\ masterPid' = [masterPid EXCEPT ![t] = p]
     /\ masters' = [masters EXCEPT ![t] = @ \cup {p}]
     /\ ctty' = [ctty EXCEPT ![p] = t]
  /\ pc' = [pc EXCEPT ![p] = "run"]
  /\ UNCHANGED <<hwnd, slaves, freetty, budget>>

-----------------------------------------------------------------------------
(* Running and exiting.                                                    *)

\* open of /dev/ttyN: attach_tty (n) calls connect_tty (tty.cc 159-173),
\* which refuses a number out of range or a tty that does not exist.
OpenTty(p, n) ==
  /\ pc[p] = "run" /\ budget.opens > 0
  /\ budget' = [budget EXCEPT !.opens = @ - 1]
  /\ slaves' = IF n \in Ttys /\ Exists(n) THEN [slaves EXCEPT ![n] = @ \cup {p}]
               ELSE slaves
  /\ UNCHANGED <<hwnd, masterPid, masters, pc, ctty, freetty>>

\* do_exit: close_all_files closes the slave side, then tty_terminate
\* (tty.cc 100-105) calls tty_list::terminate (tty.cc 120-156), whose
\* master waits for the tty's slaves; any other process just exits.
Exit(p) ==
  /\ pc[p] = "run"
  /\ slaves' = [i \in Ttys |-> slaves[i] \ {p}]
  /\ IF p \in UseTty /\ ctty[p] # -1 /\ masterPid[ctty[p]] = p
     THEN /\ pc' = [pc EXCEPT ![p] = "term"]
          /\ UNCHANGED masters
     ELSE /\ pc' = [pc EXCEPT ![p] = "dead"]
          /\ masters' = [i \in Ttys |-> masters[i] \ {p}]
  /\ UNCHANGED <<hwnd, masterPid, ctty, freetty, budget>>

\* The master's loop (tty.cc 132-144) ends once no slave of its tty is
\* alive.
TermWait(p) ==
  /\ pc[p] = "term"
  /\ slaves[ctty[p]] = {}
  /\ pc' = [pc EXCEPT ![p] = "reset"]
  /\ UNCHANGED <<hwnd, masterPid, masters, slaves, ctty, freetty, budget>>

\* It then closes the tty's handles and calls t->init (), which clears the
\* tty's hwnd (tty.cc 146-150, 332); master_pid is left as it was.
TermDone(p) ==
  /\ pc[p] = "reset"
  /\ hwnd' = [hwnd EXCEPT ![ctty[p]] = NoHwnd]
  /\ pc' = [pc EXCEPT ![p] = "logout"]
  /\ UNCHANGED <<masterPid, masters, slaves, ctty, freetty, budget>>

\* logout (tty.cc 152-154), and the process exits: it no longer holds the
\* tty.
TermExit(p) ==
  /\ pc[p] = "logout"
  /\ pc' = [pc EXCEPT ![p] = "dead"]
  /\ Release(p)
  /\ UNCHANGED <<hwnd, masterPid, ctty, freetty, budget>>

\* TerminateProcess from outside, or api_fatal when the master tty cannot
\* be made: the process dies with no clean-up.
Kill(p) ==
  /\ Alive(p) /\ budget.kills > 0
  /\ budget' = [budget EXCEPT !.kills = @ - 1]
  /\ pc' = [pc EXCEPT ![p] = "dead"]
  /\ Release(p)
  /\ UNCHANGED <<hwnd, masterPid, ctty, freetty>>

Next ==
  \E p \in Procs :
    \/ Start(p) \/ AllocScan(p) \/ AllocClaim(p) \/ MasterInit(p)
    \/ \E n \in 0..NTTYS : OpenTty(p, n)
    \/ Exit(p) \/ TermWait(p) \/ TermDone(p) \/ TermExit(p) \/ Kill(p)

Spec == Init /\ [][Next]_vars

-----------------------------------------------------------------------------
(* Properties.                                                             *)

TypeOK ==
  /\ hwnd \in [Ttys -> {Console[p] : p \in Procs} \cup {NoHwnd}]
  /\ masterPid \in [Ttys -> Procs \cup {0}]
  /\ masters \in [Ttys -> SUBSET Procs] /\ slaves \in [Ttys -> SUBSET Procs]
  /\ pc \in [Procs -> {"new", "scan", "claim", "master", "run", "term", "reset", "logout", "dead"}]
  /\ ctty \in [Procs -> Ttys \cup {-1}] /\ freetty \in [Procs -> Ttys \cup {-1}]
  /\ budget \in [kills : 0..MaxKills, opens : 0..MaxOpens]

\* What allocate_tty's comment promises of its scan, stated over the
\* whole table: with a console, the lowest tty of that console is reused
\* when its master lives and claimed when it does not; failing that, and
\* always without a console, the lowest tty that does not exist is
\* claimed.  The C loop, with its two breaks and freetty carried across
\* entries, must agree on every table the processes leave behind.
ScanMatchesReference ==
  \A con \in {Console[p] : p \in Procs} \ {NoHwnd}, wc \in BOOLEAN :
    LET mine == {i \in Ttys : wc /\ hwnd[i] = con}
        free == {i \in Ttys : ~Exists(i)}
        lowest(S) == CHOOSE i \in S : \A j \in S : i <= j
        want == IF mine # {}
                THEN [kind |-> IF MasterAlive(lowest(mine)) THEN "found" ELSE "free",
                      tty |-> lowest(mine)]
                ELSE [kind |-> "free", tty |-> IF free = {} THEN -1 ELSE lowest(free)]
    IN ScanFrom(0, -1, con, wc) = want
==============================================================================
