------------------------------ MODULE MC_Process -----------------------------
(***************************************************************************)
(* The components of one Cygwin process that share no state: signal     *)
(* delivery of sigproc.cc (SigDelivery), the start and teardown of the    *)
(* signal thread (SigLifecycle), the interval timer of window.cc (ITimer), *)
(* the environment of environ.cc (Environ), kill_pgrp of signal.cc        *)
(* (KillPgrp), the gettimeofday clock of times.cc (Gtod) and the time     *)
(* conversions and calls of times.cc (Times), do_exit of dcrt0.cc       *)
(* (DoExit), the CYGWIN options of environ.cc (CygwinOpts), the group    *)
(* database of grp.cc (Groups), the child registry and wait queue of      *)
(* sigproc.cc (ChildWait) and the tty table of tty.cc (Tty).  Twelve      *)
(* components in all.                                                     *)
(* Every property of one mentions only that component's variables and is *)
(* insensitive to stuttering, so it holds of the process exactly when it  *)
(* holds of the component alone: interleaving them adds nothing.  The run *)
(* therefore checks their disjoint union, part choosing which component   *)
(* moves while the others stay in an initial state, which costs the sum   *)
(* of the state spaces instead of their product.  SigDelivery is extended *)
(* rather than instantiated (its constants are set in Process.cfg), which *)
(* keeps the check of its liveness property fast; its Init, Next and vars *)
(* keep their names, the union's are ProcInit, ProcNext and procVars.     *)
(*                                                                         *)
(* SigDelivery: the main thread tm and one other thread tn calling the    *)
(* signal API, one remote process pr sending, two user signals; one call   *)
(* per actor.                                                              *)
(*                                                                         *)
(* SigLifecycle: the main thread lm, which runs dll_crt0_1, and one other *)
(* thread lo; one sig_send each, the main thread's made during dll_crt0_1 *)
(* or after it; either thread may exit.                                   *)
(*                                                                         *)
(* ITimer: UINT narrowed to 16 bits, so UINT_MAX / 1000 = 65 seconds and   *)
(* a value of 66 s wraps to 464 ms; values of whole seconds, of           *)
(* microseconds, under a millisecond and past the wrap; two calls.        *)
(*                                                                         *)
(* Environ: PATH converted and cached; "Path" as Windows may spell it,     *)
(* upper-cased by ucenv; SYSTEMROOT a spenvs variable; FOO plain.  Values  *)
(* of length 1 and 2, so setenv both overwrites in place and replaces.  A  *)
(* Windows block with a long Path and no TERM, and an envp passed by exec  *)
(* holding FOO twice.  Two calls and one spawn or exec.                    *)
(*                                                                         *)
(* KillPgrp: three processes, the caller listed second by winpids, process *)
(* 3 on another controlling tty, two groups, calls with pid 0, 1 and a     *)
(* group, and two steps of the other processes.                            *)
(*                                                                         *)
(* Times: a 4-bit DWORD and a 4-bit long, so time_t runs from -8 to 7;    *)
(* a second of 2 us of 2 ticks each; 1970 at tick 36, 9 s, more than a    *)
(* long holds, as 11644473600 s is; every kind of path; one call; utimes  *)
(* with times before and after 1970 whose low DWORD has its top bit set   *)
(* or not.                                                                 *)
(*                                                                         *)
(* DoExit: two threads that may call exit, each once more from inside a  *)
(* stage; a group leader with a title to restore and no session tty.     *)
(*                                                                         *)
(* CygwinOpts: a parent and the child it spawns; a user key for the       *)
(* parent's program or none; machine keys for "default" and the child, or *)
(* for the parent's program; a CYGWIN variable or none; NT or not.  The   *)
(* tokens carry every prefix, separator and disposition, except a prefix  *)
(* together with a value, which parse_options remembers garbled.          *)
(*                                                                         *)
(* Groups: two /etc/group contents, one with lines parse_group drops and *)
(* without the own gid, one with it; every host; three calls, with       *)
(* gidsetsize -1, 0, 1 and 2 and setgroups lists empty, repeated, with a  *)
(* gid without a SID and with two known gids.                             *)
(*                                                                         *)
(* Gtod: one thread making two calls, the first priming the clock; a      *)
(* 3-bit DWORD counter starting at 6, so it wraps 2 ms in and the elapsed  *)
(* count restarts 8 ms after prime; the clock runs to 10 ms.               *)
(*                                                                         *)
(* ChildWait: one child, two wait4 callers (for any child and for its     *)
(* pid), one wait each, one interrupt and one proc_terminate; no exec,    *)
(* stop or sig_clear, which MC_ChildWait's runs cover.                    *)
(*                                                                         *)
(* Tty, twice: two ttys with processes in consoles X and Y and a child of  *)
(* the first (part tty), and one tty contested by processes in consoles   *)
(* X, Y and X (part ttyone); one kill and one open each.                  *)
(***************************************************************************)
EXTENDS SigDelivery, TLC

CONSTANTS tm, tn, pr, NoOptKey, NoGrpFile

VARIABLES
  part,
  timerGot,
  itv, timerActive, wtimer, callpc, callArg, winpc, winElapse, msg, msgLate,
  gen, pendingGen, cancelled, lateAlarm,
  timerCalls,
  environ, cache, child, last, envCalls, spawns,
  alive, stopped, pgid, kpc, arg, i, found, killself, res, sentTo, stable,
  events,
  now, inited, initimeMs, initimeUs, pc, ft, tick, readAt, result, gtodCalls,
  primedAt,
  waitSigInited, ev, hwaitSig, sigLoopWait, lifeWs, catches, compMain,
  compNonmain, lifePc, h, kind, ret, rc, sends, misuse,
  path, ntTimes, ftAccess, ftWrite, setTo, timesLast, tmsFrom, timesCalls,
  exitState, owner, depth, frames, called, work, exited,
  optUser, optMachine, optNt, optPc, optSet, optRem, optGot, cygwin,
  grpHost, grpDisk, grpFrom, grpTable, grpPos, grpSupp, grpGot, grpLast,
  grpCalls,
  cwSpawned, cwChildren, cwTracked, cwHproc, cwGone, cwStopsig, cwPgid,
  cwZombies, cwWaitq, cwNode, cwWpc, cwRpc, cwSigchld, cwBudget, cwReported,
  cwSync,
  ttyHwnd, ttyMasterPid, ttyMasters, ttySlaves, ttyPc, ttyCtty, ttyFree,
  ttyBudget,
  oneHwnd, oneMasterPid, oneMasters, oneSlaves, onePc, oneCtty, oneFree,
  oneBudget

MCThreads == {tm, tn}
MCRemote == {pr}
MCUserSigs == {1, 2}
MCMaskChoices == {{}, {1}}
MCActSigs == {1}
MCBudget == (tm :> 1 @@ tn :> 1 @@ pr :> 1)

TimerValues == {[sec |-> 0, usec |-> 0], [sec |-> 1, usec |-> 0],
                [sec |-> 0, usec |-> 500000], [sec |-> 0, usec |-> 999],
                [sec |-> 66, usec |-> 0]}
TimerIntervals == {[sec |-> 0, usec |-> 0], [sec |-> 0, usec |-> 500000]}

T == INSTANCE ITimer WITH UBits <- 16, Values <- TimerValues,
                          Intervals <- TimerIntervals, MaxCalls <- 2,
                          calls <- timerCalls, got <- timerGot

EnvNames == {"PATH", "Path", "SYSTEMROOT", "FOO", "TERM"}
EnvVals == {"x", "yy", "cygwin"}
EnvEntry(n, v) == [name |-> n, val |-> v]
ParentEnv == <<EnvEntry("FOO", "x"), EnvEntry("PATH", "yy"), EnvEntry("FOO", "yy")>>

E == INSTANCE Environ WITH
       Names <- EnvNames,
       Conv <- {"PATH"},
       Spenv <- {"SYSTEMROOT"},
       SpenvVal <- [sp \in {"SYSTEMROOT"} |-> "x"],
       UC <- [n \in EnvNames |-> IF n = "Path" THEN "PATH" ELSE n],
       Vals <- EnvVals,
       VLen <- [v \in EnvVals |-> IF v = "x" THEN 1 ELSE IF v = "yy" THEN 2 ELSE 6],
       TermName <- "TERM", TermDefault <- "cygwin",
       EnvCache <- TRUE,
       WinBlocks <- {<<EnvEntry("Path", "native:yy"), EnvEntry("SYSTEMROOT", "x")>>},
       ParentEnvs <- {ParentEnv},
       CallNames <- {"PATH", "FOO"}, CallVals <- {"x", "yy"},
       MaxCalls <- 2, MaxSpawns <- 1,
       calls <- envCalls

K == INSTANCE KillPgrp WITH Procs <- {1, 2, 3}, Me <- 1, Order <- <<2, 1, 3>>,
                            Ctty <- (1 :> 7 @@ 2 :> 7 @@ 3 :> 8),
                            Groups <- {5, 6}, Calls <- {0, 1, 5},
                            MaxEvents <- 2

G == INSTANCE Gtod WITH Threads <- {"t1"}, W <- 3, HB <- 14, FACTOR <- 20000,
                        Boot <- 6, MaxTime <- 10, MaxCalls <- 2,
                        calls <- gtodCalls

L == INSTANCE SigLifecycle WITH Threads <- {"lm", "lo"}, Main <- "lm",
                                Budget <- 1, NRelease <- 20,
                                ws <- lifeWs, pc <- lifePc

\* FILETIMEs of the 4-bit-DWORD Times instance as (hi, lo) pairs.
FT(x) == [hi |-> x \div 16, lo |-> x % 16]
TV(s, u) == [sec |-> s, usec |-> u]

TM == INSTANCE Times WITH DW <- 4, LW <- 4, USPERSEC <- 2, TPU <- 2,
        MSPERSEC <- 2, CLOCKS_PER_SEC <- 2, FACTOR <- 36,
        Kinds <- {"file", "dir", "dir_noopen", "file_noopen", "readonly",
                  "missing"},
        SysTimes <- {FT(0), FT(36), FT(41), FT(100)},
        ProcTimes <- {FT(0), FT(5)},
        RUsages <- {[stime |-> TV(0, 0), utime |-> TV(0, 1)],
                    [stime |-> TV(3, 1), utime |-> TV(1, 0)]},
        NowUs <- {-1, 0, 3},
        Tvs <- {TV(-6, 0), TV(-2, 1), TV(-1, 1), TV(0, 1), TV(3, 1), TV(7, 0)},
        MaxCalls <- 1,
        last <- timesLast, calls <- timesCalls

X == INSTANCE DoExit WITH Threads <- {"x1", "x2"}, NoThread <- "none",
                          PgrpLeader <- TRUE, SidLeader <- FALSE,
                          Title <- TRUE, MaxNest <- 1

\* Tokens of the CYGWIN options, as parse_options splits them.
Tok(pre, name, sep, val) == [pre |-> pre, name |-> name, sep |-> sep, val |-> val]
OptKeyNames == {"default", "parent", "child"}
NoOptKeys == [k \in OptKeyNames |-> NoOptKey]
OptUser == {NoOptKeys,
            [NoOptKeys EXCEPT !["parent"] = <<Tok("", "export", "", ""),
                                              Tok("", "glob", ":", "x")>>]}
OptMachine ==
  {[NoOptKeys EXCEPT !["default"] = <<Tok("no", "ntsec", "", ""), Tok("", "tty", "", "")>>,
                     !["child"] = <<Tok("", "glob", "", ""), Tok("", "title", "", "")>>],
   [NoOptKeys EXCEPT !["parent"] = <<Tok("", "bogus", "", ""), Tok("", "export", "=", "1")>>]}
OptEnv == {NoOptKey, <<Tok("", "title", "=", "1"), Tok("-", "tty", "", ""),
                      Tok("", "error_start", ":", "x")>>}

O == INSTANCE CygwinOpts WITH Strtol <- ("0" :> 0 @@ "1" :> 1 @@ "x" :> 0),
       UserKeys <- OptUser, MachineKeys <- OptMachine, EnvStrings <- OptEnv,
       NoKey <- NoOptKey,
       InPlay <- {"error_start", "export", "glob", "ntsec", "title", "tty"},
       user <- optUser, machine <- optMachine, nt <- optNt, opc <- optPc,
       set <- optSet, rem <- optRem, got <- optGot

GrpLine(n, p, g, m) == [name |-> n, passwd |-> p, gid |-> g, num |-> TRUE, mem |-> m]
GrpFileA ==
  << GrpLine("staff", "S-staff", 20, <<"me", "bob">>), GrpLine("", "", 5, <<>>),
     GrpLine("wheel", "x", 30, <<"me">>), GrpLine("everyone", "S-world", 0, <<>>),
     [GrpLine("broken", "", 0, <<>>) EXCEPT !.num = FALSE] >>
GrpFileB ==
  << GrpLine("users", "S-users", 10, <<>>), GrpLine("staff", "S-staff", 20, <<"bob">>),
     GrpLine("admins", "S-adm", 21, <<"me">>) >>

GrpSetLists == {<<>>, <<20, 20>>, <<30>>, <<10, 21>>}

GR == INSTANCE Groups WITH Files <- {GrpFileA, GrpFileB},
        Sids <- {"S-users", "S-staff", "S-world", "S-adm"}, World <- "S-world",
        TokenSids <- {"S-users", "S-staff", "S-world"}, Pgsid <- "S-users",
        User <- "me", MyGid <- 10, Sizes <- {-1, 0, 1, 2},
        SetLists <- GrpSetLists,
        LookupGids <- {10, -1}, LookupNames <- {"staff"}, NoFile <- NoGrpFile,
        MaxCalls <- 3,
        host <- grpHost, disk <- grpDisk, from <- grpFrom, table <- grpTable,
        pos <- grpPos, supp <- grpSupp, got <- grpGot, last <- grpLast,
        calls <- grpCalls

CW == INSTANCE ChildWait WITH Kids <- {3}, MyPgid <- 1, Waiters <- {"w1", "w2"},
        Patterns <- {-1, 3}, PSIZE <- 3, NZOMBIES <- 2, SigchldIgn <- FALSE,
        MaxWaits <- 1, MaxInterrupts <- 2, MaxClears <- 0, MaxExec <- 0,
        MaxStops <- 0, MaxTerminate <- 1,
        spawned <- cwSpawned, children <- cwChildren, tracked <- cwTracked,
        hproc <- cwHproc, gone <- cwGone, stopsig <- cwStopsig, pgid <- cwPgid,
        zombies <- cwZombies, waitq <- cwWaitq, node <- cwNode, wpc <- cwWpc,
        rpc <- cwRpc, sigchld <- cwSigchld, budget <- cwBudget,
        reported <- cwReported, syncProcSubproc <- cwSync

TY == INSTANCE Tty WITH Procs <- {1, 2, 3}, NTTYS <- 2, NoHwnd <- "null",
        Console <- (1 :> "conX" @@ 2 :> "conY" @@ 3 :> "conX"),
        Parent <- (1 :> 0 @@ 2 :> 0 @@ 3 :> 1), UseTty <- {1, 2, 3},
        MaxKills <- 1, MaxOpens <- 1,
        hwnd <- ttyHwnd, masterPid <- ttyMasterPid, masters <- ttyMasters,
        slaves <- ttySlaves, pc <- ttyPc, ctty <- ttyCtty, freetty <- ttyFree,
        budget <- ttyBudget

TY1 == INSTANCE Tty WITH Procs <- {1, 2, 3}, NTTYS <- 1, NoHwnd <- "null",
        Console <- (1 :> "conX" @@ 2 :> "conY" @@ 3 :> "conX"),
        Parent <- (1 :> 0 @@ 2 :> 0 @@ 3 :> 0), UseTty <- {1, 2, 3},
        MaxKills <- 1, MaxOpens <- 1,
        hwnd <- oneHwnd, masterPid <- oneMasterPid, masters <- oneMasters,
        slaves <- oneSlaves, pc <- onePc, ctty <- oneCtty, freetty <- oneFree,
        budget <- oneBudget

sigVars == vars
timerVars == <<itv, timerActive, wtimer, callpc, callArg, winpc, winElapse,
               msg, msgLate, gen, pendingGen, cancelled,
               lateAlarm, timerCalls, timerGot>>
envVars == <<environ, cache, child, last, envCalls, spawns>>
pgrpVars == <<alive, stopped, pgid, kpc, arg, i, found, killself, res, sentTo,
              stable, events>>
gtodVars == <<now, inited, initimeMs, initimeUs, pc, ft, tick, readAt, result,
              gtodCalls, primedAt>>
lifeVars == <<waitSigInited, ev, hwaitSig, sigLoopWait, lifeWs, catches,
              compMain, compNonmain, lifePc, h, kind, ret, rc, sends, misuse>>
timesVars == <<path, ntTimes, ftAccess, ftWrite, setTo, timesLast, tmsFrom,
               timesCalls>>
exitVars == <<exitState, owner, depth, frames, called, work, exited>>
optVars == <<optUser, optMachine, optNt, optPc, optSet, optRem, optGot, cygwin>>
grpVars == <<grpHost, grpDisk, grpFrom, grpTable, grpPos, grpSupp, grpGot,
             grpLast, grpCalls>>
waitVars == <<cwSpawned, cwChildren, cwTracked, cwHproc, cwGone, cwStopsig,
              cwPgid, cwZombies, cwWaitq, cwNode, cwWpc, cwRpc, cwSigchld,
              cwBudget, cwReported, cwSync>>
twoTtyVars == <<ttyHwnd, ttyMasterPid, ttyMasters, ttySlaves, ttyPc, ttyCtty,
                ttyFree, ttyBudget>>
oneTtyVars == <<oneHwnd, oneMasterPid, oneMasters, oneSlaves, onePc, oneCtty,
                oneFree, oneBudget>>
procVars == <<part, sigVars, timerVars, envVars, pgrpVars, gtodVars, lifeVars,
              timesVars, exitVars, optVars, grpVars, waitVars, twoTtyVars,
              oneTtyVars>>

\* A component that does not move starts in one of its initial states, the
\* same for every run of the others: no process stopped and every one in
\* group 5, the environment from the parent's envp.
ProcInit ==
  /\ part \in {"sig", "timer", "env", "pgrp", "gtod", "life", "times", "exit",
                "opts", "groups", "wait", "tty", "ttyone"}
  /\ Init /\ T!Init /\ G!Init /\ L!Init /\ X!Init /\ CW!Init /\ TY!Init
  /\ TY1!Init
  /\ E!Init
  /\ part # "env" => E!InitFromParent(ParentEnv)
  /\ K!Init
  /\ part # "pgrp" => stopped = [p \in {1, 2, 3} |-> FALSE]
                      /\ pgid = [p \in {1, 2, 3} |-> 5]
  /\ TM!Init
  /\ part # "times" => path = "file" /\ ~ntTimes /\ ftAccess = FT(36)
  /\ O!Init
  /\ part # "opts" => optUser = NoOptKeys /\ ~optNt /\ cygwin["parent"] = NoOptKey
                      /\ optMachine["parent"] = NoOptKey
  /\ GR!Init
  /\ part # "groups" => grpHost = [sec |-> TRUE, ntsec |-> TRUE, setuid |-> FALSE,
                                   uidKnown |-> TRUE] /\ grpDisk = GrpFileA

\* Component c takes a step and the others stay as they are.
Only(c, step) ==
  /\ part = c /\ step
  /\ UNCHANGED part
  /\ c # "sig" => UNCHANGED sigVars
  /\ c # "timer" => UNCHANGED timerVars
  /\ c # "env" => UNCHANGED envVars
  /\ c # "pgrp" => UNCHANGED pgrpVars
  /\ c # "gtod" => UNCHANGED gtodVars
  /\ c # "life" => UNCHANGED lifeVars
  /\ c # "times" => UNCHANGED timesVars
  /\ c # "exit" => UNCHANGED exitVars
  /\ c # "opts" => UNCHANGED optVars
  /\ c # "groups" => UNCHANGED grpVars
  /\ c # "wait" => UNCHANGED waitVars
  /\ c # "tty" => UNCHANGED twoTtyVars
  /\ c # "ttyone" => UNCHANGED oneTtyVars

ProcNext ==
  \/ Only("sig", Next)
  \/ Only("timer", T!Next)
  \/ Only("env", E!Next)
  \/ Only("pgrp", K!Next)
  \/ Only("gtod", G!Next)
  \/ Only("life", L!Next)
  \/ Only("times", TM!Next)
  \/ Only("exit", X!Next)
  \/ Only("opts", O!Next)
  \/ Only("groups", GR!Next)
  \/ Only("wait", CW!Next)
  \/ Only("tty", TY!Next)
  \/ Only("ttyone", TY1!Next)

\* The fairness of SigDelivery (wait_sig, calls under way and remote wakes,
\* Fairness in SigDelivery) in the sig part.  Each is stated over
\* SigDelivery's vars with part = "sig" as a conjunct: the union's steps
\* that are such a step and change those vars are exactly the sig part's,
\* and TLC evaluates it without the other parts' variables.  The threads
\* inside do_exit are scheduled in the same way (DoExit's Spec).  No
\* property of the other parts is a liveness property, so they need none.
ProcSpec ==
  ProcInit /\ [][ProcNext]_procVars
       /\ WF_vars(part = "sig" /\ WaitSigStep /\ ~WaitSigDeliver)
       /\ SF_vars(part = "sig" /\ WaitSigDeliver)
       /\ \A t \in {tm, tn} : WF_vars(part = "sig" /\ ThreadStep(t))
       /\ WF_vars(part = "sig" /\ RemoteWake(pr))
       /\ \A xt \in {"x1", "x2"} : WF_exitVars(part = "exit" /\ X!ExitStep(xt))

-----------------------------------------------------------------------------
\* Every variable of every component holds a value of its type: the type
\* invariants of the twelve modules, one conjunct each.
ProcTypeOK ==
  /\ TypeOK /\ T!TypeOK /\ E!TypeOK /\ K!TypeOK /\ G!TypeOK /\ L!TypeOK
  /\ TM!TypeOK /\ X!TypeOK /\ O!TypeOK /\ GR!TypeOK /\ CW!TypeOK
  /\ TY!TypeOK /\ TY1!TypeOK

\* No signal sent is lost, and every synchronous sig_send returns: the
\* properties NoSignalLost and SyncSendReturns of SigDelivery, checked here
\* as they stand.

\* getenv, setenv, putenv and unsetenv implement a map from names to
\* values (Environ refines EnvMap).
EnvRefinesMap == E!EnvRefinesMap

\* build_env hands a child every variable getenv sees, in its current
\* form, and restores the missing spenvs (Environ).
ChildEnvCurrent == E!ChildEnvCurrent

\* kill_pgrp signals the caller after every other target (KillPgrp).
SelfLast == K!SelfLast

\* kill_pgrp signals every process that stayed a member throughout the call
\* exactly once (KillPgrp).
ReachesStableMembers == K!ReachesStableMembers

\* kill_pgrp returns 0 only when it signalled every match (KillPgrp).
SuccessMeansAllSignalled == K!SuccessMeansAllSignalled

\* gettimeofday called from one thread returns the system time at which it
\* read the counter, across the counter's wrap, until 2^32 ms after prime
\* (Gtod).
GtodAccurateBeforeWrap == G!GtodAccurateBeforeWrap

\* A sig_send notifies wait_sig only after wait_sig made its handles, however
\* sigproc_init's deferred handshake interleaves (SigLifecycle).
ReadyBeforeNotify == L!ReadyBeforeNotify

\* A thread blocked in wait_for_sigthread waits on an event that is set or
\* that wait_sig has still to set (SigLifecycle).
HandshakeWaiterReleased == L!HandshakeWaiterReleased

\* After utime or utimes set a file's times, stat reports the times they
\* were given, for whole seconds at any time_t and for any timeval from
\* 1970 on (Times).
UtimeRoundTrip == TM!UtimeRoundTrip

\* times reports the children's rusage in clock ticks (Times).
ChildTimesInTicks == TM!ChildTimesInTicks

\* do_exit starts each stage's work at most once and in order, however
\* often the exiting thread re-enters it (DoExit).
StagesOnce == X!StagesOnce

\* A call of exit ends the process (DoExit).
ExitCompletes == X!ExitCompletes

\* A child spawned after environ_init has, for every option named in the
\* CYGWIN its parent exported or kept, the parent's value (CygwinOpts).
ExportRoundTrip == O!ExportRoundTrip

\* getgroups returns the groups the process is in, counted and stored as
\* POSIX says, and setgroups32 succeeds exactly when every gid has an
\* entry with a SID and then sets those SIDs (Groups).
GroupListsMatchPosix == GR!GroupListsMatchPosix

\* Two threads in wait4, one for any child and one for the child's pid:
\* the child's termination is returned to at most one of them, however
\* their PROC_WAIT scans, wait_sig's rescans and the reaper interleave
\* (ChildWait).
WaitReapedOnce == CW!ReapedOnce

\* allocate_tty's scan, with its two breaks and the freetty it carries
\* across entries, picks the tty its comment describes, the console's own
\* tty, reused when its master lives, else the lowest free one, on every
\* tty table the model reaches (Tty).  It is a property of the scan alone:
\* it says nothing of two processes racing through allocate_tty.
ScanMatchesReference == TY!ScanMatchesReference /\ TY1!ScanMatchesReference
=============================================================================
