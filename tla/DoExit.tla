-------------------------------- MODULE DoExit --------------------------------
(***************************************************************************)
(* Process exit in winsup/cygwin/dcrt0.cc: do_exit, reached from _exit     *)
(* and from abort (signal.cc) in any thread.  do_exit enters exit_lock, a  *)
(* CRITICAL_SECTION it never leaves, so a second thread calling exit waits *)
(* until the process is gone, while the same thread may enter it again: a  *)
(* signal handler or a fatal error inside one of the exit stages calls     *)
(* exit once more.  The stages run in a fixed order, each guarded by       *)
(* exit_state < stage and setting exit_state before it does its work, so   *)
(* that the nested call skips the stage under way and finishes the exit    *)
(* itself.  myself->exit (n) ends the process and every thread with it.    *)
(*                                                                         *)
(* A stage's work is abstracted to its name; the stages whose work depends *)
(* on the process (the title, the group and session leader hang-ups) take  *)
(* their conditions from constants.  vfork's restore_exit is not modelled. *)
(***************************************************************************)
EXTENDS Integers, Sequences

CONSTANTS
  Threads,       \* threads that may call exit
  NoThread,
  PgrpLeader,    \* has_pgid_children && pid == pgid
  SidLeader,     \* a session leader with a real tty it still owns
  Title,         \* old_title && display_title
  MaxNest        \* nested calls of do_exit in one thread

\* enum exit_states, without ES_NOT_EXITING = 0.
ES_THREADTERM == 1
ES_SIGNAL == 2
ES_CLOSEALL == 3
ES_SIGPROCTERMINATE == 4
ES_TITLE == 5
ES_HUP_PGRP == 6
ES_HUP_SID == 7
ES_TTY_TERMINATE == 8
ES_EVENTS_TERMINATE == 9
Stages == ES_THREADTERM..ES_EVENTS_TERMINATE
MyselfExit == ES_EVENTS_TERMINATE + 1   \* pc of myself->exit (n)

\* Whether stage s does work beyond setting exit_state, for a call whose
\* status has EXIT_REPARENTING set or not.
Works(s, reparenting) ==
  CASE s = ES_SIGNAL -> ~reparenting
    [] s = ES_TITLE -> Title
    [] s = ES_HUP_PGRP -> PgrpLeader
    [] s = ES_HUP_SID -> SidLeader
    [] OTHER -> TRUE

VARIABLES
  exitState,   \* exit_state
  owner,       \* the thread holding exit_lock
  depth,       \* its recursion count
  frames,      \* per thread, its calls of do_exit, innermost last:
               \* [reparenting, pc, body]; pc 0 is EnterCriticalSection,
               \* pc s the test of stage s, body that s's work is under way
  called,      \* threads that have called exit from outside do_exit
  work,        \* history: the stages' work in the order it started
  exited       \* myself->exit has ended the process

vars == <<exitState, owner, depth, frames, called, work, exited>>

Init ==
  /\ exitState = 0 /\ owner = NoThread /\ depth = 0
  /\ frames = [t \in Threads |-> <<>>] /\ called = {}
  /\ work = <<>> /\ exited = FALSE

Top(t) == frames[t][Len(frames[t])]
SetTop(t, f) == frames' = [frames EXCEPT ![t][Len(frames[t])] = f]

\* _exit (n) calls do_exit (n & 0xffff), abort do_exit (1) after the
\* SIGABRT handler returned, exec's hand-off do_exit with EXIT_REPARENTING:
\* from a thread not yet exiting, or from one inside a stage's work.
CallExit(t, reparenting) ==
  /\ ~exited
  /\ \/ t \notin called /\ frames[t] = <<>> /\ called' = called \cup {t}
     \/ /\ frames[t] # <<>> /\ Top(t).body /\ Len(frames[t]) <= MaxNest
        /\ UNCHANGED called
  /\ frames' = [frames EXCEPT ![t] = Append(@, [reparenting |-> reparenting,
                                                 pc |-> 0, body |-> FALSE])]
  /\ UNCHANGED <<exitState, owner, depth, work, exited>>

\* Mutant of Enter: exit_lock taken as a lock that is not recursive.
EnterNotRecursive(t) ==
  /\ ~exited /\ frames[t] # <<>> /\ Top(t).pc = 0
  /\ owner = NoThread
  /\ owner' = t /\ depth' = depth + 1
  /\ SetTop(t, [Top(t) EXCEPT !.pc = ES_THREADTERM])
  /\ UNCHANGED <<exitState, called, work, exited>>

\* EnterCriticalSection (&exit_lock): free, or held by this thread.
Enter(t) ==
  /\ ~exited /\ frames[t] # <<>> /\ Top(t).pc = 0
  /\ owner \in {NoThread, t}
  /\ owner' = t /\ depth' = depth + 1
  /\ SetTop(t, [Top(t) EXCEPT !.pc = ES_THREADTERM])
  /\ UNCHANGED <<exitState, called, work, exited>>

\* Mutant of Stage: exit_state set once the stage's work is done.
StageSetLate(t) ==
  LET s == Top(t).pc IN
  /\ ~exited /\ frames[t] # <<>> /\ s \in Stages /\ ~Top(t).body
  /\ IF exitState < s
     THEN /\ SetTop(t, [Top(t) EXCEPT !.body = TRUE])
          /\ work' = IF Works(s, Top(t).reparenting) THEN Append(work, s) ELSE work
          /\ UNCHANGED exitState
     ELSE SetTop(t, [Top(t) EXCEPT !.pc = s + 1]) /\ UNCHANGED <<exitState, work>>
  /\ UNCHANGED <<owner, depth, called, exited>>

\* if (exit_state < ES_x) { exit_state = ES_x; ... }: a stage not yet
\* begun is marked begun and its work starts; a begun one is skipped.
Stage(t) ==
  LET s == Top(t).pc IN
  /\ ~exited /\ frames[t] # <<>> /\ s \in Stages /\ ~Top(t).body
  /\ IF exitState < s
     THEN /\ exitState' = s
          /\ SetTop(t, [Top(t) EXCEPT !.body = TRUE])
          /\ work' = IF Works(s, Top(t).reparenting) THEN Append(work, s) ELSE work
     ELSE SetTop(t, [Top(t) EXCEPT !.pc = s + 1]) /\ UNCHANGED <<exitState, work>>
  /\ UNCHANGED <<owner, depth, called, exited>>

\* The stage's work returns; do_exit goes on to the next test.
StageDone(t) ==
  /\ ~exited /\ frames[t] # <<>> /\ Top(t).body
  /\ SetTop(t, [Top(t) EXCEPT !.pc = @ + 1, !.body = FALSE])
  /\ UNCHANGED <<exitState, owner, depth, called, work, exited>>

\* myself->exit (n): the process ends, and every thread with it.
MyselfExitStep(t) ==
  /\ ~exited /\ frames[t] # <<>> /\ Top(t).pc = MyselfExit
  /\ exited' = TRUE
  /\ UNCHANGED <<exitState, owner, depth, frames, called, work>>

\* The steps of thread t inside do_exit.
ExitStep(t) == Enter(t) \/ Stage(t) \/ StageDone(t) \/ MyselfExitStep(t)

Next ==
  \E t \in Threads :
    \/ \E r \in BOOLEAN : CallExit(t, r)
    \/ ExitStep(t)

\* Threads are scheduled: one inside do_exit keeps running.  Nothing makes
\* a thread call exit.
Spec == Init /\ [][Next]_vars /\ \A t \in Threads : WF_vars(ExitStep(t))

-----------------------------------------------------------------------------
TypeOK ==
  /\ exitState \in 0..ES_EVENTS_TERMINATE
  /\ owner \in Threads \cup {NoThread} /\ depth \in 0..(MaxNest + 1)
  /\ frames \in [Threads -> Seq([reparenting : BOOLEAN, pc : 0..MyselfExit,
                                 body : BOOLEAN])]
  /\ \A t \in Threads : Len(frames[t]) <= MaxNest + 1
  /\ called \subseteq Threads /\ exited \in BOOLEAN

\* Each exit stage's work starts at most once and in the order of the
\* stages, whichever thread calls exit and however often a thread calls it
\* again from inside a stage: the hang-ups are sent once, the files closed
\* once, and nothing runs after a later stage has begun.
StagesOnce ==
  \A i, j \in 1..Len(work) : i < j => work[i] < work[j]

\* Once a thread has called exit the process ends, even when a stage calls
\* exit again in the same thread or other threads call it too: exit_lock
\* lets its owner back in and holds the others off.
ExitCompletes == (called # {}) ~> exited
=============================================================================
