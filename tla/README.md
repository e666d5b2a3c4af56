# TLA+ models of the Cygwin signal and child-process subsystem

This directory holds TLA+ models of the parts of `src/winsup` that
coordinate threads and processes. Each model is written from the C++ source.
`PROJECT.json` maps every definition that models code to the lines it
translates. It also lists every run with its expected outcome, the mutants
that show each property can fail, the findings, and the hazards.

## The system and its parts

`src/winsup/cygwin` is the Cygwin runtime. The parts that run concurrently are:

* **Signal delivery** (`sigproc.cc`, `signal.cc`, `pinfo.h`).
  * Each process has a signal thread, `wait_sig`. It sleeps on the catch
    semaphores and events: `sigcatch_main`, `sigcatch_nonmain`,
    `sigcatch_nosync`, and the per-process `sigcatch`.
  * It scans the counters of pending signals. Each signal has one counter in
    the shared `pinfo` (`myself->_sigtodo`) and one local counter
    (`local_sigtodo`) for signals sent from inside the process.
  * It hands each signal to `sig_handle` and re-queues the ones that are
    blocked or fail.
  * Senders use `sig_send`: increment a counter, wake `wait_sig`, and for a
    synchronous send wait on `sigcomplete_main`/`sigcomplete_nonmain`.
  * `sigprocmask` and `sigaction` call `sig_dispatch_pending`, which sends
    `__SIGFLUSH` when `pending_signals` is set. `sigaction` with
    `SIG_IGN`/`SIG_DFL` calls `sig_clear` to discard pending instances.
* **Child registry and reaper** (`sigproc.cc`).
  * `proc_subproc(PROC_ADDCHILD)` records a child in `pchildren[]`, up to
    `PSIZE - 1` of them.
  * The reaper thread `wait_subproc` waits on all child handles.
  * When a child ends, `PROC_CHILDTERMINATED` does one of three things:
    * it recognises an exec hand-off, where the pid continues in a new
      Windows process;
    * it moves the child to `zombies[]`, which holds at most `NZOMBIES`;
    * or it reaps the child at once when that table is full or SIGCHLD is
      ignored.
  * The reaper then sends SIGCHLD to its own process.
* **Wait queue** (`sigproc.cc`).
  * `wait4` callers queue a `waitq` node with `PROC_WAIT`.
  * `wait_sig` rescans the queue (`PROC_CLEARWAIT(0)`) each time it takes a
    SIGCHLD. `checkstate` looks for a matching zombie, then for a stopped
    child.
  * `PROC_CLEARWAIT(1)` interrupts every waiter.
* **Process-group broadcast** (`signal.cc`). `kill(-pgid)` and `killpg` go
  through `kill_pgrp`. It walks `winpids`, filters each process by group,
  controlling tty and stop state, and sends to each with `kill_worker`. The
  caller signals itself last.
* **Interval timer** (`window.cc`): `setitimer`, `getitimer`, `alarm` and
  `ualarm` arm a Windows timer (id 1) on a hidden window. The "win" thread
  retrieves `WM_TIMER` with `GetMessage`, and `WndProc` re-arms or stops the
  timer and raises SIGALRM. Both threads share `itv` and `timer_active`
  without a lock.
* **cygserver** (`src/winsup/cygserver`). This is a daemon with a threaded
  request queue (`threaded_queue.cc`) and named-pipe transport. The client
  side is in `cygwin/cygserver_client.cc`. The daemon's submission loops
  accept a connection on a fresh pipe instance (`transport_pipes.cc`
  `accept`) and `add` it to the queue; a worker serves it
  (`handle_request`, `handle`) and closes the instance. A client process
  connects (`connect`, retrying `WaitNamedPipe`), writes its request and
  reads the reply (`send`). Its first request is the version check of
  `cygserver_init`, which decides whether later requests try at all.
* **Environment** (`environ.cc`). `environ_init` builds `__cygwin_environ`
  from the envp a Cygwin parent passes, or from the Windows environment
  block of a first process. In the second case names are upper-cased,
  the `conv_envvars` (PATH, HOME, ...) are converted to POSIX form and
  cached, and `TERM=cygwin` is added. `getenv`, `setenv`, `putenv` and
  `unsetenv` work on that array (`_addenv`, `my_findenv`). `build_env`
  makes the environment a spawned or exec'd process receives. For a
  Windows block it converts the `conv_envvars` back to Windows form. It
  uses the cached form when the cache is current (the `envcache`
  option), and restores the `spenvs` (SYSTEMROOT, ...) that the program
  removed. These calls run sequentially, in one thread at a time.
* **Time of day** (`times.cc`). `gettimeofday` reads the static
  `hires_ms` clock `gtod`. Its first call primes it: it reads the
  millisecond counter `timeGetTime` and the system time, and stores the
  system time in microseconds since 1970. Every call adds the counter's
  milliseconds since then, a DWORD difference. The clock is shared by all
  threads without a lock.
* **Signal thread start and teardown** (`sigproc.cc`, `dcrt0.cc`).
  `sigproc_init`, called by `dll_crt0_1`, creates the manual-reset event
  `wait_sig_inited` and starts `wait_sig`, which makes its handles and then
  sets the event. `sigproc_init` does not wait. The first `sig_send` that
  finds `wait_sig_inited` non-NULL calls `wait_for_sigthread`, which waits
  on the event, NULLs the global and closes the handle; `dll_crt0_1` calls
  it too before `main`. At exit `sigproc_terminate` NULLs `hwait_sig`,
  zeroes `sig_loop_wait`, closes `sigcomplete_main` and releases
  `sigcomplete_nonmain`.
* **Time conversions** (`times.cc`). `utime` and `utimes` turn a `time_t`
  or `timeval` into a FILETIME (100 ns ticks since 1601, two DWORDs) and
  set a file's times through `path_conv`, `CreateFile` and `SetFileTime`;
  `fstat` reads them back through `to_timestruc_t`. `times` turns the
  process times and the children's rusage into clock ticks; `time` and
  `ftime` read the system time. This is arithmetic at fixed widths, where
  sign, truncation and the 1601/1970 offset are easy to get wrong.
* **Process exit** (`dcrt0.cc`). `do_exit`, reached from `_exit` and
  `abort` in any thread, enters `exit_lock`, a CRITICAL_SECTION it never
  leaves, and runs its stages in order, each guarded by
  `exit_state < ES_x` and setting `exit_state` before its work. A stage's
  work may call `exit` again in the same thread (a signal handler, a
  fatal error); the recursive lock lets it in and the nested call skips
  the stage under way. Other threads that call `exit` wait on the lock
  until the process is gone.
* **CYGWIN options** (`environ.cc`). `environ_init` parses the registry's
  options for `default` and for the program (`regopt`: the user's key,
  else the machine's), sets `ntsec` on NT, parses the `CYGWIN` variable,
  and, if the registry gave anything, calls `parse_options (NULL)`, which
  writes every option's last token back into `CYGWIN` when `export` is
  on. A child then starts from that `CYGWIN`.
* **Group database** (`grp.cc`). `/etc/group` is read into a cache on
  first use (`read_group`), which adds a line for the process's own gid
  when the file has none and, on NT, a line for gid -1. `getgrgid32` and
  `getgrnam32` reload it when the file changed; `getgrent32` only at
  position 0. `getgroups` lists the groups of the process token on NT
  with `ntsec`, else the groups that name the user; `setgroups32` turns
  gids into SIDs through the cache and sets them as supplementary groups.
* **tty table** (`tty.cc`). Every Cygwin process shares the table of ttys
  in `cygwin_shared`. A process started from Windows with `CYGWIN=tty`
  calls `tty_init`, which finds its console window and calls
  `allocate_tty`: a tty of that console whose master process lives is
  reused; otherwise the first tty that does not exist is claimed (`init`,
  `sethwnd`) and the process becomes its master (`create_tty_master`,
  which records `master_pid`). There is no lock; the code's FIXME says
  so. A child inherits its parent's ctty. At exit the master waits until
  no slave of its tty is alive, then resets the tty.
* Sequential support code: the rest of startup (`dcrt0.cc`, `init.cc`),
  formatting, and utilities. None of it has concurrency or
  arithmetic worth modelling. `PROJECT.json` lists it with reasons.

The parts interact through signals. The reaper's SIGCHLD goes through
`sig_send`. Its delivery in `wait_sig` triggers the wait-queue scan. A
`sigaction` on SIGCHLD clears the pending SIGCHLD.

## Modules

| Module | Models | MC module |
|---|---|---|
| `SigDelivery` | `sig_send`, `wait_sig`, `sig_dispatch_pending`, `sig_clear`, `sigprocmask`, `sigaction`, `kill` to self | `MC_Process`; `MC_SigDelivery` for the violation runs |
| `ChildWait` | `proc_subproc` (ADDCHILD, CHILDTERMINATED, PROC_WAIT, CLEARWAIT), `checkstate`, `stopped_or_terminated`, `remove_zombie`, `wait_subproc`, the SIGCHLD branch of `wait_sig`, `sig_clear(SIGCHLD)`, `proc_terminate` | `MC_ChildWait`; `MC_Process` for two waiters and `proc_terminate` |
| `Tty` | `tty_init`, `attach_tty`, `allocate_tty`, `create_tty_master`, `connect_tty`, `tty_terminate`, `tty_list::terminate`, `tty_list::init` | `MC_Process` |
| `KillPgrp` | `kill_pgrp`, `kill_worker` | `MC_Process` |
| `ITimer` | `setitimer`, `getitimer`, `alarm`, `ualarm`, the win thread's `GetMessage` loop and `WndProc`'s `WM_TIMER` case | `MC_Process`; `MC_ITimer` for the violation run |
| `ThreadedQueue` | cygserver `threaded_queue::add`, `start`, `stop`, `worker_loop`, `start_routine`, `queue_submission_loop::stop` | `MC_ThreadedQueue` |
| `EnvMap` | what `getenv`/`setenv`/`putenv`/`unsetenv` promise: a map from names to values | refined by `Environ` |
| `Environ` | `environ_init`, `posify`, `my_findenv`, `getenv`, `_addenv`, `setenv`, `putenv`, `unsetenv`, `win_env::add_cache`, `getwinenv`, `spenv::retrieve`, `build_env` | `MC_Process` |
| `Gtod` | `gettimeofday` and `hires_ms::prime`/`usecs` of `times.cc` | `MC_Process`; `MC_Gtod` for the violation run |
| `SigLifecycle` | `sigproc_init`, `wait_for_sigthread`, the start and loop of `wait_sig` (a catch served as one step), `sig_send`'s handshake, notify and completion wait, `dll_crt0_1`'s wait, `do_exit`'s call of `sigproc_terminate` | `MC_Process`; `MC_SigLifecycle` for the violation run |
| `Times` | `utime`, `utimes`, `times`, `time`, `ftime` and the conversions `timeval_to_filetime`, `time_t_to_timeval`, `to_time_t`, `to_timestruc_t`, `__to_clock_t` | `MC_Process` |
| `DoExit` | `do_exit`'s lock and stages, `_exit` | `MC_Process` |
| `CygwinOpts` | `parse_options`, the `known[]` table, `regopt`, and `environ_init`'s order of registry, `ntsec`, `CYGWIN` and export, for a parent and its child | `MC_Process` |
| `Groups` | `parse_group`, `read_group`, the lookups and the enumeration, `getgroups`, `setgroups32` and `initgroups32` | `MC_Process` |
| `MC_Process` | the disjoint union of `SigDelivery`, `SigLifecycle`, `ITimer`, `Environ`, `KillPgrp`, `Gtod`, `Times`, `DoExit`, `CygwinOpts`, `Groups`, `ChildWait` and `Tty` (see below) | itself |
| `Cygserver` | `ThreadedQueue` (by INSTANCE) composed with `transport_layer_pipes::accept`, `close`, `connect`, `client_request::send`, `handle_request`, `handle`, `make_request`, `check_cygserver_available`, `cygserver_init` | `MC_Cygserver` |

### SigDelivery

**State.**
* Counters: `global[s]` is `myself->_sigtodo` and `local[s]` is
  `local_sigtodo`.
* Wake primitives: the semaphore counts and event flags of the catch
  primitives, and the two completion primitives.
* `pendingSignals`, the process mask and the dispositions.
* `wait_sig`'s program counter and scan position, plus each thread's program
  counter inside `sig_send`.

**Actions.**
* Every branch of `wait_sig`'s loop is an action: wake and consume, decrement,
  restore, blocked, re-queue, the flush path, deliver, handler failure,
  failed re-queue, and the `out:`/`out1:` completion.
* Each step of `sig_send` that another actor can interleave with is an
  action: choose the primitive, increment, release or set, then wait or
  time out.
* `sigprocmask`, `sigaction` and `sig_clear` are actions of the calling
  thread.

**Abstraction.** The signal itself is a small number. The handler's
effect is abstracted to "delivered" or "failed".

### ChildWait

**State.**
* `children` and `zombies` are sequences standing for `pchildren[]` and
  `zombies[]`. Removal keeps the swap-with-last of `remove_zombie`.
* `waitq` is the list of queued waiters in order, with a node record for
  each waiter.
* Each child has a generation counter for the Windows processes behind it.
  An exec starts a new generation.
* The reaper's pending notice and the SIGCHLD count.

**Actions.**
* The queue scan is a recursive operator, `ScanFrom`. It follows the C
  loop literally, including the step taken after an unlink.
* The children's own behaviour is modelled from the spec, because that code
  is outside the modelled files: exit, stop, exec and setpgid.
* `ProcTerminate` is `proc_terminate`, called from exec or exit: it takes
  the lock for good, wakes every waiter with `PROC_CLEARWAIT(1)`, drops
  the zombies and children and sets `sync_proc_subproc` to NULL
  (`syncProcSubproc` becomes FALSE). Its `PROC_CLEARWAIT(1)` counts
  against `MaxInterrupts` like a handler's. Afterwards `proc_subproc` returns 1
  doing nothing, a `wait4` fails at once, the reaper's loop exits
  (`ReaperExit`) and wait_sig no longer scans on a SIGCHLD.
* The reaper's turn after a child exits is three steps: `ReaperNotice`
  (`WaitForMultipleObjects` and `CHILDTERMINATED`), `ReaperSend` (the
  `proc_loop_wait` test, which reads `sync_proc_subproc`) and
  `ReaperSignal` (`sig_send` of SIGCHLD). A `proc_terminate` can fall
  between the test and the send, so a SIGCHLD may still be sent after it;
  wait_sig's `PROC_CLEARWAIT` then returns at once, because
  `sync_proc_subproc` is NULL. No run states this, since it does no harm.

### KillPgrp

**State.** The other processes' existence, stop state and group, the
caller's loop index, `found`, `killself`, the result, and the targets
signalled.

**Actions.** One action per loop iteration, one per `kill_worker` call, and
one for the tail after the loop. Other processes may exit, stop or change
group between any two steps.

### ThreadedQueue

**State.**
* `_running`, `_workers_count` and the count of `_requests_sem`.
* The request list, and the owner of `_queue_lock`.
* A program counter for each worker, for each submission-loop thread and
  for the daemon thread that calls `start` and `stop`.

**Actions.**
* `add` is three steps: take the lock, link the request and unlock, then
  release the token. A thread can be killed between any two of them.
* A worker takes a token, then, under the lock, either leaves (the queue is
  stopped) or unlinks the head. The `assert (_requests_head)` failure is
  the `aborted` state.
* `stop` clears `_running`, stops each loop, releases one token per worker,
  and waits for the count to reach zero. An interruptible loop may return
  by itself, or the one-second wait may time out. Either way, a loop thread
  still running at that point is ended with `TerminateThread`, which does
  not release a critical section the thread owns.
* `request_loop` is not in the tree. It is abstracted to "accept one of the
  requests not yet submitted".

### Cygserver

`Cygserver` instantiates `ThreadedQueue` as `TQ` with the pipe instances
as its requests, and adds the transport and the client processes.

**State.**
* Per pipe instance (`1..MaxInsts`, each created at most once): its
  server end (`none`, `open`, `closed`), the client connected to it,
  whether the request was written, the reply (`none`, `written`, `read`),
  and whether the client end is closed.
* `pipe_instance` and the owner of `pipe_instance_lock`.
* Per submission loop, where it is in `accept`; per worker, whether it is
  handling or closing its connection.
* Per client process: its step, whether it is on the version request or a
  later one, its `WaitNamedPipe` retry count, its instance, and its own
  `cygserver_running` and `assume_cygserver` (both are process statics).

**Actions.**
* `accept` is three steps: enter the lock; `CreateNamedPipe` and count the
  instance, then leave; `ConnectNamedPipe`. If the client has already gone
  the last fails, and the instance is closed without being uncounted.
* `request_loop` (not in the tree) hands the connection to `add`.
* A worker runs `handle_request`/`handle` once the client has written or
  gone, writing the reply only to a live client. It then runs `close`:
  the flush waits until the client read the reply or went away, and the
  instance is closed and uncounted under `pipe_instance_lock`.
* After `stop` returns, the daemon exits and its instances close.
* A client runs `cygserver_init` (called from `tty.cc`), which sets
  `cygserver_running` to OK and makes the version request, then one more
  request. `connect` fails at once when no instance exists and
  `assume_cygserver` is clear; otherwise it waits with `WaitNamedPipe` up
  to `MAX_WAIT_NAMED_PIPE_RETRY` times. A failed or incompatible version
  request makes `cygserver_running` UNAVAIL, and the later request then
  fails with ENOSYS without connecting. A client may be killed at any step.

### ITimer

**State.**
* `itv`, `timer_active`, and the Windows timer: armed or not, due or not,
  its period, and which `setitimer` call armed it (a history field; every
  timer has id 1 in the code).
* Where the calling thread is inside `setitimer` (`callpc`) and the value
  it is installing, and where the win thread is inside `WndProc`
  (`winpc`) with the interval it computed.
* The `WM_TIMER` the win thread has retrieved and not yet dispatched.
* History: the arming whose expiry the program still awaits, whether the
  last change was a cancel, and whether SIGALRM was raised after a cancel.

**Abstraction.** Time is reduced to the armed timer becoming due
(`Expire`). `getitimer` reads `GetTickCount () - start_time`; the model
takes it from the times that agree with the timer's state: 0 or just under
the period before the timer is due, the period or just past it once it is
due and its `WM_TIMER` not yet handled (`Elapsed`). `UINT` arithmetic keeps its wrap, at 16 bits in the MC module
so that a 66-second value wraps as 4,295,000 seconds would at 32 bits.
`got` records what the last `getitimer` returned and the `it_value` it
was computed from.

**Actions.** The two threads share `itv` and `timer_active` with no lock,
so each routine is split at the accesses the other thread can come
between. `Setitimer` is the wrap check on the old value and `KillTimer`;
`SetitimerClear` is `timer_active = 0`; `SetitimerAssign` is the new
`itv` and `SetTimer` unless the value is zero, with its failure as an
alternative. `Alarm` and `Ualarm` are its two input shapes. `Getitimer`
is the whole read (it only reads), with `tv_usec = val % 1000` as the
code writes it, and runs only between calls. `GetTimerMessage` retrieves a
due timer's message. `WndProc` is four steps: the test
`wParam == timer_active` with the interval read from `itv`
(`WndProcCheck`), `KillTimer` (`WndProcKill`), the stop or re-arm
(`WndProcSet`), and `raise (SIGALRM)` (`WndProcRaise`). When it re-arms a
periodic timer it stores `SetTimer`'s result in `timer_active` unchecked,
so that call may fail too, leaving the timer off and `timer_active` 0.

### Environ and EnvMap

**State.**
* `environ` is `__cygwin_environ` up to its NULL, as a sequence of
  name/value records. An inherited envp may hold a name twice.
* `cache` is `win_env::posix` of each `conv_envvars` entry.
* `child` is the environment the last `build_env` produced: a set of
  entries, and whether it is a Windows block.
* Call budgets, and `last`, the call just made. `last` is a history
  variable for the refinement.

**Abstraction.** Names and values are strings from small sets. A value
has a length (`VLen`), because `_addenv` overwrites in place only when
the new value fits. The Windows form of a path list `v` is
`Native(v)`, and the conversion back is its inverse. Allocation is
assumed to succeed. `qsort` of the block is left out, because `child` is
a set.

**Actions.**
* `Init` is one of the two branches of `environ_init`.
* `Setenv` and `Putenv` are `_addenv` with `overwrite` 0/1 and -1. Each of
  its four outcomes is a disjunct of `AddEnv`:
  * an existing name is left alone;
  * it is overwritten in place, returning before `add_cache`;
  * the first entry of that name is replaced and cached;
  * a new name gets a slot appended.
* `Unsetenv` removes every entry of the name.
* `BuildEnv` is `build_env` with and without `no_envblock`.

**Refinement.** `EnvMap` is the abstract promise: a map where each call
changes only its own name. `Environ` implements it under the mapping
`env <- [n |-> Getenv(n)]`. The run checks `EnvMap!Spec` as a property.
It fails if `unsetenv` left a duplicate behind, or if a call on one name
changed another.

### Gtod

**State.** `now`, an abstract millisecond clock since 1970; `inited`,
`initime_ms` and `initime_us` of `gtod`; per thread its place in the call,
the FILETIME `prime` read, the counter value `usecs` read, the clock when it
read it (history), the value returned, and its calls left.

**Abstraction.** The counter is `(Boot + now) mod 2^W` and the system time
`FACTOR + now * 10000`. In the MC module a DWORD is 3 bits wide, each half
of a LARGE_INTEGER 14 bits and `FACTOR` 20000, so the counter wraps after
8 ms as the real one does after 49.7 days, and the high half of the
FILETIME is not zero. `prime` raises its thread to TIME_CRITICAL around its
two reads, so they are one step (`PrimeRead`). `inited = 1` and the four
stores to `initime_us` (HighPart, LowPart, `-= FACTOR`, `/= 10`) are
separate steps in program order (`PrimeInited`, `PrimeStore`).
`timeBeginPeriod`, the priority and the timezone do not change the value
and are left out; the split into `tv_sec`/`tv_usec` is lossless for these
values, so the result is the total.

**Actions.** `Call`, `PrimeRead`, `PrimeInited`, `PrimeStep`,
`ReadCounter`, `Return` per thread, and `Tick`.

### SigLifecycle

**State.** The global `wait_sig_inited` (`"ev"` or `"null"`) and the
event behind it (open, set); `hwait_sig`, `sig_loop_wait` (`INFINITE` is
-1) and where `wait_sig` is; the catch count per kind (main, non-main,
nosync); `sigcomplete_main` (open, set) and `sigcomplete_nonmain`'s count.
Per thread: its place, the local `hsig_inited` of `wait_for_sigthread`,
the kind of `sig_send` under way, where to return, the last return value
and its calls left. `misuse` records failed asserts and waits or closes
on a NULL or closed handle.

**Abstraction.** What `wait_sig` does with a signal is `SigDelivery`'s
subject; here serving a catch is one step that signals the matching
completion. A wait on a NULL or closed handle fails at once, as in a
release build; a debug build's assert aborts instead. A wait already
blocked on an unset event stays blocked when the handle is closed. The
60 s completion timeout may expire only after teardown has begun.

**Actions.** `SigprocInit` and `CrtWait` are the main thread's steps in
`dll_crt0_1`. `Call` starts a `sig_send` (main, non-main or nosync);
`Check` is its test of `wait_sig_inited`; `WfsRead`, `WfsWait`, `WfsNull`
and `WfsClose` are the four statements of `wait_for_sigthread`; `Signal`
is the notify with its handle check; `Wait` and `Completion` the wait for
completion; `Timeout` its expiry. `WaitSigStart` and `WaitSigLoop` are
`wait_sig`. `Exit` is a thread's `exit` entering `do_exit`, and
`Terminate` the steps of `sigproc_terminate`.

### Times

**State.** The kind of path `utime` is given (a file, a directory that
does or does not open, a read-only file, a missing one), whether the
system has NT's file times, the file's access and write FILETIMEs, the
times the last call set (history), what the last call returned, the
rusage `times` reported from, and the calls left.

**Abstraction.** A DWORD is `DW` bits and a long `LW` bits; a FILETIME is
a `(hi, lo)` pair of DWORDs, `Split` and `Join` convert a tick count to
and from it, and `Long` stores into a signed long with C's wrap. `CDiv`
and `CRem` are C's truncating division. The unit ratios (`USPERSEC`,
`TPU`, `CLOCKS_PER_SEC`) and `FACTOR` are constants chosen so that a small
instance keeps the real relations: `FACTOR` is more seconds than a long
holds, as 11644473600 s is.

**Actions.** `Utimes` (with a `timeval` pair) and `UtimesNull` (with
`gettimeofday`'s result, which the code does not check) share
`UtimesSet`, whose disjuncts are the outcomes of `path_conv` and
`CreateFile`: missing (-1), a directory that does not open (0, nothing
set), a file that does not open or is read-only (-1), and success.
`Utime` converts through `time_t_to_timeval`. `Times`, `Time` and `Ftime`
are the other calls.

### DoExit

**State.** `exit_state`; the owner of `exit_lock` and its recursion
count; per thread the stack of its `do_exit` calls, each with its
`EXIT_REPARENTING` flag, the stage it is at and whether that stage's work
is under way; the threads that called `exit`; the history of stages whose
work started; whether `myself->exit` ended the process.

**Actions.** `CallExit` is a first call from a thread, or a nested one
from inside a stage's work (at most `MaxNest` deep). `Enter` is
`EnterCriticalSection`: free, or held by the same thread. `Stage` is a
stage's test: `exit_state < s` sets `exit_state` and starts the work,
otherwise the stage is skipped. `StageDone` returns from the work.
`MyselfExitStep` ends the process. Which stages do work beyond setting
`exit_state` (the signal stage without `EXIT_REPARENTING`, the title, the
group and session hang-ups) depends on constants of the process.

### CygwinOpts

**State.** The registry strings, per key name (`default` and each
program) for the user's and the machine's key; whether the system is NT;
per process (parent and child) its step in `environ_init`, the options'
values, each option's remembered token (`known[].remember`),
`got_something_from_registry`, and its `CYGWIN` variable.

**Abstraction.** A string of options is a sequence of tokens, each a
record of prefix (`""`, `"no"`, `"-"`), name, separator (`""`, `"="`,
`":"`) and value; `strtok_r`'s splitting and the case-insensitive match
are abstracted to that. `ParseOptions` folds `ParseToken` over the
sequence (`FoldLeft`). `Apply` is the switch on the disposition
(`justset`, `isfunc`, `set_process_state`), with `strtol` a constant map;
what an `isfunc` option's function does is abstracted to its argument.
`Remembered` is the copy the code keeps: `':'` for the separator, or a
name no option matches when the token also had a prefix (the `':'` lands
inside the name). Only the options the strings use are in play.

**Actions.** `Regopt` for `default` and then for the program (user key,
machine key, or neither), `NtDefault`, `EnvParse`, `Export` (the joined
tokens become `CYGWIN` when `export` is on; the copies are freed either
way), and `Spawn`, which gives the child the parent's `CYGWIN`.

### Groups

**State.** The host (`has_security`, `allow_ntsec`, whether the thread
impersonates, whether the uid is known), the contents of `/etc/group` on
disk and the contents the cache was loaded from, the cache
(`group_buf`), `grp_pos`, the supplementary SIDs, the entry the last
lookup returned, and the last `getgroups` or `setgroups32` call with the
cache it read and its result.

**Abstraction.** A line is a record of name, `gr_passwd`, gid, whether
the gid field parses as a number, and members. A SID is a string, and
`getfromgr`/`addfromgr` succeed on a `gr_passwd` that is one of `Sids`
(they are outside the tree). `pwdgrp::refresh` and `load` are outside
the tree too: the cache is loaded on first use and reloaded on a check
when the file changed. The gid `(unsigned) -1` of the NT line is held as
-1; gids are only compared, and `Gid16` gives the 16-bit store
`getgroups` makes.

**Operators and actions.** `ReadGroup` is `read_group` with its
completion line (named after the group with the primary SID, or
`mkgroup`, or `mkpasswd` for an unknown uid). `Scan`, `Hits` and `Hit`
are `internal_getgroups`' loops as recursive operators: on the token path
once per entry whose SID is a token group other than Everyone, on the
`/etc/group` path once for the own gid or once per member line naming
the user, each count storing while `cnt < gidsetsize` and failing when
it passes a non-zero `gidsetsize`. `SetScan` is `setgroups32`'s loop with
its duplicate skip. Actions: `Getgroups` (token, failed
`GetTokenInformation`, or no token), `Setgroups` (no security, failed
allocation, or the loop), `SetgroupsInval`, `Initgroups`, `Getgrgid`,
`Getgrnam`, `Getgrent`, `Setgrent`, and `EditFile`, a rewrite of
`/etc/group` by another program.

### Tty

**State.** `hwnd` and `masterPid` are the table's `hwnd` and
`master_pid`; `masters` and `slaves` are the processes holding each
tty's master objects and its slave side, from which `Exists` is
`tty::exists` (tty.h is outside the tree; `tty::alive` in `tty.cc` tests
the same named objects). Each process has a program counter, its
`ctty` and the `freetty` `allocate_tty` carries from its scan to its claim.

**Actions.** `Start` is `tty_init` with `attach_tty (-1)`. `AllocScan` is
`allocate_tty`'s loop, a recursive operator `ScanFrom` that follows the C
loop's two breaks; it ends in reuse of the console's tty, in "no free
ttys", or in a claim. `AllocClaim` (`init`, `setsid`, `setpgid`, `sethwnd`)
and `MasterInit` (`create_tty_master`) are separate steps, as the missing
lock leaves them. `OpenTty` is `connect_tty`. `Exit` is `tty_terminate`'s
test; a master then waits for its slaves (`TermWait`), closes its handles
and resets the tty with `t->init` (`TermDone`), then calls `logout` and
the process ends (`TermExit`); another process may run between the
reset and the end. `Kill` is `TerminateProcess` or `api_fatal`.

**Abstraction.** The console-title search is the constant `Console`; the
master's pipes, events and utmp entry are "holding the master objects".

### MC_Process

`SigDelivery`, `SigLifecycle`, `ITimer`, `Environ`, `KillPgrp`, `Gtod`, `Times`, `DoExit`, `CygwinOpts`, `Groups`, `ChildWait` and `Tty` share no state,
and each property mentions one of them. `MC_Process` checks their disjoint union:
`part` is chosen in `Init` and only that component moves (`Only`); the
others stay in one fixed initial state each, so that their initial
choices do not multiply. A
stuttering-insensitive property of one component holds of the union
exactly when it holds of the component alone, so nothing is lost, and the
cost is the sum of the state spaces rather than their product.
`MC_Process` extends `SigDelivery` and instantiates the others: TLC
checks `SyncSendReturns` several times faster on the extended module
than through an `INSTANCE`. So `SigDelivery`'s constants are set in
`Process.cfg`, and the union's own `Init`, `Next` and `vars` are named
`ProcInit`, `ProcNext` and `procVars`. `ProcInit` states each
component's fixed initial choice right after its `Init`, so TLC never
enumerates the product of the components' initial states. `ProcTypeOK`
is the conjunction of every module's `TypeOK`. `Tty` is instantiated
twice, as parts `tty` and `ttyone` (see Bounds).

## Runs

| Run | cfg | Expect | What it shows |
|---|---|---|---|
| sig_duplicate | `SigDelivery_NoDuplicateSignal.cfg` | violation | `sig_clear` between decrement and restore creates a signal |
| sig_unblock | `SigDelivery_UnblockedPendingDelivered.cfg` | violation | An unblock misses a signal being re-queued |
| child_registry | `ChildWait.cfg` | pass | Table consistency, exec hand-off, at-most-once reaping, and exits noticed. A matching waiter is served until a `sigaction` on SIGCHLD discards the pending SIGCHLD (`WaiterServedUnlessCleared`); nothing else strands it |
| child_wait_stranded | `ChildWait_NoWaiterStranded.cfg` | violation | An interrupt-all leaves a skipped waiter blocked forever |
| child_wait_sigchld_cleared | `ChildWait_WaiterServed.cfg` | violation | `sigaction(SIGCHLD, SIG_DFL)` drops the rescan, so the waiter is never served |
| cygserver | `Cygserver.cfg` | pass | The queue's invariants hold with the real transport feeding it; `pipe_instance` never undercounts the open instances; every client request returns; `stop` returns unless a killed loop owns `_queue_lock` or `pipe_instance_lock` |
| threaded_queue_stop_hangs | `ThreadedQueue_StopReturns.cfg` | violation | `stop` kills a loop inside `add` holding `_queue_lock`; the workers block on the lock and `stop` sleeps forever |
| process | `Process.cfg` | pass | Signal delivery with two threads and a remote sender: no counted signal is lost (`NoSignalLost`), and every synchronous send returns (`SyncSendReturns`). Signal thread start and teardown: no `sig_send` notifies before `wait_sig` made its handles (`ReadyBeforeNotify`), and a thread blocked on `wait_sig_inited` waits on an event that is or will be set (`HandshakeWaiterReleased`). kill_pgrp: the caller is signalled last (`SelfLast`), every steady member exactly once (`ReachesStableMembers`), and success means everything found was signalled (`SuccessMeansAllSignalled`). gettimeofday from one thread is exact across the counter's wrap, up to 2^32 ms after prime (`GtodAccurateBeforeWrap`). Environment: the environment calls implement a name-to-value map (`EnvRefinesMap`), including with a duplicate name inherited from the parent. Every variable `getenv` sees reaches a spawned child in its current form, even after an in-place `setenv` left the cache stale; `spenvs` the program removed are restored (`ChildEnvCurrent`). Time conversions: after `utime` or `utimes`, `stat` reports the times set (`UtimeRoundTrip`); `times` reports the children's rusage in clock ticks (`ChildTimesInTicks`). Exit: with two threads calling `exit`, each again from inside a stage, each stage's work starts at most once and in order (`StagesOnce`) and the process ends (`ExitCompletes`). CYGWIN options: every option named in the `CYGWIN` a parent leaves behind has the parent's value in its child, `ntsec` apart (`ExportRoundTrip`). Groups: `getgroups` returns the process's groups, counted and stored as POSIX says, or -1 when the list is too short; `setgroups32` succeeds exactly when every gid has an entry with a SID, and then sets those SIDs (`GroupListsMatchPosix`). Child registry: with two `wait4` callers, for any child and for the child's pid, the child's termination is returned at most once (`WaitReapedOnce`). tty table: on every table the model reaches, `allocate_tty`'s scan picks the tty its comment describes, the console's own tty (reused if its master lives) or else the lowest free one (`ScanMatchesReference`). Every variable has its type (`ProcTypeOK`) |
| sig_handshake_race | `SigLifecycle_HandshakeSound.cfg` | violation | Two threads pass the `wait_sig_inited` check together; the first NULLs the global before the second reads it, so the second finds it NULL and fails `assert (hsig_inited)` (a release build then waits on and closes NULL) (`HandshakeSound`) |
| itimer_stale_message | `ITimer_ArmedWhilePending.cfg` | violation | A `WM_TIMER` of the old timer, retrieved before `setitimer` killed it, kills the new timer: the new alarm never fires |
| itimer_alarm_after_cancel | `ITimer_CancelSilences.cfg` | violation | A cancel (`setitimer` with a zero value) that runs while `WndProc` handles a periodic timer's `WM_TIMER` returns with the timer re-armed by `WndProc`, and SIGALRM follows (`CancelSilences`): `WndProc` passed its test before the `KillTimer`, re-armed after it, and set `timer_active` to 1 again |
| gtod_torn_prime | `Gtod_GtodAccurate.cfg` | violation | A second thread calls `gettimeofday` after the first set `inited` and before it stored `initime_us`: it returns a time near 1970 (`GtodAccurate`) |

Every property in a passing run has a mutant in `PROJECT.json`. A mutant is
a plausible bug in the mapped code, and TLC finds the property violated
under it. Examples: a re-queue that loses the signal, a zombie-limit test
off by one, `remove_zombie` without the swap, and the self-signal sent in
place.

## Bounds

* **SigDelivery** (in `MC_Process`, and `MC_SigDelivery` for the violation runs).
  * Two threads (main and one other) and one remote process. The main and
    non-main completion paths, and the sharing between non-main threads,
    need exactly these.
  * Two user signals, because the scan order and the re-queue need a second
    slot. The SIGCHLD slot and `__SIGFLUSH` are modelled too.
  * Each actor makes one call.
  * The violations appear at depths of 20-40 steps. Within these bounds the
    model reaches about 74,000 distinct states.
* **ChildWait.**
  * Two children.
  * `PSIZE = 3`, so the table's limit is reached. `NZOMBIES = 2`, so the
    early reap is reached.
  * Wait patterns -1, 0 and a pid.
  * One exec and one stop across all children, one interrupt-all, and one
    wait per waiter.
  * Run `child_registry` has one waiter, exec enabled, and one
    `sig_clear` that discards a pending SIGCHLD, and one `proc_terminate`
    (`MaxTerminate = 1`). `MaxInterrupts` bounds every `PROC_CLEARWAIT(1)`,
    a handler's or `proc_terminate`'s, so with `MaxInterrupts = 1` a run
    has an interrupt or a terminate but not both. That is about 360,000
    distinct states in three and a half minutes. `TerminationNoticed` is
    stated as one `<>[]` over all children rather than one leads-to per
    child: both sides are stable, so the two say the same, and the single
    formula halves TLC's liveness work.
  * The violation run `child_wait_stranded` has two waiters. Two is the
    least for which one scan can hand a zombie to one waiter and skip the
    other. Two-waiter safety is checked in `MC_Process` instead, with
    one child, patterns -1 and its pid, one wait per caller, one
    interrupt and one `proc_terminate` (`MaxInterrupts = 2`,
    `MaxTerminate = 1`), without exec, stops or `sig_clear`. The two
    `MC_ChildWait` violation runs set `MaxTerminate = 0`.
* **KillPgrp** (in `MC_Process`).
  * Three processes in a winpids order that puts the caller in the middle,
    so "last" is not trivially true.
  * Two groups, two controlling ttys, and calls with pid 0, pid 1 and a
    group.
  * Two environment events.
* **ITimer.**
  * Values of 0, 1 s, 0.5 s, 999 us (the 1 ms rounding) and 66 s (past
    the 16-bit wrap check), intervals of 0 and 0.5 s.
  * `MC_ITimer` (the two violation runs) allows three calls: an arming
    with an interval, a second `setitimer`, and one more call after a
    stale message or a re-arm. TLC finds the stale-message trace at about
    5,300 states and the alarm after a cancel at about 35,000.
  * In `MC_Process` two calls, `getitimer` included, so that every step
    of both threads, the wrap and the failed `SetTimer`s are reached
    (about 2,800 distinct states alone); the split steps make three calls
    too many for the union's time limit.
* **SigLifecycle.** The main thread and one other. In `MC_Process` each
  makes one `sig_send`, the main thread's either during `dll_crt0_1` or
  after it, and either thread may exit: that reaches the deferred
  handshake from both threads, a send racing teardown and a wait on a
  closed `sigcomplete_main`. About 18,000 distinct states alone.
  The violation run gives each thread two sends and TLC finds the race at
  depth 11.

* **Environ** (in `MC_Process`).
  * Names PATH and Path (one conv_envvar in two cases, which `ucenv`
    merges), SYSTEMROOT (a spenv), FOO and TERM.
  * Values of lengths 1, 2 and 6, so that `setenv` takes both the
    in-place and the replacing path.
  * One Windows block, without TERM and with `Path` in Windows form. One
    parent envp that holds FOO twice.
  * Two calls on PATH or FOO, then one `build_env`. Two calls are enough
    to make the cache stale (a replacing `setenv`, then an in-place one)
    before the spawn. About 1,000 distinct states; the union with ITimer
    about 2,300.
* **Gtod** in `MC_Process`: one thread, two calls (the first primes, the
  second reads directly), `Boot = 6` so the 3-bit counter wraps 2 ms after
  prime, and the clock runs to 10 ms, past the 8 ms at which the elapsed
  count restarts. `GtodAccurateBeforeWrap` states that limit, which the
  code's FIXME admits.
* **Gtod** (the violation run).
  * Two threads with one call each: the least for one thread to read the
    clock while the other primes it. TLC finds the torn read at depth 8.
  * `MaxTime = 10`, past the 8 ms wrap of the 3-bit counter, so the DWORD
    difference wraps too.

* **Times** (in `MC_Process`).
  * A 4-bit DWORD and a 4-bit long, so `time_t` runs from -8 to 7; a
    second is 2 us of 2 ticks each, a clock tick half a second, and 1970
    is tick 36 (9 s, more than the long holds, as 11644473600 s is).
  * Every kind of path, NT or not, one call. `utimes` gets times before
    and after 1970, with and without microseconds, whose low DWORD has its
    top bit set or not: the cases where a sign or a truncation goes wrong.
    `utime` gets every `time_t`.
* **DoExit** (in `MC_Process`). Two threads that may call `exit`, each
  once more from inside a stage (`MaxNest = 1`): a nested call in the
  owner and a waiting call in the other thread, in every order. The
  process is a group leader with a title to restore and no session tty,
  so the stages with work and without both occur.
* **CygwinOpts** (in `MC_Process`). A parent and one child; the user key
  for the parent's program or none; machine keys for `default` (a
  `nontsec` and `tty`) and the child's program, or for the parent's
  program (an unknown option and `export=1`); `CYGWIN` absent or holding
  a value with `=`, a `-` prefix and an `isfunc` value with `:`; NT or
  not. This takes every branch of `regopt` and of the export, and every
  disposition. Tokens with both a prefix and a value are left out of the
  inputs: `parse_options` garbles their remembered copy (a hazard in
  `PROJECT.json`). About 200 distinct states.
* **Groups** (in `MC_Process`). Two `/etc/group` contents: one with
  a line of empty name and one whose gid is not a number (both dropped),
  no line for the own gid (so `read_group` completes it), a group with a
  non-SID `gr_passwd` and the Everyone group; the other with the own gid,
  a group not naming the user, and one with a SID outside the token. The
  host is chosen in `Init` (with and without security, `ntsec`,
  impersonation and a known uid). Three calls: `gidsetsize` -1, 0, 1 and
  2, so a list fits, is exactly full or is one short; `setgroups32` with
  no gid, a gid twice, a gid without a SID and two known gids. About
  11,000 distinct states.
* **Tty** (in `MC_Process`), two instances of three processes, all with
  `CYGWIN=tty`, one kill and one open of `/dev/ttyN` each.
  * Part `tty`: two ttys, processes in consoles X and Y and a child of
    the first. A tty can then be free below a tty of another console,
    the case where the scan must go on past a free tty; the child keeps
    its parent's tty alive as a slave, so the master waits and a killed
    master leaves a tty that exists without one.
  * Part `ttyone`: one tty and three processes in consoles X, Y and X.
    The second process of console X reuses the tty, and the process of
    console Y finds no free tty.
  * Both reach the unlocked claim racing another claim. One instance with
    all of this needs five processes and 2.3 million states. The two
    together are about 10,000 states; the whole union is about 172,000
    states in under three minutes.
* **ThreadedQueue** (the violation run).
  * Two workers, so `stop`'s token count matters.
  * Two submission loops, one interruptible and one not, so both stop
    paths are taken.
  * Two requests, one start and one stop. The daemon starts and stops the
    queue once.
* **Cygserver.**
  * The same two workers and two loops, one start and one stop.
  * Two pipe instances: a second connection can be accepted while the
    first is served, and a client can find all instances busy.
  * One client process making two requests, `MaxRetry = 2` (so a wait can
    fail once and then succeed, or give up), and one kill. A second client
    multiplies the state space beyond the time limit; the retry race
    between two clients is a hazard in `PROJECT.json`.
  * About 50,000 distinct states in under a minute.

## Fairness

* `wait_sig`, the reaper and `kill_pgrp`'s loop are threads or loops that
  run whenever they are enabled. They get weak fairness.
* A `wait4` caller that has been woken returns. `WaitReturn` gets weak
  fairness.
* The cygserver workers, a loop inside `add`, and the daemon thread once
  inside `stop` run when they can. Accepting a request and calling
  `start` or `stop` are not forced.
* In `Cygserver` each thread gets one weak-fairness condition over all of
  its steps: each worker, each submission loop (accept, `add`, exit), the
  daemon thread inside `stop` and its exit, and each client inside a
  request. Starting a request, `start`, `stop` and kills are not forced.
* The win thread runs `GetMessage`/`DispatchMessage` forever, so its
  steps get weak fairness in `ITimer`'s `Spec`; so do the steps inside a
  `setitimer` call once it has begun. The timer becoming due
  is not forced.
* `MC_Process` keeps only `SigDelivery`'s fairness, restricted to the sig
  part: each condition is stated over `SigDelivery`'s `vars` with
  `part = "sig"` as a conjunct, since the union's steps that satisfy it and
  change those variables are exactly the sig part's. No property of the
  other parts is a liveness property, except `DoExit`'s, so their fairness
  would only slow the check. `SigLifecycle`'s own `Spec` gives `wait_sig`
  and each thread weak fairness.
* `DoExit` gives each thread weak fairness on its steps inside `do_exit`
  (`ExitStep`): a thread that has entered `exit` is scheduled until the
  process ends or it blocks on `exit_lock`. Calling `exit` is not forced.
  `MC_Process` states the same per thread, with `part = "exit"`.
* The `wait` and `tty` parts of `MC_Process` need no fairness: their
  properties there are safety properties.
* User calls (kill, sigprocmask, sigaction, wait, spawn) and the children's
  own steps are not fair. A program may stop calling.
* That is also why `Process.cfg` and the ChildWait cfgs set
  `CHECK_DEADLOCK FALSE`: with no calls left, `wait_sig` and the reaper block
  in `WaitForMultipleObjects(INFINITE)`.

## Not modelled, and the plan for later

* **Restarting the cygserver queue.** `queue_submission_loop::start`
  asserts `!_hThread`, which `stop` never clears. After `stop` there are
  no workers. The model starts the queue once, as the daemon does.
* **The wrap check's later consequences** (line 154) are a hazard in
  `PROJECT.json` with a note.
* **`getitimer` on an overdue timer.** `Getitimer` keeps the unsigned
  subtraction of the elapsed ticks (window.cc 211), so a timer past due
  whose `WM_TIMER` is not yet handled reports a huge remaining time in the
  model too. The run budget went to the two timer races, so no run
  checks it; it is a hazard in `PROJECT.json` with a note.
* **Dropped checks.** The synchronous-send FIXME (sigproc.cc 1241) and the
  silent skip of an exited group member in `kill_pgrp` are listed as
  hazards, not runs.
* **cygserver transport gaps.** A failed `CreateNamedPipe` (which only
  sends the loop round again), duplicate-daemon detection, impersonation,
  and the request bodies (shm, `attach_tty`) are left out. The
  `pipe_instance` leak of a failed `ConnectNamedPipe` is reachable in the
  model but only checked in the direction `close` asserts; it is a hazard.
* **`SignalAbstract`.** An abstract "pending set plus delivery" spec, with
  `SigDelivery` shown to refine it through an INSTANCE ... WITH mapping of
  the counters.
* **The tty races.** `allocate_tty` has no lock (its FIXME), and in the
  `Tty` model two processes of different consoles can both find a tty
  free, the later claim then taking over a tty whose master runs. A
  `connect_tty` between the master's last `slave_alive` test and its
  reset attaches to a tty being torn down. Both are reachable and listed
  as one hazard. No run states them, since the code admits the first.
  The tty's pipes and events (`common_init`, `get_event`,
  `create_inuse`) and the slave side in the fhandler code are abstracted.
* **`times.cc` beyond the calls modelled.** `settimeofday` and the
  timezone code (under `#if 0`, or `tzset`'s string handling) are not
  modelled; `hires_us`, the high-resolution clock, is used by no modelled
  call.
* **`CYGWIN` options the round trip leaves out.** `ExportRoundTrip`
  excludes `ntsec`: `environ_init` sets it on NT after the registry, so a
  registry `nontsec` is overridden in the parent but, exported, turns
  `ntsec` off in the child. Its inputs also leave out tokens with both a
  prefix and a value, whose remembered copy gets its `':'` inside the name,
  and a `notty` meant to override an earlier `tty`: `notty` changes
  nothing, because `values[0]` is 0. Stating the round trip for these
  would be violation runs, and the run budget is spent; they are hazards
  in `PROJECT.json`. The overflow of `newbuf[MAX_PATH + 7]` needs
  character counts the model does not keep. `envcache` is a constant in
  `Environ`; in the option table the plain keyword sets it to `false`,
  so `CYGWIN=envcache` turns the cache off.
* **The group database beyond one thread.** `getgrgid`, `getgrnam` and
  `getgrent` share `static` 16-bit buffers (the FIXMEs), and any reload
  frees the member arrays of entries another caller holds; the model has
  one thread. The `srchsid` mode of `internal_getgroups` is called from
  security code outside the tree. A `getgrgid32` between two `getgrent`
  calls reloads a rewritten file under the enumeration, and a failed
  `GetTokenInformation` makes `getgroups` return 0: both are reachable in
  the model and listed as hazards, since no run may state them.
* **The rest of exit.** vfork's `restore_exit` and the atexit lock of
  `cygwin_atexit`/`cygwin_exit` are not modelled; a stage's work is its
  name.
* **The rest of teardown.** `SigLifecycle` models `sigproc_terminate`
  and a sender racing it, with the wait on a closed `sigcomplete_main`
  failing at once. Whether a waiter already blocked on it is released by
  the close is undefined in Win32; the model lets it time out after 60 s,
  and that teardown hazard is in `PROJECT.json` with a note. The loader
  lock and handle reuse after `CloseHandle` are left out;
  `proc_terminate` is in `ChildWait`.
* **`WAIT_FAILED` recovery in `wait_subproc`, the `PID_ORPHANED` flag
  `proc_terminate` sets in its children**, the exit-status encoding, `sig_handle`'s frames,
  `__SIGSTRACE`/`__SIGCOMMUNE` and `main_vfork`. These are not yet modelled.
  `PROJECT.json` marks the components "partly" modelled.
