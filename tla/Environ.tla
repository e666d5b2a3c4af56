------------------------------- MODULE Environ ------------------------------
(***************************************************************************)
(* The environment of a process, winsup/cygwin/environ.cc.  environ is    *)
(* the array __cygwin_environ points to, a sequence of name=value entries. *)
(* The conv_envvars (PATH, HOME, ...) keep a cache of their POSIX value   *)
(* and its Windows form, used when build_env makes the block a spawned    *)
(* process receives.  Names, values and the path conversion are model     *)
(* values: a Windows path list is Native(v) for the POSIX list v.  The    *)
(* functions are called by one thread at a time (environ.cc takes no      *)
(* lock).  Allocation is assumed to succeed, so whether a new slot comes  *)
(* from realloc of lastenviron or from malloc and a copy makes no         *)
(* difference and is left out.                                            *)
(***************************************************************************)
EXTENDS Integers, Sequences, SequencesExt

CONSTANTS
  Names,        \* variable names
  Conv,         \* names of conv_envvars (upper case, matched exactly)
  Spenv,        \* names of spenvs, restored by build_env when missing
  SpenvVal,     \* what spenv::retrieve computes for a missing one, or Unset
  UC,           \* ucenv: the upper-case form of each name
  Vals,         \* values
  VLen,         \* strlen of each value
  TermName, TermDefault,  \* "TERM" and "cygwin"
  EnvCache,     \* the envcache option (CYGWIN=[no]envcache)
  WinBlocks,    \* environment blocks GetEnvironmentStrings may return
  ParentEnvs,   \* envp arrays a Cygwin parent may pass to exec
  CallNames, CallVals,  \* arguments of the calls
  MaxCalls, MaxSpawns

Unset == "unset"

\* cygwin_posix_to_win32_path_list and its inverse.
Native(v) == "native:" \o v
ToPosix(w) == CHOOSE v \in Vals : Native(v) = w

Entry(n, v) == [name |-> n, val |-> v]
Call(c, n, v, ow) == [call |-> c, name |-> n, val |-> v, ow |-> ow]

VARIABLES
  environ,   \* __cygwin_environ up to its NULL terminator
  cache,     \* win_env::posix of each conv_envvars entry, or Unset
  child,     \* the environment the last build_env produced
  last,      \* the call just made (history, for the refinement)
  calls, spawns

vars == <<environ, cache, child, last, calls, spawns>>

\* my_findenv: the offset of the first entry named n, or 0.
Find(n) == SelectInSeq(environ, LAMBDA e : e.name = n)

\* getenv (n).
Getenv(n) == IF Find(n) = 0 THEN Unset ELSE environ[Find(n)].val

\* posify: a conv_envvars entry of the Windows block is converted to POSIX.
Posify(e) == IF e.name \in Conv THEN Entry(e.name, ToPosix(e.val)) ELSE e

\* environ_init without envp, in the first process of a session (one a
\* Cygwin parent started gets envp): names of the Windows block upper-cased
\* by ucenv, conv_envvars posified and cached, TERM=cygwin added when
\* missing.
InitFromWindows(b) ==
  LET uc == [k \in DOMAIN b |-> Entry(UC[b[k].name], b[k].val)]
      e == [k \in DOMAIN uc |-> Posify(uc[k])]
      lastConv(n) == SelectLastInSeq(uc, LAMBDA x : x.name = n)
  IN /\ environ = IF \E k \in DOMAIN uc : uc[k].name = TermName THEN e
                  ELSE Append(e, Entry(TermName, TermDefault))
     /\ cache = [n \in Conv |-> IF lastConv(n) = 0 THEN Unset
                                ELSE ToPosix(uc[lastConv(n)].val)]

\* environ_init with the envp a Cygwin parent passed: taken as it is.
InitFromParent(p) ==
  /\ environ = p
  /\ cache = [n \in Conv |-> Unset]

Init ==
  /\ \/ \E b \in WinBlocks : InitFromWindows(b)
     \/ \E p \in ParentEnvs : InitFromParent(p)
  /\ child = [block |-> FALSE, env |-> {}] /\ last = Call("init", Unset, Unset, 0)
  /\ calls = MaxCalls /\ spawns = MaxSpawns

\* getwinenv (envhere) then add_cache (value): a conv_envvars entry just
\* written is cached.
CacheAfterAdd(n, v) == IF n \in Conv THEN [cache EXCEPT ![n] = v] ELSE cache

\* _addenv (n, v, ow), ow being -1 for putenv.  An existing name is left
\* alone when ow is 0; setenv writes a value no longer than the old one
\* over it in place and returns before the cache is updated; otherwise the
\* first entry of that name is replaced, or a new name gets a slot added at
\* the end, and a conv_envvars entry is cached.
AddEnv(n, v, ow) ==
  LET k == Find(n) IN
  \/ /\ k # 0 /\ ow = 0
     /\ UNCHANGED <<environ, cache>>
  \/ /\ k # 0 /\ ow = 1 /\ VLen[environ[k].val] >= VLen[v]
     /\ environ' = [environ EXCEPT ![k].val = v]
     /\ UNCHANGED cache
  \/ /\ k # 0 /\ (ow = -1 \/ (ow = 1 /\ VLen[environ[k].val] < VLen[v]))
     /\ environ' = [environ EXCEPT ![k] = Entry(n, v)]
     /\ cache' = CacheAfterAdd(n, v)
  \/ /\ k = 0
     /\ environ' = Append(environ, Entry(n, v))
     /\ cache' = CacheAfterAdd(n, v)

Calling == calls > 0 /\ calls' = calls - 1

\* setenv (n, v, ow): _addenv (name, value, !!overwrite).
Setenv(n, v, ow) ==
  /\ Calling
  /\ AddEnv(n, v, ow)
  /\ last' = Call("setenv", n, v, ow)
  /\ UNCHANGED <<child, spawns>>

\* putenv ("n=v"): _addenv (str, eq + 1, -1).
Putenv(n, v) ==
  /\ Calling
  /\ AddEnv(n, v, -1)
  /\ last' = Call("putenv", n, v, -1)
  /\ UNCHANGED <<child, spawns>>

\* Mutant of Unsetenv: one entry removed, as without the while loop.
UnsetenvOnce(n) ==
  /\ Calling
  /\ environ' = IF Find(n) = 0 THEN environ ELSE RemoveAt(environ, Find(n))
  /\ last' = Call("unsetenv", n, Unset, 0)
  /\ UNCHANGED <<cache, child, spawns>>

\* unsetenv (n), and putenv ("n") which calls it: every entry of that name
\* is removed, the rest of the array moved up.
Unsetenv(n) ==
  /\ Calling
  /\ environ' = SelectSeq(environ, LAMBDA e : e.name # n)
  /\ last' = Call("unsetenv", n, Unset, 0)
  /\ UNCHANGED <<cache, child, spawns>>

\* Mutant of Refresh: the cached value is trusted whenever there is one.
RefreshUncached(e) == ~EnvCache \/ cache[e.name] = Unset

\* getwinenv (entry, value) in build_env refreshes the cache when envcache
\* is off, nothing is cached yet, or the cached value differs.
Refresh(e) == ~EnvCache \/ cache[e.name] = Unset \/ cache[e.name] # e.val

\* The value build_env writes to a Windows block: conv->native for a
\* conv_envvars entry, the entry itself otherwise.
BlockVal(e) ==
  IF e.name \in Conv
  THEN Native(IF Refresh(e) THEN e.val ELSE cache[e.name])
  ELSE e.val

\* spenvs no entry matches (strncasematch), added with retrieve's value
\* unless no_envblock.
Missing(noBlock) ==
  {sp \in Spenv : /\ ~noBlock /\ SpenvVal[sp] # Unset
                  /\ \A k \in DOMAIN environ : UC[environ[k].name] # sp}

\* build_env (environ, envblock, envc, no_envblock) for a spawn or exec:
\* every entry is copied (a spenvs entry present is kept as it is), missing
\* spenvs are added, and for a Windows block each entry is converted and
\* the cache refreshed.  qsort orders the block; the model keeps a set, so
\* of several entries of one name any may be the last to refresh it.
BuildEnv(noBlock) ==
  /\ spawns > 0 /\ spawns' = spawns - 1
  /\ child' = [block |-> ~noBlock,
               env |-> {Entry(environ[k].name,
                              IF noBlock THEN environ[k].val
                              ELSE BlockVal(environ[k])) : k \in DOMAIN environ}
                       \cup {Entry(sp, SpenvVal[sp]) : sp \in Missing(noBlock)}]
  /\ IF noBlock THEN UNCHANGED cache
     ELSE cache' \in {c \in [Conv -> Vals \cup {Unset}] :
                        \A n \in Conv :
                          IF Find(n) = 0 THEN c[n] = cache[n]
                          ELSE \E k \in DOMAIN environ :
                                 environ[k].name = n /\ c[n] = environ[k].val}
  /\ UNCHANGED <<environ, last, calls>>

Next ==
  \/ \E n \in CallNames, v \in CallVals, ow \in {0, 1} : Setenv(n, v, ow)
  \/ \E n \in CallNames, v \in CallVals : Putenv(n, v)
  \/ \E n \in CallNames \cup Spenv : Unsetenv(n)
  \/ \E noBlock \in BOOLEAN : BuildEnv(noBlock)

Spec == Init /\ [][Next]_vars

-----------------------------------------------------------------------------
TypeOK ==
  /\ environ \in Seq([name : Names, val : Vals])
  /\ cache \in [Conv -> Vals \cup {Unset}]
  /\ child.block \in BOOLEAN
  /\ child.env \subseteq [name : Names, val : Vals \cup {Native(v) : v \in Vals}]
  /\ calls \in 0..MaxCalls /\ spawns \in 0..MaxSpawns

\* getenv, setenv, putenv and unsetenv implement a map from names to values:
\* getenv returns what the last call on that name set, whatever duplicates
\* an inherited envp held, and a call never changes another name.
EnvMap == INSTANCE EnvMap WITH env <- [n \in Names |-> Getenv(n)]
EnvRefinesMap == EnvMap!Spec

\* The environment build_env hands a child carries every variable getenv
\* sees, in Windows form for a conv_envvars entry of a Windows block even
\* when the cached form is stale (an in-place setenv, an unsetenv), and a
\* Windows block carries every spenvs variable the parent lacks.
ChildEnvCurrent ==
  [][spawns' < spawns =>
       /\ \A n \in Names :
            Getenv(n) # Unset =>
              Entry(n, IF child'.block /\ n \in Conv THEN Native(Getenv(n))
                       ELSE Getenv(n)) \in child'.env
       /\ child'.block =>
            \A sp \in Spenv :
              (SpenvVal[sp] # Unset /\ \A k \in DOMAIN environ :
                                          UC[environ[k].name] # sp)
                => Entry(sp, SpenvVal[sp]) \in child'.env]_vars
=============================================================================
