------------------------------ MODULE CygwinOpts ------------------------------
(***************************************************************************)
(* The CYGWIN options of winsup/cygwin/environ.cc.  environ_init parses    *)
(* the registry's options for "default" and for the program (regopt: the  *)
(* user's key, else the machine's), sets ntsec on NT, parses the CYGWIN    *)
(* variable of the environment, and, when the registry gave something,     *)
(* calls parse_options (NULL), which writes every remembered option back  *)
(* into CYGWIN when "export" is on.  parse_options takes the string apart  *)
(* with strtok_r, strips a "no" or "-" prefix, splits at '=' or ':',       *)
(* applies the option through the known[] table and remembers the token,  *)
(* with ':' for its separator, as that option's latest.  A child process  *)
(* starts from the CYGWIN its parent exported and does the same.           *)
(*                                                                         *)
(* A token is a record of its prefix, name, separator and value; the      *)
(* case-insensitive matching and the strings' spelling are abstracted to   *)
(* names.  What an isfunc option's function does with its argument        *)
(* (codepage_init, glob_init, ...) is abstracted to the argument.  Where  *)
(* parse_options writes the ':' into a copy of the token that kept its    *)
(* prefix, it lands inside the name, which becomes one no option matches:  *)
(* the name "garbled".                                                     *)
(***************************************************************************)
EXTENDS Integers, Sequences, SequencesExt

CONSTANTS
  Strtol,       \* strtol (s, NULL, 0) of each value string
  UserKeys,     \* choices of the user's program_options key: per name
                \* ("default" or a program), its string or NoKey
  MachineKeys,  \* the same for HKEY_LOCAL_MACHINE
  EnvStrings,   \* CYGWIN values the parent's environment may hold, or NoKey
  NoKey,
  InPlay        \* the names of known[] the strings use

O_TEXT == 131072
O_BINARY == 65536
PID_USETTY == 1

\* known[]: the disposition and values[0], values[1] of every option.
Known == [
  binmode |-> [disp |-> "justset", v0 |-> O_TEXT, v1 |-> O_BINARY],
  check_case |-> [disp |-> "isfunc", v0 |-> "NULL", v1 |-> "NULL"],
  codepage |-> [disp |-> "isfunc", v0 |-> "NULL", v1 |-> "NULL"],
  envcache |-> [disp |-> "justset", v0 |-> 1, v1 |-> 0],
  error_start |-> [disp |-> "isfunc", v0 |-> "NULL", v1 |-> "NULL"],
  export |-> [disp |-> "justset", v0 |-> 0, v1 |-> 1],
  forkchunk |-> [disp |-> "isfunc", v0 |-> "NULL", v1 |-> "NULL"],
  glob |-> [disp |-> "isfunc", v0 |-> "NULL", v1 |-> "normal"],
  ntea |-> [disp |-> "justset", v0 |-> 0, v1 |-> 1],
  ntsec |-> [disp |-> "justset", v0 |-> 0, v1 |-> 1],
  smbntsec |-> [disp |-> "justset", v0 |-> 0, v1 |-> 1],
  reset_com |-> [disp |-> "justset", v0 |-> 0, v1 |-> 1],
  strip_title |-> [disp |-> "justset", v0 |-> 0, v1 |-> 1],
  subauth_id |-> [disp |-> "isfunc", v0 |-> "NULL", v1 |-> "NULL"],
  title |-> [disp |-> "justset", v0 |-> 0, v1 |-> 1],
  tty |-> [disp |-> "set_process_state", v0 |-> 0, v1 |-> PID_USETTY],
  winsymlinks |-> [disp |-> "justset", v0 |-> 0, v1 |-> 1]]

\* The order of known[], in which parse_options (NULL) writes them back.
KnownTable == <<"binmode", "check_case", "codepage", "envcache", "error_start",
                "export", "forkchunk", "glob", "ntea", "ntsec", "smbntsec",
                "reset_com", "strip_title", "subauth_id", "title", "tty",
                "winsymlinks">>

\* The options in play.  A token names one of them, or no option at all,
\* so leaving the others out changes nothing parse_options does.
Names == DOMAIN Known \cap InPlay
KnownOrder == SelectSeq(KnownTable, LAMBDA n : n \in Names)

\* The options' values before environ_init: envcache = true, the other
\* flags false or zero, the isfunc options at their built-in defaults.
Defaults ==
  [n \in Names |-> CASE Known[n].disp = "isfunc" -> "builtin"
                     [] n = "envcache" -> 1
                     [] OTHER -> 0]

NoTok == [pre |-> "", name |-> "none", sep |-> "", val |-> ""]

Value(n, istrue) == IF istrue THEN Known[n].v1 ELSE Known[n].v0

\* x & ~v and x | v for the one bit in play, PID_USETTY.
ClearBit(x, v) == IF v = 0 THEN x ELSE 0
SetBit(x, v) == IF v = 0 THEN x ELSE v

\* The option's new value for one token.
Apply(x, tok) ==
  LET n == tok.name
      istrue == tok.pre = ""
      eq == tok.sep # ""
  IN CASE Known[n].disp = "justset" ->
            IF ~istrue \/ ~eq THEN Value(n, istrue) ELSE Strtol[tok.val]
       [] Known[n].disp = "isfunc" ->
            IF ~eq \/ ~istrue THEN Value(n, istrue) ELSE tok.val
       [] Known[n].disp = "set_process_state" ->
            LET cleared == ClearBit(x, Value(n, istrue)) IN
            IF istrue \/ (eq /\ Strtol[tok.val] # 0)
            THEN SetBit(cleared, Value(n, istrue)) ELSE cleared

\* Mutant of Remembered: the separator that was cut off is not put back,
\* so the copy ends at the name.
RememberedCut(tok) ==
  IF tok.sep = "" THEN tok ELSE [tok EXCEPT !.sep = "", !.val = ""]

\* *--eq = ch; p = strdup (keyword_here); if (n > 0) p[n] = ':'; with
\* n = eq - p counted from after the prefix.
Remembered(tok) ==
  CASE tok.sep = "" -> tok
    [] tok.pre = "" -> [tok EXCEPT !.sep = ":"]
    [] OTHER -> [tok EXCEPT !.name = "garbled"]

\* One token of parse_options: an option no entry matches is ignored.
ParseToken(st, tok) ==
  IF tok.name \notin Names THEN st
  ELSE [set |-> [st.set EXCEPT ![tok.name] = Apply(@, tok)],
        rem |-> [st.rem EXCEPT ![tok.name] = Remembered(tok)]]

\* parse_options (buf) for a string of tokens.
ParseOptions(st, buf) == FoldLeft(ParseToken, st, buf)

\* parse_options (NULL): the remembered tokens in known[] order.
ExportString(rem) ==
  LET ns == SelectSeq(KnownOrder, LAMBDA n : rem[n] # NoTok)
  IN [i \in 1..Len(ns) |-> rem[ns[i]]]

Procs == {"parent", "child"}

\* regopt's names: "default" and each process's program name.
KeyNames == {"default"} \cup Procs

VARIABLES
  user,       \* the user's registry strings, per name
  machine,    \* the machine's
  nt,         \* wincap.has_security ()
  opc,        \* per process: the next step of environ_init
  set,        \* per process: the options' values
  rem,        \* per process: known[].remember
  got,        \* per process: got_something_from_registry
  cygwin      \* per process: the CYGWIN variable of its environment

vars == <<user, machine, nt, opc, set, rem, got, cygwin>>

Init ==
  /\ user \in UserKeys /\ machine \in MachineKeys
  /\ nt \in BOOLEAN
  /\ opc = [p \in Procs |-> IF p = "parent" THEN "default" ELSE "unborn"]
  /\ set = [p \in Procs |-> Defaults] /\ rem = [p \in Procs |-> [n \in Names |-> NoTok]]
  /\ got = [p \in Procs |-> FALSE]
  /\ \E s \in EnvStrings : cygwin = [p \in Procs |-> s]

Step(p, from, to) == opc[p] = from /\ opc' = [opc EXCEPT ![p] = to]

Parse(p, buf) ==
  LET st == ParseOptions([set |-> set[p], rem |-> rem[p]], buf) IN
  /\ set' = [set EXCEPT ![p] = st.set] /\ rem' = [rem EXCEPT ![p] = st.rem]

\* regopt (name): the user's key, else the machine's; parse_options on the
\* string found.  environ_init asks for "default", then for the program.
Regopt(p, name, from, to) ==
  /\ Step(p, from, to)
  /\ \/ /\ user[name] # NoKey
        /\ Parse(p, user[name])
        /\ got' = [got EXCEPT ![p] = TRUE]
     \/ /\ user[name] = NoKey /\ machine[name] # NoKey
        /\ Parse(p, machine[name])
        /\ got' = [got EXCEPT ![p] = TRUE]
     \/ /\ user[name] = NoKey /\ machine[name] = NoKey
        /\ UNCHANGED <<set, rem, got>>
  /\ UNCHANGED <<user, machine, nt, cygwin>>

\* if (wincap.has_security ()) allow_ntsec = true;
NtDefault(p) ==
  /\ Step(p, "nt", "env")
  /\ set' = IF nt THEN [set EXCEPT ![p]["ntsec"] = 1] ELSE set
  /\ UNCHANGED <<user, machine, nt, rem, got, cygwin>>

\* The CYGWIN entry of the Windows block, or getenv ("CYGWIN") of an envp
\* passed in, is parsed.
EnvParse(p) ==
  /\ Step(p, "env", "export")
  /\ IF cygwin[p] # NoKey THEN Parse(p, cygwin[p]) ELSE UNCHANGED <<set, rem>>
  /\ UNCHANGED <<user, machine, nt, got, cygwin>>

\* if (got_something_from_registry) parse_options (NULL): the remembered
\* tokens are joined and freed, and with export on set as CYGWIN.
Export(p) ==
  /\ Step(p, "export", "done")
  /\ IF got[p]
     THEN /\ rem' = [rem EXCEPT ![p] = [n \in Names |-> NoTok]]
          /\ cygwin' = IF set[p]["export"] # 0
                       THEN [cygwin EXCEPT ![p] = ExportString(rem[p])]
                       ELSE cygwin
     ELSE UNCHANGED <<rem, cygwin>>
  /\ UNCHANGED <<user, machine, nt, set, got>>

\* The parent spawns a child, which inherits its environment.
Spawn ==
  /\ opc["parent"] = "done" /\ Step("child", "unborn", "default")
  /\ cygwin' = [cygwin EXCEPT !["child"] = cygwin["parent"]]
  /\ UNCHANGED <<user, machine, nt, set, rem, got>>

Next ==
  \/ \E p \in Procs :
       \/ Regopt(p, "default", "default", "prog")
       \/ Regopt(p, p, "prog", "nt")
       \/ NtDefault(p) \/ EnvParse(p) \/ Export(p)
  \/ Spawn

Spec == Init /\ [][Next]_vars

-----------------------------------------------------------------------------
TypeOK ==
  /\ user \in UserKeys /\ machine \in MachineKeys /\ nt \in BOOLEAN /\ got \in [Procs -> BOOLEAN]
  /\ opc \in [Procs -> {"unborn", "default", "prog", "nt", "env", "export", "done"}]
  /\ \A p \in Procs : DOMAIN set[p] = Names /\ DOMAIN rem[p] = Names
  /\ \A p \in Procs, n \in Names : rem[p][n] = NoTok \/ rem[p][n].name \in {n, "garbled"}

\* The options named in the CYGWIN a parent leaves behind, whether it
\* exported its registry settings into it or kept the one it was given.
Named(str) == {str[i].name : i \in DOMAIN str} \cap Names

\* What parse_options (NULL) exports reaches the child unchanged: once both
\* have run environ_init, every option named in the parent's CYGWIN has in
\* the child the value it has in the parent, whatever the child's own
\* registry keys say.  This needs each remembered token to keep its value
\* and its separator, and the last token of an option to win in both.
\* ntsec is left out: environ_init sets it on NT after the registry, so a
\* registry "nontsec" is overridden in the parent but, exported, not in
\* the child.
ExportRoundTrip ==
  (opc["parent"] = "done" /\ opc["child"] = "done" /\ cygwin["parent"] # NoKey) =>
    \A n \in Named(cygwin["parent"]) \ {"ntsec"} :
      set["child"][n] = set["parent"][n]
=============================================================================
