-------------------------------- MODULE Groups --------------------------------
(***************************************************************************)
(* The group database of winsup/cygwin/grp.cc: the cache of /etc/group     *)
(* (parse_group, read_group), the lookups getgrgid32, getgrnam32 and the   *)
(* enumeration getgrent32/setgrent/endgrent, and the group-list calls      *)
(* getgroups, setgroups32 and initgroups32 of one thread.                  *)
(*                                                                         *)
(* A line of /etc/group is a record; its gid field either parses as a     *)
(* number or not.  pwdgrp::refresh and load are not in the tree: the cache *)
(* is loaded on first use and, when the caller asks for a check, reloaded  *)
(* once /etc/group has changed on disk.  A SID is a string; getfromgr and  *)
(* addfromgr succeed on a gr_passwd field that is one of Sids.             *)
(***************************************************************************)
EXTENDS Integers, Sequences, SequencesExt

CONSTANTS
  Files,       \* the contents /etc/group may have: sequences of lines
  Sids,        \* the strings that are well-formed SIDs
  World,       \* well_known_world_sid
  TokenSids,   \* the group SIDs of the process token
  Pgsid,       \* cygheap->user.groups.pgsid
  User,        \* cygheap->user.name ()
  MyGid,       \* myself->gid
  Sizes,       \* gidsetsize arguments of getgroups
  SetLists,    \* grouplist arguments of setgroups32
  LookupGids,  \* arguments of getgrgid32
  LookupNames, \* arguments of getgrnam32
  NoFile,
  MaxCalls

\* The line "????????::-1:" read_group adds on NT: next_num stores -1 in
\* the unsigned gid, 2^32 - 1, held here as -1 (gids are compared only).
PrettyLs == [name |-> "????????", passwd |-> "", gid |-> -1, num |-> TRUE,
             mem |-> <<>>]

\* parse_group: a line with an empty name or a gid that is not a number is
\* not taken into the cache.
ParseGroup(l) == l.name # "" /\ l.num

\* The cached entries whose gr_passwd is the string of SID sid, first
\* one first: internal_getgrsid.
BySid(tbl, sid) == SelectSeq(tbl, LAMBDA e : e.passwd = sid)

\* read_group: load the lines that parse, complete the cache with a line for
\* the process's own gid when none has it, and add pretty_ls on NT.
ReadGroup(lines, host) ==
  LET t == SelectSeq(lines, ParseGroup)
      bySid == BySid(t, Pgsid)
      name == CASE ~host.uidKnown -> "mkpasswd"
                [] host.sec /\ bySid # <<>> -> Head(bySid).name
                [] OTHER -> "mkgroup"
      own == [name |-> name, passwd |-> IF host.sec THEN Pgsid ELSE "",
              gid |-> MyGid, num |-> TRUE, mem |-> <<User>>]
      full == IF \E i \in DOMAIN t : t[i].gid = MyGid THEN t ELSE Append(t, own)
  IN IF host.sec THEN Append(full, PrettyLs) ELSE full

\* The first cached entry with gid g, or <<>>: internal_getgrgid.
ByGid(tbl, g) == SelectSeq(tbl, LAMBDA e : e.gid = g)
FirstByGid(tbl, g) == IF ByGid(tbl, g) = <<>> THEN <<>> ELSE <<Head(ByGid(tbl, g))>>

\* The unsigned short a 32-bit gid is stored into by getgroups.
Gid16(g) == g % 2^16

\* How often internal_getgroups counts entry e: on the token path once when
\* its SID is a token group other than Everyone; on the /etc/group path
\* once when it is the process's gid, else once per member line naming the
\* user.
Occurrences(e, path) ==
  IF path = "token"
  THEN IF e.passwd \in (Sids \cap TokenSids) \ {World} THEN 1 ELSE 0
  ELSE IF e.gid = MyGid THEN 1
       ELSE Len(SelectSeq(e.mem, LAMBDA m : m = User))

\* Mutant of Hit: the error taken when the list is exactly full.
HitFull(st, g, size) ==
  [cnt |-> st.cnt + 1, list |-> IF st.cnt < size THEN Append(st.list, g) ELSE st.list,
   err |-> size # 0 /\ st.cnt + 1 >= size]

\* One counted group: if (cnt < gidsetsize) grouplist[cnt] = gid; ++cnt;
\* if (gidsetsize && cnt > gidsetsize) goto error.
Hit(st, g, size) ==
  [cnt |-> st.cnt + 1, list |-> IF st.cnt < size THEN Append(st.list, g) ELSE st.list,
   err |-> size # 0 /\ st.cnt + 1 > size]

RECURSIVE Hits(_, _, _, _)
Hits(st, g, size, k) ==
  IF k = 0 \/ st.err THEN st ELSE Hits(Hit(st, g, size), g, size, k - 1)

\* The loop of internal_getgroups over internal_getgrent (gidx).
RECURSIVE Scan(_, _, _, _, _)
Scan(tbl, path, size, i, st) ==
  IF i > Len(tbl) \/ st.err THEN st
  ELSE Scan(tbl, path, size, i + 1,
            Hits(st, tbl[i].gid, size, Occurrences(tbl[i], path)))

\* The result of getgroups (gidsetsize, grouplist) on the given path:
\* "tokfail" when GetTokenInformation fails, which returns cnt = 0.
GetgroupsResult(tbl, path, size) ==
  IF size < 0 THEN [ret |-> -1, list |-> <<>>]
  ELSE IF path = "tokfail" THEN [ret |-> 0, list |-> <<>>]
  ELSE LET st == Scan(tbl, path, size, 1, [cnt |-> 0, list |-> <<>>, err |-> FALSE])
       IN [ret |-> IF st.err THEN -1 ELSE st.cnt,
           list |-> IF size > 0 /\ ~st.err THEN [i \in 1..st.cnt |-> Gid16(st.list[i])]
                    ELSE <<>>]

\* The loop of setgroups32: a gid seen before is skipped, any other must
\* have an entry whose SID addfromgr takes, or the call fails.
RECURSIVE SetScan(_, _, _, _)
SetScan(tbl, lst, i, sids) ==
  IF i > Len(lst) THEN [ok |-> TRUE, sids |-> sids]
  ELSE IF \E j \in 1..(i - 1) : lst[j] = lst[i] THEN SetScan(tbl, lst, i + 1, sids)
  ELSE LET e == FirstByGid(tbl, lst[i]) IN
       IF e # <<>> /\ e[1].passwd \in Sids
       THEN SetScan(tbl, lst, i + 1, sids \cup {e[1].passwd})
       ELSE [ok |-> FALSE, sids |-> {}]

VARIABLES
  host,   \* [sec: has_security, ntsec: allow_ntsec, setuid: issetuid,
          \*  uidKnown: myself->uid # UNKNOWN_UID]
  disk,   \* the contents of /etc/group
  from,   \* the contents the cache was loaded from, NoFile before
  table,  \* group_buf [0 .. curr_lines - 1]
  pos,    \* grp_pos
  supp,   \* cygheap->user.groups' supplementary SIDs
  got,    \* the entry the last lookup returned, or <<>>
  last,   \* the last getgroups or setgroups32 call and its result
  calls

vars == <<host, disk, from, table, pos, supp, got, last, calls>>

NoCall == [call |-> "none", size |-> 0, lst |-> <<>>, path |-> "none", tbl |-> <<>>,
           ret |-> 0, list |-> <<>>]

Init ==
  /\ host \in {h \in [sec : BOOLEAN, ntsec : BOOLEAN, setuid : BOOLEAN,
                      uidKnown : BOOLEAN] : h.ntsec => h.sec}
  /\ disk \in Files /\ from = NoFile /\ table = <<>> /\ pos = 0
  /\ supp = {} /\ got = <<>> /\ last = NoCall /\ calls = 0

\* gr.refresh (check): load on first use, reload a changed file on a check.
Refresh(check) ==
  IF from = NoFile \/ (check /\ disk # from)
  THEN table' = ReadGroup(disk, host) /\ from' = disk
  ELSE UNCHANGED <<table, from>>

Call == calls < MaxCalls /\ calls' = calls + 1

\* getgroups: the token of an impersonating thread, else the process token
\* if OpenProcessToken succeeds; without allow_ntsec no token.
Getgroups(size) ==
  /\ Call
  /\ \E path \in IF ~host.ntsec THEN {"groups"}
                 ELSE IF host.setuid THEN {"token", "tokfail"}
                 ELSE {"token", "tokfail", "groups"} :
       /\ IF size < 0 \/ path = "tokfail" THEN UNCHANGED <<table, from>>
          ELSE Refresh(FALSE)
       /\ LET r == GetgroupsResult(table', path, size) IN
          last' = [NoCall EXCEPT !.call = "getgroups", !.size = size, !.path = path,
                                 !.tbl = table', !.ret = r.ret, !.list = r.list]
  /\ UNCHANGED <<host, disk, pos, supp, got>>

\* setgroups32 (ngroups, grouplist), with ngroups = Len (lst) >= 0 and a
\* list; "fail" is the allocation of the SID list failing.
Setgroups(lst) ==
  /\ Call
  /\ \/ ~host.sec
        /\ last' = [NoCall EXCEPT !.call = "setgroups", !.lst = lst]
        /\ UNCHANGED <<table, from, supp>>
     \/ host.sec /\ lst # <<>>
        /\ last' = [NoCall EXCEPT !.call = "setgroups", !.lst = lst,
                                  !.path = "fail", !.ret = -1]
        /\ UNCHANGED <<table, from, supp>>
     \/ /\ host.sec
        /\ IF lst = <<>> THEN UNCHANGED <<table, from>> ELSE Refresh(FALSE)
        /\ LET r == SetScan(table', lst, 1, {}) IN
           /\ last' = [NoCall EXCEPT !.call = "setgroups", !.lst = lst,
                                     !.tbl = table', !.ret = IF r.ok THEN 0 ELSE -1]
           /\ supp' = IF r.ok THEN r.sids ELSE supp
  /\ UNCHANGED <<host, disk, pos, got>>

\* setgroups32 with ngroups < 0, or ngroups > 0 and no list: EINVAL.
SetgroupsInval ==
  /\ Call
  /\ last' = [NoCall EXCEPT !.call = "setgroups", !.path = "inval", !.ret = -1]
  /\ UNCHANGED <<host, disk, from, table, pos, supp, got>>

\* initgroups32: clear_supp on NT.
Initgroups ==
  /\ Call
  /\ supp' = IF host.sec THEN {} ELSE supp
  /\ last' = [NoCall EXCEPT !.call = "initgroups"]
  /\ UNCHANGED <<host, disk, from, table, pos, got>>

\* getgrgid32 (gid): internal_getgrgid (gid, TRUE).
Getgrgid(g) ==
  /\ Call /\ Refresh(TRUE)
  /\ got' = FirstByGid(table', g)
  /\ UNCHANGED <<host, disk, pos, supp, last>>

\* getgrnam32 (name): internal_getgrnam (name, TRUE).
Getgrnam(n) ==
  /\ Call /\ Refresh(TRUE)
  /\ got' = LET s == SelectSeq(table', LAMBDA e : e.name = n)
            IN IF s = <<>> THEN <<>> ELSE <<Head(s)>>
  /\ UNCHANGED <<host, disk, pos, supp, last>>

\* getgrent32: refresh with a check at position 0 only.
Getgrent ==
  /\ Call
  /\ IF pos = 0 THEN Refresh(TRUE) ELSE UNCHANGED <<table, from>>
  /\ IF pos < Len(table') THEN got' = <<table'[pos + 1]>> /\ pos' = pos + 1
     ELSE got' = <<>> /\ UNCHANGED pos
  /\ UNCHANGED <<host, disk, supp, last>>

\* setgrent and endgrent: grp_pos = 0.
Setgrent ==
  /\ Call /\ pos' = 0
  /\ UNCHANGED <<host, disk, from, table, supp, got, last>>

\* /etc/group is rewritten, by mkgroup or an editor.
EditFile ==
  /\ Call /\ disk' \in Files \ {disk}
  /\ UNCHANGED <<host, from, table, pos, supp, got, last>>

Next ==
  \/ \E s \in Sizes : Getgroups(s)
  \/ \E l \in SetLists : Setgroups(l)
  \/ SetgroupsInval \/ Initgroups \/ Getgrent \/ Setgrent \/ EditFile
  \/ \E g \in LookupGids : Getgrgid(g)
  \/ \E n \in LookupNames : Getgrnam(n)

Spec == Init /\ [][Next]_vars

-----------------------------------------------------------------------------
Entry == [name : STRING, passwd : STRING, gid : Int, num : BOOLEAN,
          mem : Seq(STRING)]

TypeOK ==
  /\ host \in [sec : BOOLEAN, ntsec : BOOLEAN, setuid : BOOLEAN, uidKnown : BOOLEAN]
  /\ disk \in Files /\ from \in Files \cup {NoFile}
  /\ table \in Seq(Entry) /\ pos \in Nat
  /\ supp \subseteq Sids /\ got \in Seq(Entry) /\ Len(got) <= 1
  /\ last.call \in {"none", "getgroups", "setgroups", "initgroups"}
  /\ last.ret \in -1..Len(last.tbl) /\ calls \in 0..MaxCalls

\* Whether the process is in the group of entry e, as getgroups reports it:
\* a token group other than Everyone, or the own gid or a group naming the
\* user as a member.
IsMember(e, path) ==
  IF path = "token" THEN e.passwd \in (Sids \cap TokenSids) \ {World}
  ELSE e.gid = MyGid \/ \E i \in DOMAIN e.mem : e.mem[i] = User

MemberGids(tbl, path) ==
  LET s == SelectSeq(tbl, LAMBDA e : IsMember(e, path))
  IN [i \in 1..Len(s) |-> s[i].gid]

\* The group-list calls do what POSIX says of them, over the cache they
\* read.  getgroups (n, list) returns the number of groups the process is
\* in and, for n > 0, stores them in list, or fails with -1 when n is
\* positive and too small; a count loop that stops one group early or
\* late, or stores past n, breaks it.  setgroups32 succeeds exactly when
\* every gid it is given has an entry with a SID, and then the
\* supplementary groups are those entries' SIDs, duplicates taken once.
GroupListsMatchPosix ==
  /\ (last.call = "getgroups" /\ last.path \in {"token", "groups"} /\ last.size >= 0) =>
       LET r == MemberGids(last.tbl, last.path) IN
       IF last.size # 0 /\ Len(r) > last.size THEN last.ret = -1
       ELSE last.ret = Len(r) /\ (last.size > 0 => last.list = r)
  /\ (last.call = "setgroups" /\ last.path = "none" /\ host.sec) =>
       LET known == \A g \in Range(last.lst) :
                      FirstByGid(last.tbl, g) # <<>> /\ FirstByGid(last.tbl, g)[1].passwd \in Sids
       IN /\ last.ret = 0 <=> known
          /\ known => supp = {FirstByGid(last.tbl, g)[1].passwd : g \in Range(last.lst)}
=============================================================================
