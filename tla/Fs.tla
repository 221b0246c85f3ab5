--------------------------------- MODULE Fs ---------------------------------
(***************************************************************************)
(* Inodes, directories and path names: the inode table and directory       *)
(* layers of fs.c, and the system calls of sysfile.c that use them, run by *)
(* several processes.  A step lasts from one point where a process may     *)
(* wait, or gives up itable.lock or an inode's sleep lock, to the next.    *)
(*                                                                         *)
(* The entry of an inode in the inode table is indexed by inode number:    *)
(* iget searches under itable.lock, so there is never a second one.  File  *)
(* contents are in FileData; the transaction around each call (Log) makes  *)
(* its disk writes atomic towards a crash, not towards other calls.        *)
(*                                                                         *)
(* astray records that the code did one of three things it does not look   *)
(* out for: follow ".." out of a removed directory, make an entry in one,  *)
(* or drop, after freeing an inode, the last reference to its next use.    *)
(***************************************************************************)
EXTENDS Integers, Sequences, FiniteSets

CONSTANTS Procs, Nobody,
          Inodes, Root,   \* inodes on disk; 0 is the null pointer
          NINODE,         \* entries of the inode table
          Names,          \* names other than "." and ".."
          Requests        \* system calls made: the call, its path, and link's second path;
                          \* absolute paths start with "/"

Calls == {"open", "creat", "mkdir", "chdir", "link", "unlink"}

ASSUME SetAssumption == Nobody \notin Procs /\ Root \in Inodes /\ 0 \notin Inodes
ASSUME SizeAssumption == NINODE \in Nat
ASSUME RequestAssumption == \A r \in Requests : r.call \in Calls

VARIABLES
  type, nlink, ent,                \* disk: struct dinode, and directory entries
  ref, valid, mtype, mnlink, lk,   \* the inode table; lk is the holder of ip->lock
  panicked, astray,
  cwd, fd,                         \* of each process: directory and an open file, or 0
  pc, call, path, new,             \* position, system call, rest of the path, second path
  ip, dp, tgt,                     \* inode pointers, each with a reference, or 0
  put, ret                         \* argument of iput and where to go on after it

disk == <<type, nlink, ent>>
memory == <<ref, valid, mtype, mnlink, lk>>
args == <<call, path, new>>
regs == <<ip, dp, tgt>>
vars == <<disk, memory, panicked, astray, cwd, fd, pc, args, regs, put, ret>>

Pointers == Inodes \cup {0}
AllNames == Names \cup {".", ".."}
NoEntries == [n \in AllNames |-> 0]

\* Where a process waits for the lock of an inode, and where it goes on.
Locked == [walk |-> "step", o_lock |-> "o_have", cd |-> "cd_have",
           c_dp |-> "c_look", c_old |-> "c_have", c_ip |-> "c_fill",
           l_ip |-> "l_inc", l_dp |-> "l_link", l_bad |-> "l_undo",
           u_dp |-> "u_look", u_ip |-> "u_do"]
Wants(p) == CASE pc[p] \in {"c_dp", "l_dp", "u_dp"} -> dp[p]
              [] pc[p] = "l_bad" -> tgt[p]
              [] OTHER -> ip[p]
PCs == DOMAIN Locked \cup {Locked[s] : s \in DOMAIN Locked}
         \cup {"idle", "m_done", "l_fin", "u_fin", "bad", "iput", "free", "freed", "drop"}

Go(p, s) == pc' = [pc EXCEPT ![p] = s]
Set(f, p, v) == [f EXCEPT ![p] = v]
Running == panicked = 0
-----------------------------------------------------------------------------
(* Faulty variants of the definitions below, kept for the sensitivity      *)
(* checks of the properties; no specification uses them.                   *)

\* iput frees the inode although others use it.
LastRef_Any(i) == valid[i] = 1 /\ mnlink[i] = 0

-----------------------------------------------------------------------------
(* The inode table.                                                        *)

\* iget, and idup of an inode in use.
iget(i) ==
  /\ ref' = [ref EXCEPT ![i] = @ + 1]
  /\ valid' = IF ref[i] = 0 THEN [valid EXCEPT ![i] = 0] ELSE valid
  /\ panicked' = IF ref[i] = 0 /\ Cardinality({j \in Inodes : ref[j] > 0}) >= NINODE
                 THEN 1 ELSE 0

\* ilock, wherever a process calls it: reads the inode if need be.
ilock(p) ==
  LET i == Wants(p) IN
  /\ Running /\ pc[p] \in DOMAIN Locked
  /\ lk[i] = Nobody
  /\ lk' = [lk EXCEPT ![i] = p]
  /\ panicked' = IF ref[i] < 1 \/ (valid[i] = 0 /\ type[i] = "free") THEN 1 ELSE 0
  /\ valid' = [valid EXCEPT ![i] = 1]
  /\ mtype' = IF valid[i] = 0 THEN [mtype EXCEPT ![i] = type[i]] ELSE mtype
  /\ mnlink' = IF valid[i] = 0 THEN [mnlink EXCEPT ![i] = nlink[i]] ELSE mnlink
  /\ Go(p, Locked[pc[p]])
  /\ UNCHANGED <<disk, ref, astray, cwd, fd, args, regs, put, ret>>

iunlock(i) == [lk EXCEPT ![i] = Nobody]

\* Call iput(i), then go on at s.
iput(p, i, s) == Go(p, "iput") /\ put' = [put EXCEPT ![p] = i] /\ ret' = [ret EXCEPT ![p] = s]

\* The system call is over once a pending iput returns.
Over(p) == /\ ip' = Set(ip, p, 0) /\ dp' = Set(dp, p, 0) /\ tgt' = Set(tgt, p, 0)
           /\ call' = Set(call, p, "none") /\ path' = Set(path, p, <<>>)
           /\ new' = Set(new, p, <<>>)

Return(p) == Go(p, ret[p]) /\ put' = Set(put, p, 0) /\ ret' = Set(ret, p, "idle")

\* The test in iput, under itable.lock.
LastRef(i) == ref[i] = 1 /\ valid[i] = 1 /\ mnlink[i] = 0

iput_drop(p) ==
  /\ Running
  /\ pc[p] = "drop" \/ (pc[p] = "iput" /\ ~LastRef(put[p]))
  /\ ref' = [ref EXCEPT ![put[p]] = @ - 1]
  /\ astray' = IF pc[p] = "drop" /\ ref[put[p]] = 1 /\ type[put[p]] # "free" /\ nlink[put[p]] = 0
               THEN 1 ELSE astray
  /\ Return(p)
  /\ UNCHANGED <<disk, valid, mtype, mnlink, lk, panicked, cwd, fd, args, regs>>

\* acquiresleep under itable.lock: if it had to sleep, sched would panic.
iput_lock(p) ==
  LET i == put[p] IN
  /\ Running /\ pc[p] = "iput" /\ LastRef(i)
  /\ panicked' = IF lk[i] = Nobody THEN 0 ELSE 1
  /\ lk' = [lk EXCEPT ![i] = p]
  /\ Go(p, "free")
  /\ UNCHANGED <<disk, ref, valid, mtype, mnlink, astray, cwd, fd, args, regs, put, ret>>

\* itrunc, and iupdate with type 0.
iput_free(p) ==
  LET i == put[p] IN
  /\ Running /\ pc[p] = "free"
  /\ ent' = [ent EXCEPT ![i] = NoEntries]
  /\ type' = [type EXCEPT ![i] = "free"] /\ mtype' = [mtype EXCEPT ![i] = "free"]
  /\ nlink' = [nlink EXCEPT ![i] = mnlink[i]]
  /\ Go(p, "freed")
  /\ UNCHANGED <<ref, valid, mnlink, lk, panicked, astray, cwd, fd, args, regs, put, ret>>

iput_freed(p) ==
  LET i == put[p] IN
  /\ Running /\ pc[p] = "freed"
  /\ valid' = [valid EXCEPT ![i] = 0]
  /\ lk' = iunlock(i)
  /\ Go(p, "drop")
  /\ UNCHANGED <<disk, ref, mtype, mnlink, panicked, astray, cwd, fd, args, regs, put, ret>>
-----------------------------------------------------------------------------
(* Path names.                                                             *)

\* Calls that look up the parent directory: link does so with its second path.
Parent(c, t) == c \in {"creat", "mkdir", "unlink"} \/ (c = "link" /\ t # 0)

\* What the call does with the inode that namex returns.
Found(c, t) == CASE c = "open" -> "o_lock"
                 [] c \in {"creat", "mkdir"} -> "c_dp"
                 [] c = "chdir" -> "cd"
                 [] c = "link" /\ t = 0 -> "l_ip"
                 [] c = "link" /\ t # 0 -> "l_dp"
                 [] c = "unlink" -> "u_dp"

\* The call gives up, with inode i to release.  link has to undo its increment.
Fail(p, i) ==
  IF tgt[p] = 0 THEN iput(p, i, "idle") /\ Over(p)
  ELSE /\ iput(p, i, "l_bad")
       /\ ip' = Set(ip, p, 0) /\ dp' = Set(dp, p, 0) /\ path' = Set(path, p, <<>>)
       /\ UNCHANGED <<call, new, tgt>>

\* The head of namex(pth) in call c, link's second lookup if t # 0.
namex(p, c, t, pth) ==
  LET abs == Head(pth) = "/"
      start == IF abs THEN Root ELSE cwd[p]
      rest == IF abs THEN Tail(pth) ELSE pth
  IN  /\ iget(start)
      /\ IF rest = <<>> /\ Parent(c, t)
         THEN /\ iput(p, start, IF t = 0 THEN "idle" ELSE "l_bad")
              /\ ip' = Set(ip, p, 0) /\ path' = Set(path, p, <<>>)
         ELSE /\ Go(p, IF rest = <<>> THEN Found(c, t) ELSE "walk")
              /\ ip' = Set(ip, p, start) /\ path' = Set(path, p, rest)
              /\ UNCHANGED <<put, ret>>

\* An iteration of namex, ip locked, that fails: not a directory, no such entry.
namex_fail(p) ==
  LET i == ip[p] IN
  /\ Running /\ pc[p] = "step"
  /\ \/ mtype[i] # "dir"
     \/ ent[i][Head(path[p])] = 0 /\ ~(Parent(call[p], tgt[p]) /\ Len(path[p]) = 1)
  /\ lk' = iunlock(i)
  /\ Fail(p, i)
  /\ UNCHANGED <<disk, ref, valid, mtype, mnlink, panicked, astray, cwd, fd>>

\* nameiparent stops one element early.
namex_parent(p) ==
  LET i == ip[p] IN
  /\ Running /\ pc[p] = "step"
  /\ mtype[i] = "dir" /\ Parent(call[p], tgt[p]) /\ Len(path[p]) = 1
  /\ lk' = iunlock(i)
  /\ dp' = Set(dp, p, i) /\ ip' = Set(ip, p, 0)
  /\ Go(p, Found(call[p], tgt[p]))
  /\ UNCHANGED <<disk, ref, valid, mtype, mnlink, panicked, astray, cwd, fd, args, tgt, put, ret>>

namex_next(p) ==
  LET i == ip[p]
      next == ent[i][Head(path[p])]
      rest == Tail(path[p])
  IN  /\ Running /\ pc[p] = "step"
      /\ mtype[i] = "dir" /\ next # 0
      /\ ~(Parent(call[p], tgt[p]) /\ rest = <<>>)
      /\ iget(next)
      /\ lk' = iunlock(i)
      /\ astray' = IF Head(path[p]) = ".." /\ mnlink[i] = 0 THEN 1 ELSE astray
      /\ iput(p, i, IF rest = <<>> THEN Found(call[p], tgt[p]) ELSE "walk")
      /\ ip' = Set(ip, p, next) /\ path' = Set(path, p, rest)
      /\ UNCHANGED <<disk, mtype, mnlink, cwd, fd, call, new, dp, tgt>>

\* A system call begins.
syscall(p) ==
  /\ Running /\ pc[p] = "idle"
  /\ \E r \in Requests :
       /\ r.call \in {"open", "creat"} => fd[p] = 0
       /\ namex(p, r.call, 0, r.path)
       /\ call' = Set(call, p, IF pc'[p] = "iput" THEN "none" ELSE r.call)
       /\ new' = Set(new, p, IF pc'[p] = "iput" THEN <<>> ELSE r.new)
  /\ UNCHANGED <<disk, mtype, mnlink, lk, astray, cwd, fd, dp, tgt>>
-----------------------------------------------------------------------------
(* create: sys_open with O_CREATE, sys_mkdir.                              *)

NewType(c) == IF c = "mkdir" THEN "dir" ELSE "file"

\* create, dp locked: the name is there already.
create_exists(p) ==
  LET d == dp[p] i == ent[d][path[p][1]] IN
  /\ Running /\ pc[p] = "c_look" /\ i # 0
  /\ iget(i)
  /\ lk' = iunlock(d)
  /\ iput(p, d, "c_old")
  /\ ip' = Set(ip, p, i) /\ dp' = Set(dp, p, 0)
  /\ UNCHANGED <<disk, mtype, mnlink, astray, cwd, fd, args, tgt>>

\* ... ip locked: only a file may be created over a file.
create_old(p) ==
  LET i == ip[p] IN
  /\ Running /\ pc[p] = "c_have"
  /\ \/ /\ call[p] = "creat" /\ mtype[i] = "file"
        /\ Go(p, "o_have")
        /\ UNCHANGED <<lk, put, ret, args, regs>>
     \/ /\ ~(call[p] = "creat" /\ mtype[i] = "file")
        /\ lk' = iunlock(i)
        /\ Fail(p, i)
  /\ UNCHANGED <<disk, ref, valid, mtype, mnlink, panicked, astray, cwd, fd>>

\* ialloc takes a free inode and gets it.
ialloc(p) ==
  LET d == dp[p] IN
  /\ Running /\ pc[p] = "c_look" /\ ent[d][path[p][1]] = 0
  /\ \E i \in {j \in Inodes : type[j] = "free"} :
       /\ type' = [type EXCEPT ![i] = NewType(call[p])]
       /\ nlink' = [nlink EXCEPT ![i] = 0]
       /\ iget(i)
       /\ ip' = Set(ip, p, i)
  /\ Go(p, "c_ip")
  /\ UNCHANGED <<ent, mtype, mnlink, lk, astray, cwd, fd, args, dp, tgt, put, ret>>

ialloc_none(p) ==
  /\ Running /\ pc[p] = "c_look" /\ ent[dp[p]][path[p][1]] = 0
  /\ \A i \in Inodes : type[i] # "free"
  /\ Go(p, "bad")
  /\ UNCHANGED <<disk, memory, panicked, astray, cwd, fd, args, regs, put, ret>>

\* create, dp and the new ip locked; dirlink, for "." and ".." too, succeeds.
create_link(p) ==
  LET i == ip[p]
      d == dp[p]
      n == path[p][1]
      links == IF call[p] = "mkdir" THEN nlink[d] + 1 ELSE nlink[d]
  IN
  /\ Running /\ pc[p] = "c_fill"
  /\ ent' = [ent EXCEPT ![d][n] = i,
                        ![i] = IF call[p] = "mkdir"
                               THEN [NoEntries EXCEPT !["."] = i, ![".."] = d]
                               ELSE @]
  /\ nlink' = [nlink EXCEPT ![i] = 1, ![d] = links]
  /\ mnlink' = [mnlink EXCEPT ![i] = 1, ![d] = links]
  /\ astray' = IF mnlink[d] = 0 THEN 1 ELSE astray
  /\ lk' = iunlock(d)
  /\ iput(p, d, IF call[p] = "mkdir" THEN "m_done" ELSE "o_have")
  /\ dp' = Set(dp, p, 0) /\ path' = Set(path, p, <<>>)
  /\ UNCHANGED <<type, ref, valid, mtype, panicked, cwd, fd, call, new, ip, tgt>>

\* A dirlink fails, the disk being full: the inode goes again, then dp.
create_fail(p) ==
  LET i == ip[p] IN
  /\ Running /\ pc[p] = "c_fill"
  /\ nlink' = [nlink EXCEPT ![i] = 0] /\ mnlink' = [mnlink EXCEPT ![i] = 0]
  /\ lk' = iunlock(i)
  /\ iput(p, i, "bad")
  /\ ip' = Set(ip, p, 0)
  /\ UNCHANGED <<type, ent, ref, valid, mtype, panicked, astray, cwd, fd, args, dp, tgt>>

\* bad: iunlockput(dp).
bad(p) ==
  /\ Running /\ pc[p] = "bad"
  /\ lk' = iunlock(dp[p])
  /\ Fail(p, dp[p])
  /\ UNCHANGED <<disk, ref, valid, mtype, mnlink, panicked, astray, cwd, fd>>

sys_mkdir(p) ==
  /\ Running /\ pc[p] = "m_done"
  /\ lk' = iunlock(ip[p])
  /\ Fail(p, ip[p])
  /\ UNCHANGED <<disk, ref, valid, mtype, mnlink, panicked, astray, cwd, fd>>
-----------------------------------------------------------------------------
(* open, close and chdir.                                                  *)

\* sys_open, ip locked: the reference goes to the open file.
sys_open(p) ==
  /\ Running /\ pc[p] = "o_have"
  /\ lk' = iunlock(ip[p])
  /\ fd' = Set(fd, p, ip[p])
  /\ Over(p) /\ Go(p, "idle")
  /\ UNCHANGED <<disk, ref, valid, mtype, mnlink, panicked, astray, cwd, put, ret>>

\* No file structure or descriptor is free, or a directory is opened for writing.
sys_open_fail(p) ==
  /\ Running /\ pc[p] = "o_have"
  /\ lk' = iunlock(ip[p])
  /\ Fail(p, ip[p])
  /\ UNCHANGED <<disk, ref, valid, mtype, mnlink, panicked, astray, cwd, fd>>

\* fileclose of the last reference.
fileclose(p) ==
  /\ Running /\ pc[p] = "idle" /\ fd[p] # 0
  /\ iput(p, fd[p], "idle")
  /\ fd' = Set(fd, p, 0)
  /\ UNCHANGED <<disk, memory, panicked, astray, cwd, args, regs>>

sys_chdir(p) ==
  LET i == ip[p] IN
  /\ Running /\ pc[p] = "cd_have"
  /\ lk' = iunlock(i)
  /\ IF mtype[i] = "dir"
     THEN iput(p, cwd[p], "idle") /\ Over(p) /\ cwd' = Set(cwd, p, i)
     ELSE Fail(p, i) /\ UNCHANGED cwd
  /\ UNCHANGED <<disk, ref, valid, mtype, mnlink, panicked, astray, fd>>
-----------------------------------------------------------------------------
(* link and unlink.                                                        *)

\* sys_link, ip locked: counts the link first, then looks up the new name.
sys_link(p) ==
  LET i == ip[p] IN
  /\ Running /\ pc[p] = "l_inc" /\ mtype[i] # "dir"
  /\ nlink' = [nlink EXCEPT ![i] = @ + 1] /\ mnlink' = [mnlink EXCEPT ![i] = @ + 1]
  /\ lk' = iunlock(i)
  /\ tgt' = Set(tgt, p, i)
  /\ namex(p, "link", i, new[p])
  /\ new' = Set(new, p, <<>>)
  /\ UNCHANGED <<type, ent, mtype, astray, cwd, fd, call, dp>>

sys_link_dir(p) ==
  LET i == ip[p] IN
  /\ Running /\ pc[p] = "l_inc" /\ mtype[i] = "dir"
  /\ lk' = iunlock(i)
  /\ Fail(p, i)
  /\ UNCHANGED <<disk, ref, valid, mtype, mnlink, panicked, astray, cwd, fd>>

\* dirlink(dp, name, ip->inum) with dp locked.
sys_link_dirlink(p) ==
  LET d == dp[p] n == path[p][1] IN
  /\ Running /\ pc[p] = "l_link" /\ ent[d][n] = 0
  /\ ent' = [ent EXCEPT ![d][n] = tgt[p]]
  /\ astray' = IF mnlink[d] = 0 THEN 1 ELSE astray
  /\ lk' = iunlock(d)
  /\ iput(p, d, "l_fin")
  /\ ip' = Set(ip, p, tgt[p]) /\ tgt' = Set(tgt, p, 0)
  /\ dp' = Set(dp, p, 0) /\ path' = Set(path, p, <<>>)
  /\ UNCHANGED <<type, nlink, ref, valid, mtype, mnlink, panicked, cwd, fd, call, new>>

\* dirlink finds the name, or no room: iunlockput(dp), goto bad.
sys_link_fail(p) ==
  /\ Running /\ pc[p] = "l_link"
  /\ lk' = iunlock(dp[p])
  /\ Fail(p, dp[p])
  /\ UNCHANGED <<disk, ref, valid, mtype, mnlink, panicked, astray, cwd, fd>>

sys_link_done(p) ==
  /\ Running /\ pc[p] = "l_fin"
  /\ Fail(p, ip[p])
  /\ UNCHANGED <<disk, memory, panicked, astray, cwd, fd>>

sys_link_bad(p) ==
  LET i == tgt[p] IN
  /\ Running /\ pc[p] = "l_undo"
  /\ nlink' = [nlink EXCEPT ![i] = @ - 1] /\ mnlink' = [mnlink EXCEPT ![i] = @ - 1]
  /\ lk' = iunlock(i)
  /\ iput(p, i, "idle") /\ Over(p)
  /\ UNCHANGED <<type, ent, ref, valid, mtype, panicked, astray, cwd, fd>>

\* sys_unlink, dp locked.
unlink_look(p) ==
  LET n == path[p][1] i == ent[dp[p]][n] IN
  /\ Running /\ pc[p] = "u_look"
  /\ IF n \in {".", ".."} \/ i = 0
     THEN Go(p, "bad") /\ UNCHANGED <<ref, valid, panicked, ip>>
     ELSE Go(p, "u_ip") /\ iget(i) /\ ip' = Set(ip, p, i)
  /\ UNCHANGED <<disk, mtype, mnlink, lk, astray, cwd, fd, args, dp, tgt, put, ret>>

\* isdirempty, for directories.
Removable(i) == mtype[i] = "dir" => \A n \in Names : ent[i][n] = 0

\* ... dp and ip locked: clears the entry, drops dp.
unlink_entry(p) ==
  LET i == ip[p]
      d == dp[p]
      links == IF mtype[i] = "dir" THEN nlink[d] - 1 ELSE nlink[d]
  IN
  /\ Running /\ pc[p] = "u_do" /\ Removable(i)
  /\ panicked' = IF mnlink[i] < 1 THEN 1 ELSE 0
  /\ ent' = [ent EXCEPT ![d][path[p][1]] = 0]
  /\ nlink' = [nlink EXCEPT ![d] = links] /\ mnlink' = [mnlink EXCEPT ![d] = links]
  /\ lk' = iunlock(d)
  /\ iput(p, d, "u_fin")
  /\ dp' = Set(dp, p, 0) /\ path' = Set(path, p, <<>>)
  /\ UNCHANGED <<type, ref, valid, mtype, astray, cwd, fd, call, new, ip, tgt>>

unlink_refuse(p) ==
  LET i == ip[p] IN
  /\ Running /\ pc[p] = "u_do" /\ ~Removable(i)
  /\ panicked' = IF mnlink[i] < 1 THEN 1 ELSE 0
  /\ lk' = iunlock(i)
  /\ iput(p, i, "bad")
  /\ ip' = Set(ip, p, 0)
  /\ UNCHANGED <<disk, ref, valid, mtype, mnlink, astray, cwd, fd, args, dp, tgt>>

\* ... ip locked: counts the link off and drops ip.
unlink_count(p) ==
  LET i == ip[p] IN
  /\ Running /\ pc[p] = "u_fin"
  /\ nlink' = [nlink EXCEPT ![i] = @ - 1] /\ mnlink' = [mnlink EXCEPT ![i] = @ - 1]
  /\ lk' = iunlock(i)
  /\ Fail(p, i)
  /\ UNCHANGED <<type, ent, ref, valid, mtype, panicked, astray, cwd, fd>>
-----------------------------------------------------------------------------
\* mkfs: a root directory.  Every process has it as its current directory.
Init ==
  /\ type = [i \in Inodes |-> IF i = Root THEN "dir" ELSE "free"]
  /\ nlink = [i \in Inodes |-> IF i = Root THEN 1 ELSE 0]
  /\ ent = [i \in Inodes |-> IF i = Root THEN [NoEntries EXCEPT !["."] = Root, ![".."] = Root]
                             ELSE NoEntries]
  /\ ref = [i \in Inodes |-> IF i = Root THEN Cardinality(Procs) ELSE 0]
  /\ valid = [i \in Inodes |-> 0]
  /\ mtype = [i \in Inodes |-> "free"] /\ mnlink = [i \in Inodes |-> 0]
  /\ lk = [i \in Inodes |-> Nobody]
  /\ panicked = 0 /\ astray = 0
  /\ cwd = [p \in Procs |-> Root] /\ fd = [p \in Procs |-> 0]
  /\ pc = [p \in Procs |-> "idle"] /\ call = [p \in Procs |-> "none"]
  /\ path = [p \in Procs |-> <<>>] /\ new = [p \in Procs |-> <<>>]
  /\ ip = [p \in Procs |-> 0] /\ dp = [p \in Procs |-> 0] /\ tgt = [p \in Procs |-> 0]
  /\ put = [p \in Procs |-> 0] /\ ret = [p \in Procs |-> "idle"]

Next == \E p \in Procs :
  \/ syscall(p) \/ ilock(p)
  \/ iput_drop(p) \/ iput_lock(p) \/ iput_free(p) \/ iput_freed(p)
  \/ namex_fail(p) \/ namex_parent(p) \/ namex_next(p)
  \/ create_exists(p) \/ create_old(p) \/ ialloc(p) \/ ialloc_none(p)
  \/ create_link(p) \/ create_fail(p) \/ bad(p) \/ sys_mkdir(p)
  \/ sys_open(p) \/ sys_open_fail(p) \/ fileclose(p) \/ sys_chdir(p)
  \/ sys_link(p) \/ sys_link_dir(p) \/ sys_link_dirlink(p) \/ sys_link_fail(p)
  \/ sys_link_done(p) \/ sys_link_bad(p)
  \/ unlink_look(p) \/ unlink_entry(p) \/ unlink_refuse(p) \/ unlink_count(p)

Spec == Init /\ [][Next]_vars
-----------------------------------------------------------------------------
(* Properties.                                                             *)

TypeOK ==
  /\ type \in [Inodes -> {"free", "dir", "file"}] /\ nlink \in [Inodes -> Nat]
  /\ ent \in [Inodes -> [AllNames -> Pointers]]
  /\ ref \in [Inodes -> Nat] /\ valid \in [Inodes -> {0, 1}]
  /\ mtype \in [Inodes -> {"free", "dir", "file"}] /\ mnlink \in [Inodes -> Nat]
  /\ lk \in [Inodes -> Procs \cup {Nobody}]
  /\ panicked \in {0, 1} /\ astray \in {0, 1}
  /\ cwd \in [Procs -> Inodes] /\ fd \in [Procs -> Pointers]
  /\ pc \in [Procs -> PCs] /\ call \in [Procs -> Calls \cup {"none"}]
  /\ ip \in [Procs -> Pointers] /\ dp \in [Procs -> Pointers]
  /\ tgt \in [Procs -> Pointers] /\ put \in [Procs -> Pointers]
  /\ ret \in [Procs -> PCs]

Holders(f, i) == Cardinality({p \in Procs : f[p] = i})

\* The reference count of an inode table entry is the number of pointers to it
\* that processes hold, whatever path a call took through its failures: too
\* small and iput frees an inode in use, too large and it is never freed.
RefsExact ==
  /\ TypeOK
  /\ \A i \in Inodes :
       ref[i] = Holders(cwd, i) + Holders(fd, i) + Holders(ip, i)
                + Holders(dp, i) + Holders(tgt, i) + Holders(put, i)

\* A process is between clearing the entry of i and counting the link off.
Unlinking(p, i) == ip[p] = i /\ "u_fin" \in {pc[p], ret[p]}
Removed(i) == nlink[i] = 0 \/ \E p \in Procs : Unlinking(p, i)

Entries(i) == {e \in Inodes \X AllNames : /\ type[e[1]] = "dir" /\ ent[e[1]][e[2]] = i
                                          /\ e[2] # "."
                                          /\ e[2] = ".." => ~Removed(e[1])}
Uncounted(i) == Cardinality({p \in Procs : tgt[p] = i \/ Unlinking(p, i)})

\* What the comment on iput says: when the last reference to an inode without
\* links goes, the inode is freed on disk.
LastPutFrees == \A i \in Inodes : type[i] # "free" => nlink[i] > 0 \/ ref[i] > 0


Waiting(p) == pc[p] \in DOMAIN Locked /\ lk[Wants(p)] # Nobody

\* No panic of the inode layer is reached as long as an entry of the inode
\* table is free, and processes locking two inodes (unlink: the directory, then
\* the entry) never wait for each other in a circle.
NeverStuck ==
  astray = 0 =>
    /\ panicked = 1 => Cardinality({i \in Inodes : ref[i] > 0}) > NINODE
    /\ (\E p \in Procs : Waiting(p)) => \E p \in Procs : pc[p] # "idle" /\ ~Waiting(p)
=============================================================================
