-------------------------------- MODULE Files -------------------------------
(***************************************************************************)
(* Open files: the file table (file.c), the descriptors of the processes   *)
(* and the system calls on them (sysfile.c), down to the two ends of a     *)
(* pipe.  A system call is the action "call(p, ..., r)" that holds when    *)
(* process p gets the result r; it blocks by not being enabled.            *)
(*                                                                         *)
(* fileclose is two steps, as ftable.lock is released before pipeclose:    *)
(* a process first closes the files of todo, and for the last reference    *)
(* to one end of a pipe it then has to close that end.  The bytes of a     *)
(* pipe are counted only; Pipe has its reads and writes in detail.         *)
(***************************************************************************)
EXTENDS Integers, Sequences, FiniteSets, FiniteSetsExt

CONSTANTS Procs, NOFILE, NFILE, NPIPE, PIPESIZE

ASSUME FilesAssumption == /\ NOFILE \in Nat \ {0} /\ NFILE \in Nat \ {0} /\ NPIPE \in Nat
                          /\ PIPESIZE \in Nat \ {0} /\ IsFiniteSet(Procs)

VARIABLES file,    \* ftable: the type of a file, and which end of which pipe
          ofile,   \* the descriptors of each process, 0 if closed
          pipe,    \* readopen, writeopen and the number of bytes of a pipe
          todo,    \* the files a process in the kernel has yet to close
          ff       \* the end of a pipe it has yet to close

fileVars == <<file, ofile, pipe, todo, ff>>

Fds == 0..(NOFILE - 1)
FileIds == 1..NFILE
Pipes == 1..NPIPE

\* "from" tells files apart: the place in the shell's command that opened it.
FreeFile == [ref |-> 0, type |-> "none", pipe |-> 0, readable |-> 0, writable |-> 0,
             from |-> <<>>]
FreePipe == [readopen |-> 0, writeopen |-> 0, n |-> 0]
Open(type, i, rd, wr, from) ==
  [ref |-> 1, type |-> type, pipe |-> i, readable |-> rd, writable |-> wr, from |-> from]

NoFds == [fd \in Fds |-> 0]

\* A process that is not inside fileclose.
InUser(p) == todo[p] = <<>> /\ ff[p] = <<>>
-----------------------------------------------------------------------------
(* Faulty variants of the definitions below, kept for the sensitivity      *)
(* checks of the properties; no specification uses them.                   *)

-----------------------------------------------------------------------------

\* filealloc, for k files: the first free entries.
Unused == {f \in FileIds : file[f].ref = 0}
filealloc(k) == [i \in 1..k |-> CHOOSE f \in Unused :
                                  Cardinality({g \in Unused : g < f}) = i - 1]

\* filedup
Duplicated(f) == [file EXCEPT ![f].ref = @ + 1]

\* argfd
argfd(p, fd) == fd \in Fds /\ ofile[p][fd] # 0
FileOf(p, fd) == file[ofile[p][fd]]

\* fdalloc, for k files: the lowest free descriptors.
Closed(p) == {fd \in Fds : ofile[p][fd] = 0}
fdalloc(p, k) == [i \in 1..k |-> CHOOSE fd \in Closed(p) :
                                   Cardinality({g \in Closed(p) : g < fd}) = i - 1]

Failed == UNCHANGED fileVars

sys_dup(p, fd, r) ==
  \/ /\ ~argfd(p, fd) \/ Closed(p) = {}
     /\ r = -1 /\ Failed
  \/ /\ argfd(p, fd) /\ Closed(p) # {}
     /\ r = fdalloc(p, 1)[1]
     /\ ofile' = [ofile EXCEPT ![p][r] = ofile[p][fd]]
     /\ file' = Duplicated(ofile[p][fd])
     /\ UNCHANGED <<pipe, todo, ff>>

sys_close(p, fd, r) ==
  \/ ~argfd(p, fd) /\ r = -1 /\ Failed
  \/ /\ argfd(p, fd) /\ r = 0
     /\ ofile' = [ofile EXCEPT ![p][fd] = 0]
     /\ todo' = [todo EXCEPT ![p] = <<ofile[p][fd]>>]
     /\ UNCHANGED <<file, pipe, ff>>

\* The copy ff of a file whose last reference goes: what is left to close.
LastCopy(f) == IF file[f].type = "pipe" THEN <<file[f].pipe, file[f].writable>> ELSE <<>>

\* fileclose up to the release of ftable.lock.  For an inode the rest is
\* iput, which is in Fs.
fileclose(p) ==
  /\ ff[p] = <<>> /\ todo[p] # <<>>
  /\ LET f == Head(todo[p]) IN
       IF file[f].ref > 1
       THEN file' = [file EXCEPT ![f].ref = @ - 1] /\ UNCHANGED ff
       ELSE file' = [file EXCEPT ![f] = FreeFile] /\ ff' = [ff EXCEPT ![p] = LastCopy(f)]
  /\ todo' = [todo EXCEPT ![p] = Tail(@)]
  /\ UNCHANGED <<ofile, pipe>>

\* The pipe is freed when neither end is open.
CloseEnd(pi, writable) ==
  LET q == IF writable = 1 THEN [pi EXCEPT !.writeopen = 0] ELSE [pi EXCEPT !.readopen = 0]
  IN  IF q.readopen = 0 /\ q.writeopen = 0 THEN FreePipe ELSE q

pipeclose(p) ==
  /\ ff[p] # <<>>
  /\ pipe' = [pipe EXCEPT ![ff[p][1]] = CloseEnd(@, ff[p][2])]
  /\ ff' = [ff EXCEPT ![p] = <<>>]
  /\ UNCHANGED <<file, ofile, todo>>

\* sys_open of a path that exists or is created; a file that gets no
\* descriptor is closed again.
sys_open(p, type, rd, wr, from, r) ==
  \/ r = -1 /\ Failed
  \/ /\ Unused # {} /\ Closed(p) # {}
     /\ r = fdalloc(p, 1)[1]
     /\ LET f == filealloc(1)[1] IN
          /\ file' = [file EXCEPT ![f] = Open(type, 0, rd, wr, from)]
          /\ ofile' = [ofile EXCEPT ![p][r] = f]
     /\ UNCHANGED <<pipe, todo, ff>>

\* pipealloc: two files and a page, or nothing.
FreePipes == {i \in Pipes : pipe[i] = FreePipe}
Pipealloc(i, f, from) ==
  /\ file' = [file EXCEPT ![f[1]] = Open("pipe", i, 1, 0, from),
                          ![f[2]] = Open("pipe", i, 0, 1, from)]
  /\ pipe' = [pipe EXCEPT ![i] = [readopen |-> 1, writeopen |-> 1, n |-> 0]]

\* r is the pair of descriptors.  Without descriptors for both, or without
\* room for them in user memory (faulty), both files are closed again.
sys_pipe(p, from, faulty, r) ==
  \/ /\ Cardinality(Unused) < 2 \/ FreePipes = {}
     /\ r = <<-1, -1>> /\ Failed
  \/ /\ Cardinality(Unused) >= 2 /\ FreePipes # {}
     /\ LET f == filealloc(2) IN
          /\ Pipealloc(Min(FreePipes), f, from)
          /\ IF Cardinality(Closed(p)) >= 2 /\ ~faulty
             THEN /\ r = fdalloc(p, 2)
                  /\ ofile' = [ofile EXCEPT ![p][r[1]] = f[1], ![p][r[2]] = f[2]]
                  /\ UNCHANGED todo
             ELSE /\ r = <<-1, -1>>
                  /\ todo' = [todo EXCEPT ![p] = f]
                  /\ UNCHANGED ofile
     /\ UNCHANGED ff

\* piperead and pipewrite of one byte.
piperead(i, r) ==
  \/ /\ pipe[i].n > 0 /\ r = 1
     /\ pipe' = [pipe EXCEPT ![i].n = @ - 1]
  \/ pipe[i].n = 0 /\ pipe[i].writeopen = 0 /\ r = 0 /\ UNCHANGED pipe

pipewrite(i, r) ==
  \/ pipe[i].readopen = 0 /\ r = -1 /\ UNCHANGED pipe
  \/ /\ pipe[i].readopen = 1 /\ pipe[i].n < PIPESIZE /\ r = 1
     /\ pipe' = [pipe EXCEPT ![i].n = @ + 1]

\* sys_read and sys_write of one byte; files and devices may have no more,
\* or no room.
sys_read(p, fd, r) ==
  /\ \/ /\ ~argfd(p, fd) \/ FileOf(p, fd).readable = 0
        /\ r = -1 /\ UNCHANGED pipe
     \/ /\ argfd(p, fd) /\ FileOf(p, fd).readable = 1
        /\ IF FileOf(p, fd).type = "pipe" THEN piperead(FileOf(p, fd).pipe, r)
           ELSE r \in {0, 1} /\ UNCHANGED pipe
  /\ UNCHANGED <<file, ofile, todo, ff>>

sys_write(p, fd, r) ==
  /\ \/ /\ ~argfd(p, fd) \/ FileOf(p, fd).writable = 0
        /\ r = -1 /\ UNCHANGED pipe
     \/ /\ argfd(p, fd) /\ FileOf(p, fd).writable = 1
        /\ IF FileOf(p, fd).type = "pipe" THEN pipewrite(FileOf(p, fd).pipe, r)
           ELSE r \in {-1, 1} /\ UNCHANGED pipe
  /\ UNCHANGED <<file, ofile, todo, ff>>

\* sys_fstat: a pipe has no inode.
sys_fstat(p, fd, r) ==
  /\ r = IF argfd(p, fd) /\ FileOf(p, fd).type # "pipe" THEN 0 ELSE -1
  /\ UNCHANGED fileVars

\* fork: the child shares every open file.
Sharers(p, f) == Cardinality({fd \in Fds : ofile[p][fd] = f})
fork_files(p, c) ==
  /\ ofile' = [ofile EXCEPT ![c] = ofile[p]]
  /\ file' = [f \in FileIds |-> [file[f] EXCEPT !.ref = @ + Sharers(p, f)]]
  /\ UNCHANGED <<pipe, todo, ff>>

\* exit: close all open files.
RECURSIVE OpenFrom(_, _)
OpenFrom(fds, fd) ==
  IF fd = NOFILE THEN <<>>
  ELSE (IF fds[fd] = 0 THEN <<>> ELSE <<fds[fd]>>) \o OpenFrom(fds, fd + 1)

exit_files(p) ==
  /\ todo' = [todo EXCEPT ![p] = OpenFrom(ofile[p], 0)]
  /\ ofile' = [ofile EXCEPT ![p] = NoFds]
  /\ UNCHANGED <<file, pipe, ff>>

\* One file is open in process p: the console, as 0.
FilesInit(p) ==
  /\ file = [f \in FileIds |-> IF f = 1 THEN Open("device", 0, 1, 1, <<0>>) ELSE FreeFile]
  /\ ofile = [q \in Procs |-> IF q = p THEN [NoFds EXCEPT ![0] = 1] ELSE NoFds]
  /\ pipe = [i \in Pipes |-> FreePipe]
  /\ todo = [q \in Procs |-> <<>>] /\ ff = [q \in Procs |-> <<>>]
-----------------------------------------------------------------------------

\* The references to file f that processes hold.
Held(f) == MapThenSumSet(LAMBDA p : Sharers(p, f)
                           + Cardinality({i \in DOMAIN todo[p] : todo[p][i] = f}), Procs)

\* End w of pipe i is open in a file, or a process is about to close it.
EndHeld(i, w) ==
  \/ \E f \in FileIds : file[f].type = "pipe" /\ file[f].pipe = i /\ file[f].writable = w
  \/ \E p \in Procs : ff[p] = <<i, w>>

=============================================================================
