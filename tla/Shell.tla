-------------------------------- MODULE Shell -------------------------------
(***************************************************************************)
(* The shell at work (sh.c, init.c) on the files and descriptors of Files, *)
(* from a line of input to programs with their input and output in place.  *)
(*                                                                         *)
(* A process is the sequence of system calls it has yet to make.  The C    *)
(* functions are operators that give such sequences: runcmd turns a tree   *)
(* of commands into calls, but for a pipeline, whose calls depend on the   *)
(* descriptors that pipe returns.  Every call is one step.  Programs that  *)
(* the shell starts make the calls of some script and exit.                *)
(*                                                                         *)
(* "at" is the place in the tree of commands that a call is for, a path    *)
(* of 1 (left, or the only branch) and 2 (right).                          *)
(***************************************************************************)
EXTENDS Files, ShParse

CONSTANTS NPROC, Lines, Scripts

ASSUME ShellAssumption == NPROC \in Nat \ {0, 1} /\ Procs = 1..NPROC

\* What parsecmd makes of each line.
Parsed == [line \in Lines |-> parsecmd(line)]

VARIABLES status, parent,   \* proc.c: the state of a process, and its parent
          code,             \* the calls a process has yet to make
          shpid,            \* init: the pid of the shell
          input,            \* is there a line to be read?
          tree              \* the command that is being run

procVars == <<status, parent>>
vars == <<fileVars, procVars, code, shpid, input, tree>>

init == 1
Tty == <<0>>
NoCommand == execcmd(<<>>)

Op(op) == <<[op |-> op]>>
Fd(op, fd) == <<[op |-> op, fd |-> fd]>>
Fork(child) == <<[op |-> "fork", child |-> child]>>
-----------------------------------------------------------------------------
(* Faulty variants of the definitions below, kept for the sensitivity      *)
(* checks of the properties; no specification uses them.                   *)

\* The shell's process keeps the write end of the pipe.
PipeParent_Keep(p0, p1) == Fd("close", p0) \o Op("wait") \o Op("wait") \o Op("exit")

\* The right side of a pipe gets its input before its old one is closed.
PipeRight_NoClose(p0, p1) == Fd("dup", p0) \o Fd("close", p0) \o Fd("close", p1)
-----------------------------------------------------------------------------
(* init.c and main of sh.c                                                 *)

initLoop == Fork(Op("execsh")) \o Op("initwait")
initMain == Fd("dup", 0) \o Fd("dup", 0) \o initLoop

shMain == Op("console")
shLoop == Op("getcmd")
shRun(line) == Fork(<<[op |-> "parse", line |-> line]>>) \o Op("wait") \o shLoop

(* runcmd                                                                  *)

\* The calls around a pipe with descriptors p0 and p1: in the processes of
\* its left and its right side and, after the two forks, in the parent.
PipeLeft(p0, p1) == Fd("close", 1) \o Fd("dup", p1) \o Fd("close", p0) \o Fd("close", p1)
PipeRight(p0, p1) == Fd("close", 0) \o Fd("dup", p0) \o Fd("close", p0) \o Fd("close", p1)
PipeParent(p0, p1) ==
  Fd("close", p0) \o Fd("close", p1) \o Op("wait") \o Op("wait") \o Op("exit")

RECURSIVE runcmd(_, _)
runcmd(c, at) ==
  CASE c.type = "EXEC" ->
         IF c.argv = <<>> THEN Op("exit") ELSE <<[op |-> "exec", at |-> at]>>
    [] c.type = "REDIR" ->
         Fd("close", c.fd) \o <<[op |-> "open", mode |-> c.mode, at |-> at]>>
         \o runcmd(c.cmd, at \o <<1>>)
    [] c.type = "LIST" ->
         Fork(runcmd(c.left, at \o <<1>>)) \o Op("wait") \o runcmd(c.right, at \o <<2>>)
    [] c.type = "PIPE" -> <<[op |-> "pipe", left |-> c.left, right |-> c.right, at |-> at]>>
    [] c.type = "BACK" -> Fork(runcmd(c.cmd, at \o <<1>>)) \o Op("exit")

runpipe(c, p0, p1) ==
  Fork(PipeLeft(p0, p1) \o runcmd(c.left, c.at \o <<1>>))
  \o Fork(PipeRight(p0, p1) \o runcmd(c.right, c.at \o <<2>>))
  \o PipeParent(p0, p1)
-----------------------------------------------------------------------------
(* The steps of a process                                                  *)

Ready(p) == status[p] = "run" /\ InUser(p)
Does(p, op) == Ready(p) /\ Head(code[p]).op = op
Goto(p, c) == code' = [code EXCEPT ![p] = c]
Return(p) == Goto(p, Tail(code[p]))
Exit(p) == Goto(p, Op("exit"))

\* Calls whose result the shell does not look at.
descriptor(p) ==
  /\ \/ Does(p, "close") /\ \E r \in {-1, 0} : sys_close(p, Head(code[p]).fd, r)
     \/ Does(p, "dup") /\ \E r \in Fds \cup {-1} : sys_dup(p, Head(code[p]).fd, r)
     \/ Does(p, "read") /\ \E r \in {-1, 0, 1} : sys_read(p, Head(code[p]).fd, r)
     \/ Does(p, "fstat") /\ \E r \in {-1, 0} : sys_fstat(p, Head(code[p]).fd, r)
     \/ Does(p, "write") /\ \E r \in {-1, 0, 1} : sys_write(p, Head(code[p]).fd, r)
  /\ Return(p)
  /\ UNCHANGED <<procVars, shpid, input, tree>>

open(p) ==
  /\ Does(p, "open")
  /\ LET c == Head(code[p])
         rd == IF c.mode = "read" THEN 1 ELSE 0
     IN  \E r \in Fds \cup {-1} :
           /\ sys_open(p, "inode", rd, 1 - rd, c.at, r)
           /\ IF r < 0 THEN Exit(p) ELSE Return(p)
  /\ UNCHANGED <<procVars, shpid, input, tree>>

\* The loop of sh that makes sure three descriptors are open.
console(p) ==
  /\ Does(p, "console")
  /\ \E r \in Fds \cup {-1} :
       /\ sys_open(p, "device", 1, 1, Tty, r)
       /\ CASE r >= 3 -> Goto(p, Fd("close", r) \o shLoop)
            [] r \in 0..2 -> UNCHANGED code
            [] r = -1 -> Goto(p, shLoop)
  /\ UNCHANGED <<procVars, shpid, input, tree>>

pipe_(p) ==
  /\ Does(p, "pipe")
  /\ \E r \in (Fds \cup {-1}) \X (Fds \cup {-1}) :
       /\ sys_pipe(p, Head(code[p]).at, FALSE, r)
       /\ IF r[1] < 0 THEN Exit(p) ELSE Goto(p, runpipe(Head(code[p]), r[1], r[2]))
  /\ UNCHANGED <<procVars, shpid, input, tree>>

\* A program's pipe, perhaps with an address that is not its own.
userpipe(p) ==
  /\ Does(p, "userpipe")
  /\ \E faulty \in BOOLEAN, r \in (Fds \cup {-1}) \X (Fds \cup {-1}) :
       sys_pipe(p, Tty, faulty, r)
  /\ Return(p)
  /\ UNCHANGED <<procVars, shpid, input, tree>>

\* fork takes the first free slot of the process table; fork1 panics when
\* there is none.
Slots == {q \in Procs : status[q] = "unused"}
fork(p) ==
  /\ Does(p, "fork")
  /\ \/ /\ Slots = {}
        /\ Exit(p) /\ UNCHANGED <<fileVars, procVars, shpid>>
     \/ /\ Slots # {}
        /\ LET c == Min(Slots) IN
             /\ fork_files(p, c)
             /\ status' = [status EXCEPT ![c] = "run"] /\ parent' = [parent EXCEPT ![c] = p]
             /\ code' = [code EXCEPT ![p] = Tail(@), ![c] = Head(code[p]).child]
             /\ shpid' = IF p = init THEN c ELSE shpid
  /\ UNCHANGED <<input, tree>>

\* wait: the first child in the table that is a zombie, -1 without children.
Children(p) == {q \in Procs : status[q] # "unused" /\ parent[q] = p}
Zombies(p) == {q \in Children(p) : status[q] = "zombie"}
Reap(q) == status' = [status EXCEPT ![q] = "unused"] /\ UNCHANGED <<fileVars, parent>>

wait(p) ==
  /\ Does(p, "wait")
  /\ \/ Children(p) = {} /\ UNCHANGED <<fileVars, procVars>>
     \/ Zombies(p) # {} /\ Reap(Min(Zombies(p)))
  /\ Return(p)
  /\ UNCHANGED <<shpid, input, tree>>

\* init starts the shell again when it has exited.
initwait ==
  /\ Does(init, "initwait")
  /\ \/ Children(init) = {} /\ Exit(init) /\ UNCHANGED <<fileVars, procVars>>
     \/ /\ Zombies(init) # {}
        /\ LET q == Min(Zombies(init)) IN
             /\ Reap(q)
             /\ IF q = shpid THEN Goto(init, initLoop) ELSE UNCHANGED code
  /\ UNCHANGED <<shpid, input, tree>>

exec(p) ==
  /\ Does(p, "exec")
  /\ \/ Exit(p)
     \/ \E s \in Scripts : Goto(p, s \o Op("exit"))
  /\ UNCHANGED <<fileVars, procVars, shpid, input, tree>>

\* exec of sh, which finds its file and memory.
execsh(p) ==
  /\ Does(p, "execsh")
  /\ Goto(p, shMain)
  /\ UNCHANGED <<fileVars, procVars, shpid, input, tree>>

\* At the end of the input the shell exits; cd is not given to a child.
Chdir(line) == Len(line) >= 3 /\ SubSeq(line, 1, 3) = <<"c", "d", " ">>
getcmd(p) ==
  /\ Does(p, "getcmd")
  /\ \/ Exit(p) /\ UNCHANGED input
     \/ \E line \in Lines : /\ input = 1 /\ input' = 0
                            /\ IF Chdir(line) THEN UNCHANGED code ELSE Goto(p, shRun(line))
  /\ UNCHANGED <<fileVars, procVars, shpid, tree>>

\* parsecmd, in the child; a syntax error ends it.
parse(p) ==
  /\ Does(p, "parse")
  /\ LET c == Parsed[Head(code[p]).line] IN
       IF c.ok THEN tree' = c.cmd /\ Goto(p, runcmd(c.cmd, <<>>))
       ELSE UNCHANGED tree /\ Exit(p)
  /\ UNCHANGED <<fileVars, procVars, shpid, input>>

\* exit closes the files, then gives the children to init.
exit(p) ==
  /\ Does(p, "exit")
  /\ exit_files(p)
  /\ Goto(p, Op("dead"))
  /\ UNCHANGED <<procVars, shpid, input, tree>>

dead(p) ==
  /\ Does(p, "dead")
  /\ status' = [status EXCEPT ![p] = "zombie"]
  /\ parent' = [q \in Procs |-> IF parent[q] = p THEN init ELSE parent[q]]
  /\ Goto(p, <<>>)
  /\ UNCHANGED <<fileVars, shpid, input, tree>>

kernel(p) == /\ fileclose(p) \/ pipeclose(p)
             /\ UNCHANGED <<procVars, code, shpid, input, tree>>
-----------------------------------------------------------------------------

Init ==
  /\ FilesInit(init)
  /\ status = [p \in Procs |-> IF p = init THEN "run" ELSE "unused"]
  /\ parent = [p \in Procs |-> 0]
  /\ code = [p \in Procs |-> IF p = init THEN initMain ELSE <<>>]
  /\ shpid = 0 /\ input = 1 /\ tree = NoCommand

Step(p) ==
  \/ descriptor(p) \/ open(p) \/ console(p) \/ pipe_(p) \/ userpipe(p) \/ fork(p)
  \/ wait(p) \/ exec(p) \/ execsh(p) \/ getcmd(p) \/ parse(p) \/ exit(p) \/ dead(p)
  \/ kernel(p)

Next == initwait \/ \E p \in Procs : Step(p)

\* The scheduler runs every process that can run.
Fairness == WF_vars(initwait) /\ \A p \in Procs : WF_vars(Step(p))

Spec == Init /\ [][Next]_vars /\ Fairness
-----------------------------------------------------------------------------

\* Where input and output of the command at a place should come from: the
\* innermost redirection or pipe around it.
RECURSIVE Wanted(_, _, _, _)
Wanted(c, here, at, io) ==
  IF at = <<>> THEN io
  ELSE LET i == Head(at)
           inner == CASE c.type \in {"PIPE", "LIST"} -> IF i = 1 THEN c.left ELSE c.right
                      [] c.type \in {"REDIR", "BACK"} -> c.cmd
           stream == CASE c.type = "PIPE" -> <<IF i = 1 THEN 1 ELSE 0>>
                       [] c.type = "REDIR" -> <<c.fd>>
                       [] c.type \in {"LIST", "BACK"} -> <<>>
       IN  Wanted(inner, Append(here, i), Tail(at),
                  IF stream = <<>> THEN io ELSE [io EXCEPT ![stream[1]] = here])

\* Whenever the shell starts a program, 0, 1 and 2 are its input, output and
\* the console as the line says, nothing else is open, and no child of the
\* shell's process is left that the program could wait for by mistake
\* (runcmd: close, dup and open rely on the lowest free descriptor).
Plumbing ==
  \A p \in Procs : Does(p, "exec") =>
    LET io == Wanted(tree, <<>>, Head(code[p]).at, [fd \in 0..2 |-> Tty]) IN
      /\ \A fd \in 0..2 : argfd(p, fd) /\ FileOf(p, fd).from = io[fd]
      /\ FileOf(p, 0).readable = 1 /\ FileOf(p, 1).writable = 1
      /\ \A fd \in Fds \ 0..2 : ~argfd(p, fd)
      /\ Children(p) = {}

\* Whatever the line, and whether or not processes, files or pipes run out,
\* the shell comes back for the next command: no program waits for the end
\* of a pipe that a process of the shell has left open.
PromptReturns == []<>(\E p \in Procs : Does(p, "getcmd"))
=============================================================================
