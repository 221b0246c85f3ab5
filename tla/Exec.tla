-------------------------------- MODULE Exec --------------------------------
(***************************************************************************)
(* What goes between the kernel and the memory of a process: copyin,       *)
(* copyout and copyinstr (vm.c), and with them exec from the arguments in  *)
(* the caller's memory to the image and the stack of the new program       *)
(* (sys_exec, exec.c).  Memory has the page tables behind this.            *)
(*                                                                         *)
(* An address space has the permissions of its pages, "none" if there is   *)
(* no page and "kernel" without PTE_U, and its bytes.  Bytes are digits: a *)
(* uint64 is PTR of them, the lowest first.                                *)
(***************************************************************************)
EXTENDS Integers, Sequences, FiniteSets, FiniteSetsExt

CONSTANTS PGSIZE, MAXVA, BASE,
          PTR, ALIGN,              \* sizeof(uint64), alignment of sp
          USERSTACK, MAXARG, MAXPATH,
          UPAGES                   \* bound: pages of an image

Constants ==
  /\ PGSIZE \in Nat \ {0} /\ PTR \in Nat \ {0} /\ ALIGN \in Nat \ {0} /\ BASE \in Nat \ {0, 1}
  /\ MAXVA % PGSIZE = 0 /\ PGSIZE % ALIGN = 0 /\ MAXVA < BASE^PTR
  /\ UPAGES * PGSIZE < MAXVA /\ MAXARG \in Nat /\ MAXPATH \in Nat /\ USERSTACK \in Nat

VARIABLES image, size,     \* p->pagetable and p->sz
          uargv, upath,    \* the arguments of the call
          program,         \* the file: is it an ELF file, and its segments
          step, nseg,     \* i, the segments dealt with
          argv,            \* sys_exec: the strings copied so far
          taken,           \* pages of kalloc held
          fresh, fsz,      \* exec: pagetable and sz
          sp, ustack,
          caller,          \* the image that made the call
          va, len          \* a copy to be tried

vars == <<image, size, uargv, upath, program, step, nseg, argv, taken, fresh, fsz, sp, ustack,
          caller, va, len>>

\* uint64 wraps here.
U64 == BASE^PTR
Bytes == 0..(BASE - 1)
VPages == 0..(MAXVA \div PGSIZE - 1)
PGROUNDDOWN(x) == (x \div PGSIZE) * PGSIZE
PGROUNDUP(x) == PGROUNDDOWN(x + PGSIZE - 1)
Smaller(x, y) == IF x < y THEN x ELSE y

NoPages == [perm |-> [v \in VPages |-> "none"], byte |-> [x \in 0..(MAXVA - 1) |-> 0]]
Perm(A, x) == A.perm[x \div PGSIZE]

Err == [ok |-> FALSE, data |-> <<>>]
Ok(data) == [ok |-> TRUE, data |-> data]

\* A uint64 as bytes, and back.
Word(x) == [i \in 1..PTR |-> (x \div BASE^(i - 1)) % BASE]
Value(w) == MapThenSumSet(LAMBDA i : w[i] * BASE^(i - 1), 1..PTR)
-----------------------------------------------------------------------------
(* Faulty variants of the definitions below, kept for the sensitivity      *)
(* checks of the properties; no specification uses them.                   *)

\* A copy goes on behind where it was, not at the next page.
NextPage_Off(x) == (x + PGSIZE) % U64

\* exec leaves no room for the NUL of a string.
Pushed_NoNul(s) == (sp - Len(s)) % U64
-----------------------------------------------------------------------------
(* vm.c                                                                    *)

walkaddr(A, x) == x < MAXVA /\ Perm(A, x) \in {"r", "rw"}
Slice(A, x, n) == [i \in 1..n |-> A.byte[x + i - 1]]

\* Bytes to be copied within the page of x.
InPage(x, n) == Smaller(PGSIZE - (x - PGROUNDDOWN(x)), n)
NextPage(x) == (PGROUNDDOWN(x) + PGSIZE) % U64

RECURSIVE copyin(_, _, _)
copyin(A, srcva, n) ==
  IF n = 0 THEN Ok(<<>>)
  ELSE IF ~walkaddr(A, PGROUNDDOWN(srcva)) THEN Err
  ELSE LET k == InPage(srcva, n)
           rest == copyin(A, NextPage(srcva), n - k)
       IN  IF rest.ok THEN Ok(Slice(A, srcva, k) \o rest.data) ELSE Err

Written(A, x, s) ==
  [A EXCEPT !.byte = [y \in DOMAIN @ |-> IF y \in x..(x + Len(s) - 1) THEN s[y - x + 1] ELSE @[y]]]

\* data is the address space afterwards, with what was copied before an error.
RECURSIVE copyout(_, _, _)
copyout(A, dstva, src) ==
  IF src = <<>> THEN [ok |-> TRUE, data |-> A]
  ELSE IF ~walkaddr(A, PGROUNDDOWN(dstva)) \/ Perm(A, dstva) # "rw" THEN [ok |-> FALSE, data |-> A]
  ELSE LET k == InPage(dstva, Len(src))
       IN  copyout(Written(A, dstva, SubSeq(src, 1, k)), NextPage(dstva),
                   SubSeq(src, k + 1, Len(src)))

\* data is the string without its NUL.
RECURSIVE copyinstr(_, _, _)
copyinstr(A, srcva, max) ==
  IF max = 0 \/ ~walkaddr(A, PGROUNDDOWN(srcva)) THEN Err
  ELSE LET s == Slice(A, srcva, InPage(srcva, max))
           nuls == {i \in DOMAIN s : s[i] = 0}
           rest == copyinstr(A, NextPage(srcva), max - Len(s))
       IN  IF nuls # {} THEN Ok(SubSeq(s, 1, Min(nuls) - 1))
           ELSE IF rest.ok THEN Ok(s \o rest.data) ELSE Err

(* syscall.c                                                               *)

\* Both tests are needed, as the sum may overflow.
fetchaddr(A, sz, addr) ==
  IF addr >= sz \/ (addr + PTR) % U64 > sz THEN Err ELSE copyin(A, addr, PTR)
fetchstr(A, addr, max) == copyinstr(A, addr, max)
-----------------------------------------------------------------------------
(* sys_exec                                                                *)

Goto(s) == step' = s
Args == Len(argv)

\* bad: and the ends of exec: the pages of the arguments are given back.
Return(s) == Goto(s) /\ taken' = taken - Args

\* exec's own bad: frees what it has built.
Bad == /\ Return("failed") /\ fresh' = NoPages /\ fsz' = 0 /\ sp' = 0 /\ ustack' = <<>>
       /\ UNCHANGED <<image, size, argv>>

sys_exec ==
  /\ step = "path"
  /\ Goto(IF fetchstr(image, upath, MAXPATH).ok THEN "argv" ELSE "failed")
  /\ UNCHANGED <<image, size, argv, taken, fresh, fsz, sp, ustack>>

\* One turn of the loop; kalloc may find no page.
sys_exec_arg ==
  LET uarg == fetchaddr(image, size, (uargv + PTR * Args) % U64)
      s == fetchstr(image, Value(uarg.data), PGSIZE)
  IN
  /\ step = "argv"
  /\ \/ /\ Args >= MAXARG \/ ~uarg.ok
        /\ Return("failed") /\ UNCHANGED argv
     \/ /\ Args < MAXARG /\ uarg.ok /\ Value(uarg.data) = 0
        /\ Goto("exec") /\ UNCHANGED <<argv, taken>>
     \/ /\ Args < MAXARG /\ uarg.ok /\ Value(uarg.data) # 0
        /\ \/ s.ok /\ taken' = taken + 1 /\ argv' = Append(argv, s.data) /\ UNCHANGED step
           \/ Return("failed") /\ UNCHANGED argv
  /\ UNCHANGED <<image, size, fresh, fsz, sp, ustack>>
-----------------------------------------------------------------------------
(* exec                                                                    *)

\* uvmalloc: new pages are zero; it fails when memory runs out.
CanGrow(newsz) == newsz <= UPAGES * PGSIZE
uvmalloc(A, oldsz, newsz, perm) ==
  [A EXCEPT !.perm = [v \in VPages |->
     IF v * PGSIZE >= PGROUNDUP(oldsz) /\ v * PGSIZE < newsz THEN perm ELSE @[v]]]

\* loadseg of a segment whose pages are there; data is what the file has.
loadseg(A, seg) == Written(A, seg.vaddr, SubSeq(seg.data, 1, seg.filesz))
Loadable(A, seg) == \A i \in 0..(seg.filesz - 1) : walkaddr(A, PGROUNDDOWN(seg.vaddr + i))

Grown(seg) == IF seg.vaddr + seg.memsz < fsz THEN fsz ELSE seg.vaddr + seg.memsz
BadSegment(seg) ==
  \/ seg.memsz < seg.filesz \/ (seg.vaddr + seg.memsz) % U64 < seg.vaddr
  \/ seg.vaddr % PGSIZE # 0 \/ ~CanGrow(seg.vaddr + seg.memsz) \/ Grown(seg) = 0
  \/ Len(seg.data) < seg.filesz

\* Up to the loop over the segments: the file is there and is an ELF file.
exec ==
  /\ step = "exec"
  /\ IF program.elf THEN /\ Goto("load")
                         /\ UNCHANGED <<image, size, argv, taken, fresh, fsz, sp, ustack>>
     ELSE Bad
  /\ UNCHANGED nseg

\* The next segment; loadseg panics if a page is missing.
exec_segment ==
  /\ step = "load" /\ nseg < Len(program.segs)
  /\ LET seg == program.segs[nseg + 1]
         A == uvmalloc(fresh, fsz, seg.vaddr + seg.memsz, seg.perm)
     IN  IF seg.load /\ BadSegment(seg) THEN Bad
         ELSE /\ IF seg.load
                 THEN /\ fresh' = loadseg(A, seg) /\ fsz' = Grown(seg)
                      /\ Goto(IF Loadable(A, seg) THEN "load" ELSE "panic")
                 ELSE UNCHANGED <<fresh, fsz, step>>
              /\ UNCHANGED <<image, size, argv, taken, sp, ustack>>
  /\ nseg' = nseg + 1

\* uvmclear
uvmclear(A, x) == [A EXCEPT !.perm[x \div PGSIZE] = "kernel"]

exec_stack ==
  LET top == PGROUNDUP(fsz) + (USERSTACK + 1) * PGSIZE IN
  /\ step = "load" /\ nseg = Len(program.segs)
  /\ IF ~CanGrow(top) THEN Bad
     ELSE /\ fresh' = uvmclear(uvmalloc(fresh, PGROUNDUP(fsz), top, "rw"),
                               top - (USERSTACK + 1) * PGSIZE)
          /\ fsz' = top /\ sp' = top
          /\ Goto("push")
          /\ UNCHANGED <<image, size, argv, taken, ustack>>
  /\ UNCHANGED nseg

stackbase == fsz - USERSTACK * PGSIZE
Aligned(x) == x - (x % ALIGN)

\* Where the string s goes.
Pushed(s) == (sp - (Len(s) + 1)) % U64

exec_push ==
  LET s == argv[Len(ustack) + 1]
      at == Aligned(Pushed(s))
      out == copyout(fresh, at, s \o <<0>>)
  IN
  /\ step = "push" /\ Len(ustack) < Args
  /\ IF Len(ustack) >= MAXARG \/ at < stackbase \/ ~out.ok THEN Bad
     ELSE /\ fresh' = out.data /\ sp' = at /\ ustack' = Append(ustack, at)
          /\ UNCHANGED <<image, size, step, argv, taken, fsz>>

RECURSIVE Words(_)
Words(s) == IF s = <<>> THEN <<>> ELSE Word(Head(s)) \o Words(Tail(s))

\* The array of pointers, and the commit.
exec_commit ==
  LET at == Aligned((sp - (Len(ustack) + 1) * PTR) % U64)
      out == copyout(fresh, at, Words(Append(ustack, 0)))
  IN
  /\ step = "push" /\ Len(ustack) = Args
  /\ IF at < stackbase \/ ~out.ok THEN Bad
     ELSE /\ image' = out.data /\ size' = fsz /\ sp' = at
          /\ Return("done")
          /\ UNCHANGED <<argv, fresh, fsz, ustack>>
-----------------------------------------------------------------------------

\* A call from the address space A of size sz.
ExecInit(A, sz, path, args, prog) ==
  /\ image = A /\ caller = A /\ size = sz /\ upath = path /\ uargv = args /\ program = prog
  /\ step = "path" /\ nseg = 0 /\ argv = <<>> /\ taken = 0
  /\ fresh = NoPages /\ fsz = 0 /\ sp = 0 /\ ustack = <<>>

Next == /\ \/ (sys_exec \/ sys_exec_arg \/ exec_push \/ exec_commit) /\ UNCHANGED nseg
           \/ exec \/ exec_segment \/ exec_stack
        /\ UNCHANGED <<uargv, upath, program, caller, va, len>>
-----------------------------------------------------------------------------

\* What the bytes from x on are, one by one.
Legal(A, x, perms) == x < MAXVA /\ Perm(A, x) \in perms
LegalRun(A, x, n, perms) == \A i \in 0..(n - 1) : Legal(A, (x + i) % U64, perms)

\* The first NUL at or behind x, or nothing.
Terminator(A, x, n) == {i \in 0..(n - 1) : /\ LegalRun(A, x, i + 1, {"r", "rw"})
                                           /\ A.byte[x + i] = 0
                                           /\ \A j \in 0..(i - 1) : A.byte[x + j] # 0}

\* copyin, copyout and copyinstr, which go page by page, do what copying byte
\* by byte would do: they fail exactly if a byte they need may not be
\* accessed, at the end of the address space and around it included, and
\* copyout writes only where user code could.
CopyRight ==
  LET A == image
      src == [i \in 1..len |-> BASE - 1 - (i % 2)]
      in == copyin(A, va, len)
      out == copyout(A, va, src)
      str == copyinstr(A, va, len)
  IN  /\ in.ok <=> LegalRun(A, va, len, {"r", "rw"})
      /\ in.ok => in.data = Slice(A, va, len)
      /\ out.ok <=> LegalRun(A, va, len, {"rw"})
      /\ out.ok => out.data = Written(A, va, src)
      /\ \A x \in 0..(MAXVA - 1) :
           out.data.byte[x] # A.byte[x] => Perm(A, x) = "rw" /\ x \in va..(va + len - 1)
      /\ str.ok <=> Terminator(A, va, len) # {}
      /\ str.ok => str.data = Slice(A, va, Min(Terminator(A, va, len)))

\* The string at x, if there is one.
StringAt(A, x) == Slice(A, x, Min(Terminator(A, x, PGSIZE)))
Pointer(A, x) == Value(Slice(A, x, PTR))

\* The byte at x in a program's image: that of the last segment it is in.
FileByte(x) ==
  LET in == {i \in 1..Len(program.segs) :
               LET seg == program.segs[i]
               IN  seg.load /\ x \in seg.vaddr..(seg.vaddr + seg.filesz - 1)}
  IN  IF in = {} THEN 0
      ELSE LET seg == program.segs[Max(in)] IN seg.data[x - seg.vaddr + 1]

\* The arguments of a program that was started are, string by string, those
\* its caller had in memory, its stack is aligned and above the guard page,
\* what is below is the file's image, the pages for the arguments are given
\* back whatever happened, and a failed call leaves the image alone (sys_exec,
\* exec).
ArgsArrive ==
  /\ step # "panic"
  /\ step = "push" => Args < MAXARG
  /\ step \in {"done", "failed"} => taken = 0
  /\ step = "failed" => image = caller
  /\ step = "done" =>
       /\ sp % ALIGN = 0 /\ sp >= stackbase /\ Perm(image, stackbase - 1) = "kernel"
       /\ \A i \in 1..Args :
            StringAt(image, Pointer(image, sp + PTR * (i - 1)))
              = StringAt(caller, Pointer(caller, uargv + PTR * (i - 1)))
       /\ Pointer(image, sp + PTR * Args) = 0 /\ Pointer(caller, uargv + PTR * Args) = 0
       /\ \A x \in 0..(stackbase - 1) : image.byte[x] = FileByte(x)
=============================================================================
