------------------------------ MODULE MCMemory ------------------------------
(* Instances of Memory, with few enough pages that every allocation can    *)
(* fail, and of Exec, with one call of exec or one copy in each behaviour. *)
(* One of the two moves, as part says.                                     *)
EXTENDS Memory

CONSTANTS UPGSIZE, USTACK, MAXVA, BASE, PTR, ALIGN, MAXARG, MAXPATH, UPAGES

VARIABLES part, image, size, uargv, upath, program, step, nseg, argv, taken, fresh, fsz,
          sp, ustack, caller, va, len

E == INSTANCE Exec WITH PGSIZE <- UPGSIZE, USERSTACK <- USTACK

ASSUME ExecAssumption == E!Constants

execVars == <<image, size, uargv, upath, program, step, nseg, argv, taken, fresh, fsz, sp,
              ustack, caller, va, len>>

\* Two pages, the second as perm says: strings, with the pointers ps from x on.
Text == <<1, 2, 0, 3, 0, 0, 4, 5, 6, 0, 7, 8, 9, 1, 2, 3>>
UserSpace(perm, x, ps) ==
  LET words == E!Words(ps)
      byte == [y \in 0..(MAXVA - 1) |->
                 IF y \in x..(x + Len(words) - 1) THEN words[y - x + 1]
                 ELSE IF y < Len(Text) THEN Text[y + 1] ELSE 0]
  IN  [perm |-> [E!NoPages.perm EXCEPT ![0] = "rw", ![1] = perm],
       byte |-> [y \in 0..(MAXVA - 1) |-> IF y < UPGSIZE \/ perm # "none" THEN byte[y] ELSE 0]]

Seg(vaddr, filesz, memsz, data, perm) ==
  [load |-> TRUE, vaddr |-> vaddr, filesz |-> filesz, memsz |-> memsz, data |-> data,
   perm |-> perm]
Elf(segs) == [elf |-> TRUE, segs |-> segs]
Usual == Elf(<<[Seg(0, 0, 0, <<>>, "r") EXCEPT !.load = FALSE],
               Seg(0, 9, 9, <<1, 2, 3, 4, 5, 6, 7, 8, 9>>, "r"), Seg(16, 2, 5, <<7, 7>>, "rw")>>)

\* A usual file; segments out of order, empty, too large, truncated, not on a
\* page boundary, or beyond the largest address; and a file that is no program.
Programs ==
  {Usual, Elf(<<>>), [elf |-> FALSE, segs |-> <<>>], Elf(<<Seg(8, 3, 8, <<5, 5, 5>>, "rw"),
                                                           Seg(0, 4, 4, <<6, 6, 6, 6>>, "r")>>),
   Elf(<<Seg(0, 0, 0, <<>>, "r")>>), Elf(<<Seg(0, 1, 50, <<1>>, "rw")>>),
   Elf(<<Seg(0, 1, 30, <<1>>, "rw")>>),
   Elf(<<Seg(0, 3, 3, <<1>>, "r")>>), Elf(<<Seg(4, 1, 1, <<1>>, "r")>>),
   Elf(<<Seg(0, 2, 1, <<1, 1>>, "r")>>), Elf(<<Seg(248, 1, 20, <<1>>, "r")>>)}

Pointers == {1, 3, 6, 10, 13}
ArgLists == {<<>>} \cup {<<x>> : x \in Pointers} \cup {<<x, y>> : x, y \in Pointers}
              \cup {<<1, 3, 6>>, <<10, 13, 44>>, <<3, 3, 3, 3>>}
Perms == {"rw", "r", "kernel", "none"}

ExecStart ==
  \E perm \in Perms, x \in {0, 4, 5, 8, 13}, ps \in ArgLists, z \in {13, 16}, path \in {3, 12} :
  \E prog \in (IF perm = "rw" /\ path = 3 THEN Programs ELSE {Usual}) :
    /\ E!ExecInit(UserSpace(perm, x, Append(ps, 0)), z, path, x, prog)
    /\ va = 0 /\ len = 0

CopyStart ==
  /\ \E perm \in Perms, x \in {4, 30} :
       E!ExecInit(UserSpace(perm, x, <<1, 20>>), 16, 0, 0, Usual)
  /\ va \in 0..17 \cup (MAXVA - 2)..(MAXVA + 1) \cup (E!U64 - 10)..(E!U64 - 1)
  /\ len \in 0..18

AllInit ==
  /\ Init
  /\ \/ part = "memory" /\ E!ExecInit(E!NoPages, 0, 0, 0, Usual) /\ va = 0 /\ len = 0
     \/ part = "exec" /\ ExecStart
     \/ part = "copy" /\ CopyStart

AllNext == \/ part = "memory" /\ Next /\ UNCHANGED <<part, execVars>>
           \/ part = "exec" /\ E!Next /\ UNCHANGED <<part, vars>>
           \/ part = "copy" /\ UNCHANGED <<part, vars, execVars>>
           \/ step \in {"done", "failed"} /\ UNCHANGED <<part, vars, execVars>>
AllSpec == AllInit /\ [][AllNext]_<<part, vars, execVars>>

\* Exec!CopyRight: copying page by page between the kernel and user memory is
\* copying byte by byte.
CopyRight == part = "copy" => E!CopyRight

\* Exec!ArgsArrive: a program gets the arguments and the image its caller
\* asked for, and a call that fails leaves nothing behind.
ArgsArrive == part = "exec" => E!ArgsArrive

\* Where every page is in use at most once, states that differ in the choice of
\* pages only are alike up to a renaming of pages, which all actions and
\* properties respect; the view tells other states from those.
View == <<PagesOwned, AddressSpaces, Cardinality(free), panicked, state, sz, pc, op, work,
          old, a, goal, nsz, {p \in Procs : tf[p] = Null}, {p \in Procs : mem[p] = Null},
          [s \in Tables |-> <<Present(tab[s].node), Present(tab[s].leaf)>>], part, execVars>>

MCIncrements == {1, 3, -1, -3}
=============================================================================
