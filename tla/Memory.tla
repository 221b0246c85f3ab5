------------------------------- MODULE Memory -------------------------------
(***************************************************************************)
(* Physical memory: the page allocator (kalloc.c), the page tables of user *)
(* processes (vm.c), and the operations that build and tear them down,     *)
(* fork, growproc, exec and freeproc.  Memory may run out at every kalloc, *)
(* and processes run interleaved.                                          *)
(*                                                                         *)
(* A page table is a record: node maps the position of a page-table page   *)
(* (its level and its number on that level) to its page, leaf maps virtual *)
(* page numbers to pages.  Permission bits and page contents are left out. *)
(* Which free page kalloc takes does not matter; it is the lowest here.    *)
(* Giving pages back never fails or waits, so a loop of kfree is one step. *)
(***************************************************************************)
EXTENDS Integers, Sequences, FiniteSets, FiniteSetsExt

CONSTANTS Procs, initproc,
          NPAGES,           \* pages between end and PHYSTOP
          PGSIZE,           \* bytes in a page
          NPTE,             \* entries of a page-table page
          USERSTACK,        \* pages of a user stack
          WRAP,             \* 2^64
          Increments,       \* arguments of sbrk
          Segments,         \* vaddr + memsz of the segments of programs
          MAXSZ             \* bound on the size of a process

ASSUME ProcAssumption == initproc \in Procs
ASSUME SizeAssumption ==
  /\ NPAGES \in Nat /\ PGSIZE \in Nat \ {0} /\ NPTE \in Nat \ {0, 1} /\ USERSTACK \in Nat
  /\ WRAP \in Nat /\ MAXSZ < WRAP /\ Increments \subseteq Int /\ Segments \subseteq Nat \ {0}

VARIABLES
  free,             \* kmem.freelist, a set
  panicked,
  state,            \* of each process: UNUSED, USED (in fork), LIVE
  tf, sz,           \* p->trapframe, p->sz
  tab,              \* page tables: p->pagetable is <<p, "cur">>, exec's is <<p, "new">>
  pc, op,           \* what the process does in the kernel
  work,             \* the page table it works on
  old, a, goal,     \* uvmalloc, uvmcopy: start, loop variable and end
  mem,              \* the page it has allocated but not mapped
  nsz               \* exec's sz

vars == <<free, panicked, state, tf, sz, tab, pc, op, work, old, a, goal, mem, nsz>>

Pages == 1..NPAGES
Null == 0
TRAMPOLINE == NPTE * NPTE * NPTE - 1
TRAPFRAME == TRAMPOLINE - 1
Trampoline == NPAGES + 1     \* the page of kernel code, never allocated
Nodes == {<<2, 0>>} \cup ({1} \X (0..(NPTE - 1))) \cup ({0} \X (0..(NPTE * NPTE - 1)))
NoTable == [node |-> [k \in Nodes |-> Null], leaf |-> [v \in 0..TRAMPOLINE |-> Null]]

PGROUNDUP(n) == ((n + PGSIZE - 1) \div PGSIZE) * PGSIZE
Present(f) == {x \in DOMAIN f : f[x] # Null}

\* kalloc of a page when f is free, and kfree of a set of pages.
kalloc(f) == Min(f)
Page == kalloc(free)
kfree(f, S) == f \cup S

\* Virtual pages from address x up to address y.
PagesIn(x, y) == (PGROUNDUP(x) \div PGSIZE)..(PGROUNDUP(y) \div PGSIZE - 1)
-----------------------------------------------------------------------------
(* Faulty variants of the definitions below, kept for the sensitivity      *)
(* checks of the properties; no specification uses them.                   *)

\* A failed mappages loses the page it was to map.
GivenBack_Lost(p) == {}

\* A failing uvmalloc unmaps from address zero, as uvmcopy does.
Undone_All(p) == PagesIn(0, a[p])
-----------------------------------------------------------------------------
(* Page tables.                                                            *)

\* The page-table page of a level that translates virtual page v.
Node(level, v) == <<level, v \div (IF level = 0 THEN NPTE
                                   ELSE IF level = 1 THEN NPTE * NPTE
                                   ELSE NPTE * NPTE * NPTE)>>

\* walk(t, v, 1) takes the missing page-table pages from the root down, as long as there are any.
walk(t, v) ==
  LET l1 == Node(1, v)
      l0 == Node(0, v)
      need == SelectSeq(<<l1, l0>>, LAMBDA k : t.node[k] = Null)
      p1 == kalloc(free)
      p2 == kalloc(free \ {p1})
  IN  CASE need = <<>> -> [node |-> t.node, used |-> {}, ok |-> TRUE]
        [] need # <<>> /\ free = {} -> [node |-> t.node, used |-> {}, ok |-> FALSE]
        [] Len(need) = 1 /\ free # {} ->
             [node |-> [t.node EXCEPT ![need[1]] = p1], used |-> {p1}, ok |-> TRUE]
        [] Len(need) = 2 /\ Cardinality(free) = 1 ->
             [node |-> [t.node EXCEPT ![need[1]] = p1], used |-> {p1}, ok |-> FALSE]
        [] Len(need) = 2 /\ Cardinality(free) > 1 ->
             [node |-> [t.node EXCEPT ![need[1]] = p1, ![need[2]] = p2], used |-> {p1, p2}, ok |-> TRUE]

\* mappages of one page: the page table afterwards, the pages it took, and whether it succeeded.
mappages(t, v, pa) ==
  LET w == walk(t, v)
  IN  [t |-> [node |-> w.node, leaf |-> IF w.ok THEN [t.leaf EXCEPT ![v] = pa] ELSE t.leaf],
       used |-> w.used, ok |-> w.ok, remap |-> w.ok /\ t.leaf[v] # Null]

\* uvmunmap: panics unless every page of V is mapped.
Mapped(t, V) == V \subseteq Present(t.leaf)
uvmunmap(t, V) == [t EXCEPT !.leaf = [v \in DOMAIN @ |-> IF v \in V THEN Null ELSE @[v]]]
PagesAt(t, V) == {t.leaf[v] : v \in V \cap Present(t.leaf)}
TablePages(t) == {t.node[k] : k \in Present(t.node)}

\* proc_freepagetable: the pages it frees, and whether uvmunmap or freewalk panics.
FreedBy(t, n) == PagesAt(t, PagesIn(0, n)) \cup TablePages(t)
FreePanics(t, n) == Present(t.leaf) # {TRAMPOLINE, TRAPFRAME} \cup PagesIn(0, n)
-----------------------------------------------------------------------------
(* The calls.  Each is a loop over a page table in the making: work.       *)

Go(p, s) == pc' = [pc EXCEPT ![p] = s]
Running == panicked = 0
Child(p) == work[p][1]

\* The call returns.
Return(p) == /\ Go(p, "idle") /\ op' = [op EXCEPT ![p] = "none"]
             /\ work' = [work EXCEPT ![p] = <<p, "cur">>]
             /\ old' = [old EXCEPT ![p] = 0] /\ a' = [a EXCEPT ![p] = 0]
             /\ goal' = [goal EXCEPT ![p] = 0] /\ nsz' = [nsz EXCEPT ![p] = 0]

\* Where uvmalloc starts, and the loop of uvmalloc or uvmcopy up to address y.
Start(n) == PGROUNDUP(n)
Loop(p, x, y) == /\ Go(p, "kalloc") /\ old' = [old EXCEPT ![p] = x]
                 /\ a' = [a EXCEPT ![p] = x] /\ goal' = [goal EXCEPT ![p] = y]

\* fork: allocproc finds a slot and allocates the trapframe.
allocproc(p) ==
  /\ Running /\ state[p] = "LIVE" /\ pc[p] = "idle"
  /\ \E np \in Procs :
       /\ state[np] = "UNUSED"
       /\ IF free = {} THEN UNCHANGED <<free, state, tf, pc, op, work>>
          ELSE /\ free' = free \ {Page} /\ tf' = [tf EXCEPT ![np] = Page]
               /\ state' = [state EXCEPT ![np] = "USED"]
               /\ work' = [work EXCEPT ![p] = <<np, "cur">>]
               /\ op' = [op EXCEPT ![p] = "fork"] /\ Go(p, "uvmcreate")
  /\ UNCHANGED <<panicked, sz, tab, old, a, goal, mem, nsz>>

exec(p) ==
  /\ Running /\ state[p] = "LIVE" /\ pc[p] = "idle"
  /\ work' = [work EXCEPT ![p] = <<p, "new">>]
  /\ op' = [op EXCEPT ![p] = "exec"] /\ Go(p, "uvmcreate")
  /\ UNCHANGED <<free, panicked, state, tf, sz, tab, old, a, goal, mem, nsz>>

\* freeproc of fork's child, whose page table is t and whose size is still 0; f is free.
freeproc_child(p, t, f) ==
  LET np == Child(p)
      pages == IF t = NoTable THEN {} ELSE FreedBy(t, sz[np])
  IN  /\ free' = kfree(f, {tf[np]} \cup pages)
      /\ panicked' = IF t # NoTable /\ FreePanics(t, sz[np]) THEN 1 ELSE 0
      /\ tf' = [tf EXCEPT ![np] = Null] /\ state' = [state EXCEPT ![np] = "UNUSED"]
      /\ tab' = [tab EXCEPT ![work[p]] = NoTable]
      /\ Return(p) /\ UNCHANGED sz

\* exec's bad: with the new page table t.
exec_bad(p, t, f) ==
  /\ free' = kfree(f, IF t = NoTable THEN {} ELSE FreedBy(t, nsz[p]))
  /\ panicked' = IF t # NoTable /\ FreePanics(t, nsz[p]) THEN 1 ELSE 0
  /\ tab' = [tab EXCEPT ![work[p]] = NoTable]
  /\ Return(p) /\ UNCHANGED <<state, tf, sz>>

growproc_fails(p, t, f) ==
  /\ free' = f /\ tab' = [tab EXCEPT ![work[p]] = t]
  /\ Return(p) /\ UNCHANGED <<panicked, state, tf, sz>>

\* The call fails, with page table t so far and the free pages f.
Fails(p, t, f) == CASE op[p] = "fork" -> freeproc_child(p, t, f)
                       [] op[p] \in {"exec", "stack"} -> exec_bad(p, t, f)
                       [] op[p] = "grow" -> growproc_fails(p, t, f)

\* proc_pagetable: the root page ...
uvmcreate(p) ==
  /\ Running /\ pc[p] = "uvmcreate"
  /\ IF free = {} THEN Fails(p, NoTable, free)
     ELSE /\ free' = free \ {Page}
          /\ tab' = [tab EXCEPT ![work[p]].node[<<2, 0>>] = Page]
          /\ Go(p, "tramp")
          /\ UNCHANGED <<panicked, state, tf, sz, op, work, old, a, goal, nsz>>
  /\ UNCHANGED mem

\* ... the trampoline and the trapframe; on failure uvmfree(pagetable, 0), which
\* also gives back what walk took.
proc_pagetable(p) ==
  LET t == tab[work[p]]
      m == IF pc[p] = "tramp" THEN mappages(t, TRAMPOLINE, Trampoline)
           ELSE mappages(t, TRAPFRAME, tf[Child(p)])
  IN
  /\ Running /\ pc[p] \in {"tramp", "tframe"}
  /\ IF ~m.ok THEN Fails(p, NoTable, kfree(free, TablePages(t)))
     ELSE /\ free' = free \ m.used /\ tab' = [tab EXCEPT ![work[p]] = m.t]
          /\ panicked' = IF m.remap THEN 1 ELSE 0
          /\ \/ /\ pc[p] = "tramp" /\ Go(p, "tframe") /\ UNCHANGED <<old, a, goal>>
             \/ /\ pc[p] = "tframe" /\ op[p] = "fork" /\ Loop(p, 0, sz[p])
             \/ /\ pc[p] = "tframe" /\ op[p] = "exec" /\ Go(p, "load") /\ UNCHANGED <<old, a, goal>>
          /\ UNCHANGED <<state, tf, sz, op, work, nsz>>
  /\ UNCHANGED mem

\* What a failing uvmalloc or uvmcopy unmaps and frees, and the page not mapped.
Undone(p) == PagesIn(old[p], a[p])
GivenBack(p) == {mem[p]} \ {Null}
Undo(p, t, f) == Fails(p, uvmunmap(t, Undone(p)), kfree(f, GivenBack(p) \cup PagesAt(t, Undone(p))))

\* An iteration of uvmalloc, or of uvmcopy, which wants the parent's page mapped.
uvm_kalloc(p) ==
  /\ Running /\ pc[p] = "kalloc" /\ a[p] < goal[p]
  /\ IF free = {} THEN Undo(p, tab[work[p]], free) /\ UNCHANGED mem
     ELSE /\ free' = free \ {Page} /\ mem' = [mem EXCEPT ![p] = Page]
          /\ panicked' = IF op[p] = "fork" /\ a[p] \div PGSIZE \notin Present(tab[<<p, "cur">>].leaf)
                         THEN 1 ELSE 0
          /\ Go(p, "map")
          /\ UNCHANGED <<state, tf, sz, tab, op, work, old, a, goal, nsz>>

\* walk takes page-table pages and keeps them, even if mappages fails.
uvm_map(p) ==
  LET m == mappages(tab[work[p]], a[p] \div PGSIZE, mem[p]) IN
  /\ Running /\ pc[p] = "map"
  /\ IF ~m.ok
     THEN Undo(p, m.t, free \ m.used)
     ELSE /\ free' = free \ m.used /\ tab' = [tab EXCEPT ![work[p]] = m.t]
          /\ panicked' = IF m.remap THEN 1 ELSE 0
          /\ a' = [a EXCEPT ![p] = @ + PGSIZE]
          /\ Go(p, "kalloc")
          /\ UNCHANGED <<state, tf, sz, op, work, old, goal, nsz>>
  /\ mem' = [mem EXCEPT ![p] = Null]

\* The loop is done: the new size is in force.
growproc_done(p) ==
  /\ Running /\ pc[p] = "kalloc" /\ a[p] >= goal[p] /\ op[p] = "grow"
  /\ sz' = [sz EXCEPT ![p] = goal[p]]
  /\ Return(p)
  /\ UNCHANGED <<free, panicked, state, tf, tab, mem>>

fork_done(p) ==
  /\ Running /\ pc[p] = "kalloc" /\ a[p] >= goal[p] /\ op[p] = "fork"
  /\ sz' = [sz EXCEPT ![Child(p)] = sz[p]]
  /\ state' = [state EXCEPT ![Child(p)] = "LIVE"]
  /\ Return(p)
  /\ UNCHANGED <<free, panicked, tf, tab, mem>>

exec_grown(p) ==
  /\ Running /\ pc[p] = "kalloc" /\ a[p] >= goal[p] /\ op[p] \in {"exec", "stack"}
  /\ nsz' = [nsz EXCEPT ![p] = goal[p]]
  /\ op' = [op EXCEPT ![p] = "exec"] /\ Go(p, IF op[p] = "exec" THEN "load" ELSE "args")
  /\ UNCHANGED <<free, panicked, state, tf, sz, tab, work, old, a, goal, mem>>

\* A loadable segment; uvmalloc does nothing if it ends below nsz.
exec_segment(p) ==
  /\ Running /\ pc[p] = "load"
  /\ \E n \in Segments :
       IF n < nsz[p] THEN UNCHANGED <<pc, old, a, goal>> ELSE Loop(p, Start(nsz[p]), n)
  /\ UNCHANGED <<free, panicked, state, tf, sz, tab, op, work, mem, nsz>>

\* The stack, at the next page boundary.
exec_stack(p) ==
  /\ Running /\ pc[p] = "load"
  /\ nsz' = [nsz EXCEPT ![p] = PGROUNDUP(@)]
  /\ Loop(p, Start(nsz'[p]), nsz'[p] + (USERSTACK + 1) * PGSIZE)
  /\ op' = [op EXCEPT ![p] = "stack"]
  /\ UNCHANGED <<free, panicked, state, tf, sz, tab, work, mem>>

\* A bad header, a short read, or arguments that do not fit.
exec_fails(p) ==
  /\ Running /\ pc[p] \in {"load", "args"}
  /\ exec_bad(p, tab[work[p]], free)
  /\ UNCHANGED mem

exec_commit(p) ==
  LET t == tab[<<p, "cur">>] IN
  /\ Running /\ pc[p] = "args"
  /\ tab' = [tab EXCEPT ![<<p, "cur">>] = tab[<<p, "new">>], ![<<p, "new">>] = NoTable]
  /\ sz' = [sz EXCEPT ![p] = nsz[p]]
  /\ free' = kfree(free, FreedBy(t, sz[p]))
  /\ panicked' = IF FreePanics(t, sz[p]) THEN 1 ELSE 0
  /\ Return(p)
  /\ UNCHANGED <<state, tf, mem>>

\* sbrk with a positive argument: uvmalloc.
growproc(p) ==
  /\ Running /\ state[p] = "LIVE" /\ pc[p] = "idle"
  /\ \E n \in Increments : /\ n > 0 /\ sz[p] + n <= MAXSZ
                           /\ Loop(p, Start(sz[p]), sz[p] + n)
  /\ op' = [op EXCEPT ![p] = "grow"]
  /\ UNCHANGED <<free, panicked, state, tf, sz, tab, work, mem, nsz>>

\* sbrk with a negative argument: uvmdealloc, which leaves sizes alone that
\* would become larger, those that wrap around below zero included.
growproc_shrink(p) ==
  LET t == tab[<<p, "cur">>] IN
  /\ Running /\ state[p] = "LIVE" /\ pc[p] = "idle"
  /\ \E n \in Increments :
       LET new == (sz[p] + n) % WRAP
           gone == PagesIn(new, sz[p])
       IN  /\ n < 0
           /\ IF new >= sz[p] THEN UNCHANGED <<free, panicked, tab, sz>>
              ELSE /\ free' = kfree(free, PagesAt(t, gone))
                   /\ panicked' = IF Mapped(t, gone) THEN 0 ELSE 1
                   /\ tab' = [tab EXCEPT ![<<p, "cur">>] = uvmunmap(t, gone)]
                   /\ sz' = [sz EXCEPT ![p] = new]
  /\ UNCHANGED <<state, tf, pc, op, work, old, a, goal, mem, nsz>>

\* freeproc in wait, of a process that has exited.
freeproc(p) ==
  LET t == tab[<<p, "cur">>] IN
  /\ Running /\ state[p] = "LIVE" /\ pc[p] = "idle" /\ p # initproc
  /\ free' = kfree(free, {tf[p]} \cup FreedBy(t, sz[p]))
  /\ panicked' = IF FreePanics(t, sz[p]) THEN 1 ELSE 0
  /\ tf' = [tf EXCEPT ![p] = Null] /\ sz' = [sz EXCEPT ![p] = 0]
  /\ tab' = [tab EXCEPT ![<<p, "cur">>] = NoTable]
  /\ state' = [state EXCEPT ![p] = "UNUSED"]
  /\ UNCHANGED <<pc, op, work, old, a, goal, mem, nsz>>
-----------------------------------------------------------------------------
\* userinit: the first process with one page, in pages 1 to 7.
Init ==
  /\ free = 8..NPAGES /\ panicked = 0
  /\ state = [p \in Procs |-> IF p = initproc THEN "LIVE" ELSE "UNUSED"]
  /\ tf = [p \in Procs |-> IF p = initproc THEN 1 ELSE Null]
  /\ sz = [p \in Procs |-> IF p = initproc THEN PGSIZE ELSE 0]
  /\ tab = [s \in Procs \X {"cur", "new"} |->
              IF s # <<initproc, "cur">> THEN NoTable
              ELSE [node |-> [k \in Nodes |->
                                CASE k = Node(2, 0) -> 2
                                  [] k = Node(1, TRAMPOLINE) -> 3 [] k = Node(0, TRAMPOLINE) -> 4
                                  [] k = Node(1, 0) -> 5 [] k = Node(0, 0) -> 6
                                  [] OTHER -> Null],
                    leaf |-> [NoTable.leaf EXCEPT ![0] = 7, ![TRAPFRAME] = 1,
                                                  ![TRAMPOLINE] = Trampoline]]]
  /\ pc = [p \in Procs |-> "idle"] /\ op = [p \in Procs |-> "none"]
  /\ work = [p \in Procs |-> <<p, "cur">>]
  /\ old = [p \in Procs |-> 0] /\ a = [p \in Procs |-> 0] /\ goal = [p \in Procs |-> 0]
  /\ mem = [p \in Procs |-> Null] /\ nsz = [p \in Procs |-> 0]

Next == \E p \in Procs :
  \/ allocproc(p) \/ exec(p) \/ uvmcreate(p) \/ proc_pagetable(p) \/ uvm_kalloc(p) \/ uvm_map(p)
  \/ growproc_done(p) \/ fork_done(p) \/ exec_grown(p) \/ exec_segment(p) \/ exec_stack(p)
  \/ exec_fails(p) \/ exec_commit(p) \/ growproc(p) \/ growproc_shrink(p) \/ freeproc(p)

Spec == Init /\ [][Next]_vars
-----------------------------------------------------------------------------
(* Properties.                                                             *)

Tables == Procs \X {"cur", "new"}
UserPages(t) == Present(t.leaf) \ {TRAMPOLINE, TRAPFRAME}

TypeOK ==
  /\ free \subseteq Pages /\ panicked \in {0, 1}
  /\ state \in [Procs -> {"UNUSED", "USED", "LIVE"}]
  /\ tf \in [Procs -> Pages \cup {Null}] /\ mem \in [Procs -> Pages \cup {Null}]
  /\ sz \in [Procs -> 0..MAXSZ] /\ nsz \in [Procs -> 0..MAXSZ]
  /\ tab \in [Tables -> [node : [Nodes -> Pages \cup {Null}],
                         leaf : [0..TRAMPOLINE -> Pages \cup {Null, Trampoline}]]]
  /\ work \in [Procs -> Tables]
  /\ op \in [Procs -> {"none", "fork", "exec", "stack", "grow"}]

TableUses(t) == PagesAt(t, UserPages(t)) \cup TablePages(t)
InUse == ({tf[p] : p \in Procs} \cup {mem[p] : p \in Procs}
          \cup UNION {TableUses(tab[s]) : s \in Tables}) \ {Null}
UseCount == Cardinality({p \in Procs : tf[p] # Null}) + Cardinality({p \in Procs : mem[p] # Null})
            + MapThenSumSet(LAMBDA s : Cardinality(UserPages(tab[s]))
                                       + Cardinality(Present(tab[s].node)), Tables)

\* Every page is on the free list or in use in exactly one place, after every
\* failure of fork, exec and sbrk as well: no error path leaks a page, frees one
\* twice, or leaves one in two address spaces.
PagesOwned == InUse = Pages \ free /\ UseCount = Cardinality(InUse)

\* Nothing panics (remap, not mapped, leaf in freewalk), and between system
\* calls the pages that a process has mapped are those below its size, rounded
\* up, the trampoline and its own trapframe, with the page-table pages on the
\* way to them; a free slot has nothing, and PagesOwned holds.
AddressSpaces ==
  /\ TypeOK /\ panicked = 0 /\ PagesOwned
  /\ \A p \in Procs :
       LET t == tab[<<p, "cur">>] IN
       /\ state[p] = "LIVE" /\ pc[p] = "idle" =>
            /\ UserPages(t) = PagesIn(0, sz[p]) /\ t.leaf[TRAPFRAME] = tf[p]
            /\ \A v \in Present(t.leaf), l \in 0..2 : t.node[Node(l, v)] # Null
       /\ state[p] = "UNUSED" => t = NoTable /\ tf[p] = Null /\ sz[p] = 0
       /\ pc[p] = "idle" => tab[<<p, "new">>] = NoTable /\ mem[p] = Null

\* No step of any process, failed calls included, takes a page below its size
\* away from a process, or puts another page there; only the commit of exec
\* replaces the image.
ImageStable ==
  [][\A p \in Procs :
       LET t == tab[<<p, "cur">>] IN
       state[p] = "LIVE" /\ state'[p] = "LIVE" /\ tab'[<<p, "cur">>] # tab[<<p, "new">>] =>
         \A v \in PagesIn(0, Min({sz[p], sz'[p]})) :
           tab'[<<p, "cur">>].leaf[v] = t.leaf[v]]_vars
=============================================================================
