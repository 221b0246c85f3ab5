------------------------------- MODULE Virtio -------------------------------
(***************************************************************************)
(* The disk driver (virtio_disk.c): descriptors, the two rings it shares   *)
(* with the device, and the completion interrupt.                          *)
(*                                                                         *)
(* virtio_disk_rw runs under vdisk_lock from one sleep to the next, and    *)
(* the device looks at nothing before avail->idx moves, so each stretch is *)
(* one action.  The interrupt handler loops under the lock while the       *)
(* device may add completions: one action per turn.  Ring indices are      *)
(* unsigned and wrap at WRAP, a multiple of NUM (2^16 in the code).        *)
(*                                                                         *)
(* The device takes requests in order and completes them in any order.     *)
(* A buffer belongs to one process at a time (its sleep lock), and buffer  *)
(* b holds block b.                                                        *)
(***************************************************************************)
EXTENDS Integers, Sequences, FiniteSets

CONSTANTS Procs, Bufs, NoBuf, Vals, NUM, WRAP

ASSUME SetAssumption == NoBuf \notin Bufs /\ Cardinality(Vals) > 1
ASSUME SizeAssumption == NUM \in Nat /\ NUM >= 3 /\ WRAP \in Nat /\ WRAP >= NUM
                         /\ WRAP % NUM = 0

VARIABLES
  free, desc, ops, info,   \* descriptors, headers and requests, as in struct disk
  avail, availIdx,         \* disk.avail
  used, usedIdx,           \* disk.used
  used_idx,                \* completions the driver has seen
  busy,                    \* b->disk
  data,                    \* b->data
  platter, taken, fetched, irq,  \* the device: contents, requests it has
                                 \* taken from avail, those under way, interrupt
  intr,                    \* the interrupt handler, which has the lock: 0 not running,
                           \* 1 in its loop, 2 past it
  panicked,
  pc, buf, wr, val, head   \* a process: position, buffer, write flag, the value
                           \* to be transferred, first descriptor

queueVars == <<free, desc, ops, info, avail, availIdx>>
devVars == <<used, usedIdx, platter, taken, fetched, irq>>
reqVars == <<buf, wr, val>>
vars == <<queueVars, devVars, used_idx, busy, data, intr, panicked, pc, reqVars, head>>

Descs == 0..(NUM - 1)
Index == 0..(WRAP - 1)
NoDesc == [addr |-> NoBuf, more |-> 0, next |-> 0]
PCs == {"idle", "alloc", "nodesc", "io", "woken", "held"}

Wakeup(f, s, w) == [p \in Procs |-> IF f[p] = s THEN w ELSE f[p]]

FreeDescs == {d \in Descs : free[d] = 1}

\* alloc_desc, three times: the lowest free descriptors.
Lowest(S) == CHOOSE d \in S : \A e \in S : d <= e
Third(S) == LET d1 == Lowest(S)
                d2 == Lowest(S \ {d1})
            IN <<d1, d2, Lowest(S \ {d1, d2})>>
-----------------------------------------------------------------------------
(* Faulty variants of the definitions below, kept for the sensitivity      *)
(* checks of the properties; no specification uses them.                   *)

\* The process does not look at b->disk again.
Finished_Once(p) == TRUE

\* The interrupt is acknowledged after the loop.
AckLast_Late == 0

-----------------------------------------------------------------------------

Inc(k) == (k + 1) % WRAP

(* virtio_disk_rw                                                          *)

\* A process that has locked buffer b, which holds v, calls virtio_disk_rw to
\* write it or to read what the disk has.  The disk has something else, so
\* that a transfer shows.
virtio_disk_rw(p, b, w, v) ==
  /\ pc[p] = "idle" /\ v # platter[b] /\ \A q \in Procs : buf[q] # b
  /\ buf' = [buf EXCEPT ![p] = b] /\ wr' = [wr EXCEPT ![p] = w]
  /\ val' = [val EXCEPT ![p] = IF w = 1 THEN v ELSE platter[b]]
  /\ data' = [data EXCEPT ![b] = v]
  /\ pc' = [pc EXCEPT ![p] = "alloc"]
  /\ UNCHANGED <<queueVars, devVars, used_idx, busy, intr, panicked, head>>

\* alloc3_desc fails: it frees what it got, which wakes the other waiters,
\* and virtio_disk_rw sleeps.
alloc3_fail(p) ==
  /\ pc[p] = "alloc" /\ intr = 0 /\ panicked = 0
  /\ Cardinality(FreeDescs) < 3
  /\ pc' = LET woken == IF FreeDescs = {} THEN pc ELSE Wakeup(pc, "nodesc", "alloc")
           IN [woken EXCEPT ![p] = "nodesc"]
  /\ desc' = [d \in Descs |-> IF d \in FreeDescs THEN NoDesc ELSE desc[d]]
  /\ UNCHANGED <<free, ops, info, avail, availIdx, devVars, used_idx, busy, data,
                 intr, panicked, reqVars, head>>

\* The three descriptors of a request.
Chained(idx, b) == [d \in Descs |->
  CASE d = idx[1] -> [addr |-> NoBuf, more |-> 1, next |-> idx[2]]
    [] d = idx[2] -> [addr |-> b, more |-> 1, next |-> idx[3]]
    [] d = idx[3] -> NoDesc
    [] OTHER -> desc[d]]

\* Allocate, format, publish, and sleep until the request is done.
submit(p) ==
  /\ pc[p] = "alloc" /\ intr = 0 /\ panicked = 0
  /\ Cardinality(FreeDescs) >= 3
  /\ LET idx == Third(FreeDescs)
         b == buf[p]
     IN /\ free' = [d \in Descs |-> IF d \in {idx[1], idx[2], idx[3]} THEN 0 ELSE free[d]]
        /\ ops' = [ops EXCEPT ![idx[1]] = [write |-> wr[p], sector |-> b]]
        /\ desc' = Chained(idx, b)
        /\ info' = [info EXCEPT ![idx[1]] = [b |-> b, status |-> 255]]
        /\ busy' = [busy EXCEPT ![b] = 1]
        /\ avail' = [avail EXCEPT ![availIdx % NUM] = idx[1]]
        /\ availIdx' = Inc(availIdx)
        /\ head' = [head EXCEPT ![p] = idx[1]]
  /\ pc' = [pc EXCEPT ![p] = "io"]
  /\ UNCHANGED <<devVars, used_idx, data, intr, panicked, reqVars>>

Finished(p) == busy[buf[p]] = 0

\* Woken for another reason (a kill): back to sleep.
sleep_again(p) ==
  /\ pc[p] = "woken" /\ intr = 0 /\ panicked = 0 /\ ~Finished(p)
  /\ pc' = [pc EXCEPT ![p] = "io"]
  /\ UNCHANGED <<queueVars, devVars, used_idx, busy, data, intr, panicked, reqVars, head>>

\* free_chain: the descriptors from d on, along next while the flag says so
\* (the third descriptor of a chain never does).
Chain(d) == LET d2 == desc[d].next
                d3 == desc[d2].next
            IN {d} \cup (IF desc[d].more = 0 THEN {} ELSE {d2})
                   \cup (IF desc[d].more = 0 \/ desc[d2].more = 0 THEN {} ELSE {d3})

finish(p) ==
  /\ pc[p] = "woken" /\ intr = 0 /\ panicked = 0 /\ Finished(p)
  /\ panicked' = IF \E d \in Chain(head[p]) : free[d] = 1 THEN 1 ELSE 0
  /\ info' = [info EXCEPT ![head[p]].b = NoBuf]
  /\ free' = [d \in Descs |-> IF d \in Chain(head[p]) THEN 1 ELSE free[d]]
  /\ desc' = [d \in Descs |-> IF d \in Chain(head[p]) THEN NoDesc ELSE desc[d]]
  /\ pc' = [Wakeup(pc, "nodesc", "alloc") EXCEPT ![p] = "held"]
  /\ head' = [head EXCEPT ![p] = 0]
  /\ UNCHANGED <<ops, avail, availIdx, devVars, used_idx, busy, data, intr, reqVars>>

\* The caller releases the buffer.
release(p) ==
  /\ pc[p] = "held"
  /\ pc' = [pc EXCEPT ![p] = "idle"] /\ buf' = [buf EXCEPT ![p] = NoBuf]
  /\ UNCHANGED <<queueVars, devVars, used_idx, busy, data, intr, panicked, wr, val, head>>

\* kill makes a sleeping process runnable.
kill(p) ==
  /\ pc[p] \in {"nodesc", "io"}
  /\ pc' = [pc EXCEPT ![p] = IF @ = "io" THEN "woken" ELSE "alloc"]
  /\ UNCHANGED <<queueVars, devVars, used_idx, busy, data, intr, panicked, reqVars, head>>

(* virtio_disk_intr                                                        *)

\* The interrupt line after the acknowledgement at the start, and after the loop.
AckFirst == 0
AckLast == irq

virtio_disk_intr ==
  /\ irq = 1 /\ intr = 0 /\ panicked = 0
  /\ intr' = 1
  /\ irq' = AckFirst
  /\ UNCHANGED <<queueVars, used, usedIdx, platter, taken, fetched, used_idx, busy,
                 data, panicked, pc, reqVars, head>>

Completed == used[used_idx % NUM]

Woken(b) == [p \in Procs |-> IF pc[p] = "io" /\ buf[p] = b THEN "woken" ELSE pc[p]]

\* One completion; without a buffer for it, the handler would fault.
intr_turn ==
  /\ intr = 1 /\ panicked = 0 /\ used_idx # usedIdx
  /\ LET id == Completed
         b == info[id].b
     IN IF info[id].status # 0 \/ b = NoBuf
        THEN panicked' = 1 /\ UNCHANGED <<busy, pc, used_idx>>
        ELSE /\ busy' = [busy EXCEPT ![b] = 0]
             /\ pc' = Woken(b)
             /\ used_idx' = Inc(used_idx)
             /\ UNCHANGED panicked
  /\ UNCHANGED <<queueVars, devVars, data, intr, reqVars, head>>

intr_exit ==
  /\ intr = 1 /\ panicked = 0 /\ used_idx = usedIdx
  /\ intr' = 2
  /\ UNCHANGED <<queueVars, devVars, used_idx, busy, data, panicked, pc, reqVars, head>>

intr_return ==
  /\ intr = 2
  /\ intr' = 0
  /\ irq' = AckLast
  /\ UNCHANGED <<queueVars, used, usedIdx, platter, taken, fetched, used_idx, busy,
                 data, panicked, pc, reqVars, head>>

(* The device.                                                             *)

device_fetch ==
  /\ taken # availIdx
  /\ fetched' = fetched \cup {avail[taken % NUM]}
  /\ taken' = Inc(taken)
  /\ UNCHANGED <<queueVars, used, usedIdx, platter, irq, used_idx, busy, data, intr,
                 panicked, pc, reqVars, head>>

\* Transfer, write the status, put the request in the used ring, interrupt.
device_complete(h) ==
  /\ h \in fetched
  /\ LET b == desc[desc[h].next].addr
         s == ops[h].sector
     IN IF ops[h].write = 1
        THEN platter' = [platter EXCEPT ![s] = data[b]] /\ UNCHANGED data
        ELSE data' = [data EXCEPT ![b] = platter[s]] /\ UNCHANGED platter
  /\ info' = [info EXCEPT ![h].status = 0]
  /\ used' = [used EXCEPT ![usedIdx % NUM] = h]
  /\ usedIdx' = Inc(usedIdx)
  /\ fetched' = fetched \ {h}
  /\ irq' = 1
  /\ UNCHANGED <<free, desc, ops, avail, availIdx, taken, used_idx, busy, intr,
                 panicked, pc, reqVars, head>>
-----------------------------------------------------------------------------

Init ==
  /\ free = [d \in Descs |-> 1] /\ desc = [d \in Descs |-> NoDesc]
  /\ ops \in [Descs -> {[write |-> 0, sector |-> b] : b \in Bufs}]
  /\ \A d, e \in Descs : ops[d] = ops[e]
  /\ info = [d \in Descs |-> [b |-> NoBuf, status |-> 0]]
  /\ avail = [d \in Descs |-> 0] /\ availIdx = 0
  /\ used = [d \in Descs |-> 0] /\ usedIdx = 0 /\ used_idx = 0
  /\ busy = [b \in Bufs |-> 0]
  /\ data \in [Bufs -> Vals] /\ platter \in [Bufs -> Vals]
  /\ taken = 0 /\ fetched = {} /\ irq = 0 /\ intr = 0 /\ panicked = 0
  /\ pc = [p \in Procs |-> "idle"] /\ buf = [p \in Procs |-> NoBuf]
  /\ wr = [p \in Procs |-> 0] /\ \E v \in Vals : val = [p \in Procs |-> v]
  /\ head = [p \in Procs |-> 0]

Driver(p) == alloc3_fail(p) \/ submit(p) \/ sleep_again(p) \/ finish(p)

Handler == virtio_disk_intr \/ intr_turn \/ intr_exit \/ intr_return

Device == device_fetch \/ \E h \in Descs : device_complete(h)

Next ==
  \/ \E p \in Procs : \/ Driver(p) \/ release(p) \/ kill(p)
                      \/ \E b \in Bufs, w \in {0, 1}, v \in Vals : virtio_disk_rw(p, b, w, v)
  \/ Handler \/ Device

Spec == Init /\ [][Next]_vars
-----------------------------------------------------------------------------

(* Every variable has its type; the ring indices stay below WRAP.          *)
TypeOK ==
  /\ free \in [Descs -> {0, 1}]
  /\ desc \in [Descs -> [addr : Bufs \cup {NoBuf}, more : {0, 1}, next : Descs]]
  /\ ops \in [Descs -> [write : {0, 1}, sector : Bufs]]
  /\ info \in [Descs -> [b : Bufs \cup {NoBuf}, status : {0, 255}]]
  /\ avail \in [Descs -> Descs] /\ availIdx \in Index
  /\ used \in [Descs -> Descs] /\ usedIdx \in Index /\ used_idx \in Index
  /\ busy \in [Bufs -> {0, 1}]
  /\ data \in [Bufs -> Vals] /\ platter \in [Bufs -> Vals]
  /\ taken \in Index /\ fetched \subseteq Descs
  /\ irq \in {0, 1} /\ intr \in {0, 1, 2} /\ panicked \in {0, 1}
  /\ pc \in [Procs -> PCs] /\ buf \in [Procs -> Bufs \cup {NoBuf}]
  /\ wr \in [Procs -> {0, 1}] /\ val \in [Procs -> Vals] /\ head \in [Procs -> Descs]

InIO == {p \in Procs : pc[p] \in {"io", "woken"}}

\* Descriptors are neither leaked nor shared: those not free are the chains of
\* the requests under way, three to each.  The checks of free_desc and
\* virtio_disk_intr never fail, and every completion finds its buffer.
DescOwned ==
  /\ TypeOK /\ panicked = 0
  /\ Cardinality({d \in Descs : free[d] = 0}) = 3 * Cardinality(InIO)
  /\ \A p \in InIO : /\ Cardinality(Chain(head[p])) = 3
                     /\ \A d \in Chain(head[p]) : free[d] = 0
  /\ \A p, q \in InIO : p # q => Chain(head[p]) \cap Chain(head[q]) = {}

\* When virtio_disk_rw returns, the device has carried out this request, on
\* this buffer and this block: both hold the value to be transferred.
TransferDone ==
  \A p \in Procs : pc[p] = "held" =>
    data[buf[p]] = val[p] /\ platter[buf[p]] = val[p]

\* Nobody is left asleep: when the handler of virtio_disk_intr is not running
\* and no interrupt is pending, it has seen everything in the used ring; who
\* waits in virtio_disk_rw for a request has one under way, and who waits for
\* descriptors finds fewer than three; DescOwned holds besides.
NoLostWakeup ==
  /\ DescOwned
  /\ intr = 0 /\ irq = 0 => used_idx = usedIdx
  /\ \A p \in Procs : /\ pc[p] = "io" => busy[buf[p]] = 1
                      /\ pc[p] = "nodesc" => Cardinality(FreeDescs) < 3
=============================================================================
