------------------------------ MODULE FileStore ------------------------------
(***************************************************************************)
(* What the kernel promises about the contents of a file: a sequence of    *)
(* bytes, and an offset per open file.  A write puts a prefix of its       *)
(* bytes at the offset; it may have touched more of the bytes that were    *)
(* there than it says it has written, but never bytes behind the file's    *)
(* end.                                                                    *)
(***************************************************************************)
EXTENDS Integers, Sequences

CONSTANTS Procs, Buffers, MAXSIZE

VARIABLES content, off

Bytes == UNION {{b[i] : i \in 1..Len(b)} : b \in Buffers}
Smaller(x, y) == IF x < y THEN x ELSE y
Larger(x, y) == IF x > y THEN x ELSE y

\* c with the bytes from position o on (counted from 0) replaced by d.
Patch(c, o, d) == [i \in 1..Larger(Len(c), o + Len(d)) |->
                     IF i > o /\ i <= o + Len(d) THEN d[i - o] ELSE c[i]]

Init == content = <<>> /\ off = [p \in Procs |-> 0]

\* One chunk of a write: r bytes of d are written, k have been copied.
Write(p) ==
  /\ off[p] <= Len(content)
  /\ \E b \in Buffers : \E i \in 1..Len(b) : \E j \in i..Len(b) :
       LET d == SubSeq(b, i, j) IN
       \E r \in 0..Len(d) : \E k \in r..Len(d) :
         /\ off[p] + r <= MAXSIZE
         /\ content' = SubSeq(Patch(content, off[p], SubSeq(d, 1, k)), 1,
                              Larger(Len(content), off[p] + r))
         /\ off' = [off EXCEPT ![p] = @ + r]

Read(p) ==
  /\ off[p] <= Len(content)
  /\ \E n \in 1..MAXSIZE : off' = [off EXCEPT ![p] = Smaller(@ + n, Len(content))]
  /\ UNCHANGED content

Open(p) == off' = [off EXCEPT ![p] = 0] /\ content' \in {content, <<>>}

Next == \E p \in Procs : Write(p) \/ Read(p) \/ Open(p)

Spec == Init /\ [][Next]_<<content, off>>
=============================================================================
