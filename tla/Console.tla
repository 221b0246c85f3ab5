------------------------------- MODULE Console ------------------------------
(***************************************************************************)
(* Console input (console.c): the interrupt handler edits and finishes     *)
(* lines in a ring buffer, consoleread takes them out.  The indices r, w   *)
(* and e are unsigned and wrap at WRAP, a multiple of the buffer size.     *)
(*                                                                         *)
(* The handler is one action.  consoleread takes one turn per character    *)
(* under cons.lock: only a kill can fall between two turns.  Output is in  *)
(* Uart.                                                                   *)
(***************************************************************************)
EXTENDS Integers, Sequences, FiniteSets

CONSTANTS Chars, NL, EOF, CR,   \* what can be typed; newline, ^D, return
          Readers, Nobody, Killable,
          INPUT_BUF_SIZE, WRAP,
          MaxN                  \* bound: bytes per read

ASSUME CharAssumption == {NL, EOF} \subseteq Chars /\ CR \notin Chars /\ NL # EOF
ASSUME SizeAssumption == /\ INPUT_BUF_SIZE \in Nat \ {0} /\ MaxN \in Nat
                         /\ WRAP \in Nat /\ WRAP > INPUT_BUF_SIZE
                         /\ WRAP % INPUT_BUF_SIZE = 0
ASSUME ReaderAssumption == Nobody \notin Readers /\ Killable \subseteq Readers

VARIABLES buf, r, w, e,   \* cons
          lock,           \* the reader that holds cons.lock
          killed,
          pc, n, got      \* a reader: position, bytes it still wants, bytes read

consVars == <<buf, r, w, e>>
vars == <<consVars, lock, killed, pc, n, got>>

PCs == {"idle", "acquire", "test", "wait", "sleep", "copy"}

Slot(k) == k % INPUT_BUF_SIZE
Down(k) == (k - 1) % WRAP
Distance(a, b) == (b - a) % WRAP
-----------------------------------------------------------------------------
(* Faulty variants of the definitions below, kept for the sensitivity      *)
(* checks of the properties; no specification uses them.                   *)

\* ^D after other characters is not saved for the next read.
PutBack_Missing(p) == FALSE

-----------------------------------------------------------------------------

Up(k) == (k + 1) % WRAP

(* consoleintr                                                             *)

HasRoom == Distance(r, e) < INPUT_BUF_SIZE

LineDone(c) == c \in {NL, EOF} \/ Distance(r, Up(e)) = INPUT_BUF_SIZE

Woken == [p \in Readers |-> IF pc[p] = "sleep" THEN "acquire" ELSE pc[p]]

\* The default case; a return is stored as a newline.
consoleintr_char(k) ==
  LET c == IF k = CR THEN NL ELSE k IN
    /\ lock = Nobody /\ HasRoom
    /\ buf' = [buf EXCEPT ![Slot(e)] = c]
    /\ e' = Up(e)
    /\ w' = IF LineDone(c) THEN e' ELSE w
    /\ pc' = IF LineDone(c) THEN Woken ELSE pc
    /\ UNCHANGED <<r, lock, killed, n, got>>

consoleintr_backspace ==
  /\ lock = Nobody /\ e # w
  /\ e' = Down(e)
  /\ UNCHANGED <<buf, r, w, lock, killed, pc, n, got>>

\* Where the loop of ^U stops: at w, or behind a newline.
consoleintr_kill ==
  /\ lock = Nobody
  /\ \E k \in 0..Distance(w, e) :
       /\ e' = (e - k) % WRAP
       /\ e' = w \/ buf[Slot(Down(e'))] = NL
       /\ \A j \in 0..(k - 1) : buf[Slot((e - j - 1) % WRAP)] # NL
  /\ UNCHANGED <<buf, r, w, lock, killed, pc, n, got>>

(* consoleread                                                             *)

consoleread(p, k) ==
  /\ pc[p] = "idle"
  /\ n' = [n EXCEPT ![p] = k]
  /\ pc' = [pc EXCEPT ![p] = "acquire"]
  /\ UNCHANGED <<consVars, lock, killed, got>>

acquire(p) ==
  /\ pc[p] = "acquire" /\ lock = Nobody
  /\ lock' = p
  /\ pc' = [pc EXCEPT ![p] = "test"]
  /\ UNCHANGED <<consVars, killed, n, got>>

\* release(&cons.lock) and return.  A killed reader then exits and another
\* process takes its place.
Return(p) == /\ lock' = Nobody
             /\ pc' = [pc EXCEPT ![p] = "idle"]
             /\ n' = [n EXCEPT ![p] = 0] /\ got' = [got EXCEPT ![p] = <<>>]
             /\ killed' = [killed EXCEPT ![p] = 0]

\* The tests of both loops.
consoleread_test(p) ==
  /\ pc[p] = "test"
  /\ \/ /\ n[p] = 0 \/ (r = w /\ killed[p] = 1)
        /\ Return(p)
     \/ /\ n[p] > 0 /\ ~(r = w /\ killed[p] = 1)
        /\ pc' = [pc EXCEPT ![p] = IF r = w THEN "wait" ELSE "copy"]
        /\ UNCHANGED <<lock, killed, n, got>>
  /\ UNCHANGED consVars

consoleread_sleep(p) ==
  /\ pc[p] = "wait"
  /\ pc' = [pc EXCEPT ![p] = "sleep"]
  /\ lock' = Nobody
  /\ UNCHANGED <<consVars, killed, n, got>>

\* End of file goes back into the buffer if there is something to return.
PutBack(p) == got[p] # <<>>

consoleread_eof(p) ==
  /\ pc[p] = "copy" /\ buf[Slot(r)] = EOF
  /\ r' = IF PutBack(p) THEN r ELSE Up(r)
  /\ Return(p)
  /\ UNCHANGED <<buf, w, e>>

\* Copy one character; a newline ends the read.
consoleread_char(p) ==
  /\ pc[p] = "copy" /\ buf[Slot(r)] # EOF
  /\ r' = Up(r)
  /\ got' = [got EXCEPT ![p] = Append(@, buf[Slot(r)])]
  /\ n' = [n EXCEPT ![p] = IF buf[Slot(r)] = NL THEN 0 ELSE @ - 1]
  /\ pc' = [pc EXCEPT ![p] = "test"]
  /\ UNCHANGED <<buf, w, e, lock, killed>>

\* either_copyout fails.
consoleread_fault(p) ==
  /\ pc[p] = "copy" /\ buf[Slot(r)] # EOF
  /\ r' = Up(r)
  /\ n' = [n EXCEPT ![p] = 0]
  /\ pc' = [pc EXCEPT ![p] = "test"]
  /\ UNCHANGED <<buf, w, e, lock, killed, got>>

kill(p) ==
  /\ p \in Killable /\ killed[p] = 0 /\ pc[p] # "idle"
  /\ killed' = [killed EXCEPT ![p] = 1]
  /\ pc' = [pc EXCEPT ![p] = IF @ = "sleep" THEN "acquire" ELSE @]
  /\ UNCHANGED <<consVars, lock, n, got>>
-----------------------------------------------------------------------------

Init ==
  /\ buf = [k \in 0..(INPUT_BUF_SIZE - 1) |-> NL] /\ r = 0 /\ w = 0 /\ e = 0
  /\ lock = Nobody /\ killed = [p \in Readers |-> 0]
  /\ pc = [p \in Readers |-> "idle"] /\ n = [p \in Readers |-> 0]
  /\ got = [p \in Readers |-> <<>>]

Next ==
  \/ \E k \in Chars \cup {CR} : consoleintr_char(k)
  \/ consoleintr_backspace \/ consoleintr_kill
  \/ \E p \in Readers :
       \/ \E k \in 0..MaxN : consoleread(p, k)
       \/ acquire(p) \/ consoleread_test(p) \/ consoleread_sleep(p)
       \/ consoleread_eof(p) \/ consoleread_char(p) \/ consoleread_fault(p) \/ kill(p)

Spec == Init /\ [][Next]_vars
-----------------------------------------------------------------------------

(* Every variable has its type, and n bytes are copied at most.            *)
TypeOK ==
  /\ buf \in [0..(INPUT_BUF_SIZE - 1) -> Chars]
  /\ r \in 0..(WRAP - 1) /\ w \in 0..(WRAP - 1) /\ e \in 0..(WRAP - 1)
  /\ lock \in Readers \cup {Nobody} /\ killed \in [Readers -> {0, 1}]
  /\ pc \in [Readers -> PCs] /\ n \in [Readers -> 0..MaxN]
  /\ \A p \in Readers : got[p] \in Seq(Chars) /\ Len(got[p]) + n[p] <= MaxN

\* Input and typing never block each other for good: the indices stay in
\* order around the ring and at most a buffer apart, a full buffer always has
\* something to read, and nobody sleeps while there is something to read.
NoStandstill ==
  /\ TypeOK /\ Distance(r, w) <= Distance(r, e) /\ Distance(r, e) <= INPUT_BUF_SIZE
  /\ Distance(r, e) = INPUT_BUF_SIZE => r # w
  /\ lock = Nobody /\ r # w => \A p \in Readers : pc[p] # "sleep"

Between(a, b) == [k \in 1..Distance(a, b) |-> buf[Slot((a + k - 1) % WRAP)]]

T == INSTANCE Terminal WITH
       input <- Between(r, w), line <- Between(w, e), Room <- INPUT_BUF_SIZE

\* The ring buffer with its three indices is a line discipline: no character
\* is lost, repeated or reordered, erasing reaches only the unfinished line,
\* and every ^D gives exactly one read that returns nothing.
IsTerminal == T!Spec
=============================================================================
