------------------------------ MODULE Terminal ------------------------------
(***************************************************************************)
(* What the console promises its readers: typed characters gather in an    *)
(* editable line of limited length, a finished line becomes input, input   *)
(* is read in order and once, and an end of file is what a read that has   *)
(* nothing else yet takes.                                                 *)
(***************************************************************************)
EXTENDS Integers, Sequences

CONSTANTS Chars, NL, EOF, Readers, Room

VARIABLES input,   \* finished lines
          line,    \* the line being typed
          got      \* what the current read of each reader has

vars == <<input, line, got>>

Init == input = <<>> /\ line = <<>> /\ got = [p \in Readers |-> <<>>]

Type(c) ==
  /\ Len(input) + Len(line) < Room
  /\ LET l == Append(line, c) IN
       IF c \in {NL, EOF} \/ Len(input) + Len(l) = Room
       THEN input' = input \o l /\ line' = <<>>
       ELSE line' = l /\ UNCHANGED input
  /\ UNCHANGED got

Erase == /\ line # <<>>
         /\ line' = SubSeq(line, 1, Len(line) - 1)
         /\ UNCHANGED <<input, got>>

EraseLine == line' = <<>> /\ UNCHANGED <<input, got>>

Read(p) == /\ input # <<>> /\ Head(input) # EOF
           /\ input' = Tail(input)
           /\ got' = [got EXCEPT ![p] = Append(@, Head(input))]
           /\ UNCHANGED line

\* A byte that could not be copied to the reader is lost.
Lose == input # <<>> /\ Head(input) # EOF /\ input' = Tail(input) /\ UNCHANGED <<line, got>>

ReadEOF(p) == /\ input # <<>> /\ Head(input) = EOF /\ got[p] = <<>>
              /\ input' = Tail(input)
              /\ UNCHANGED <<line, got>>

Return(p) == got' = [got EXCEPT ![p] = <<>>] /\ UNCHANGED <<input, line>>

Next == \/ \E c \in Chars : Type(c)
        \/ Erase \/ EraseLine \/ Lose
        \/ \E p \in Readers : Read(p) \/ ReadEOF(p) \/ Return(p)

Spec == Init /\ [][Next]_vars
=============================================================================
