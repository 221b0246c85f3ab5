-------------------------------- MODULE Grep --------------------------------
(***************************************************************************)
(* grep (grep.c): reads its input piece by piece into a buffer, prints the *)
(* complete lines that match, and keeps the beginning of the next line.    *)
(* How much a read returns is up to the file or pipe it reads from.        *)
(***************************************************************************)
EXTENDS Integers, Sequences, FiniteSets, FiniteSetsExt, SequencesExt

CONSTANTS BUFSIZE

ASSUME GrepAssumption == BUFSIZE \in Nat \ {0}

VARIABLES pattern, text,   \* the pattern, and the whole input
          pos,             \* how much of it has been read
          kept,            \* the m bytes at the start of buf
          printed,         \* the lines written so far
          grepping

grepVars == <<pattern, text, pos, kept, printed, grepping>>

NL == "n"
-----------------------------------------------------------------------------
(* Faulty variants of the definitions below, kept for the sensitivity      *)
(* checks of the properties; no specification uses them.                   *)

\* What is left of a line is not kept for the next read.
Rest_Dropped(b) == <<>>
-----------------------------------------------------------------------------
(* The matcher.  Patterns and lines end in a NUL: an index behind the end. *)

Is(s, i, c) == i \in DOMAIN s /\ s[i] = c

RECURSIVE matchhere(_, _, _, _), matchstar(_, _, _, _, _)

\* The pattern from i at the line from j.
matchhere(re, i, s, j) ==
  CASE i > Len(re) -> TRUE
    [] Is(re, i + 1, "*") -> matchstar(re[i], re, i + 2, s, j)
    [] ~Is(re, i + 1, "*") /\ Is(re, i, "$") /\ i = Len(re) -> j > Len(s)
    [] OTHER -> /\ j <= Len(s) /\ (re[i] = "." \/ re[i] = s[j])
                /\ matchhere(re, i + 1, s, j + 1)

matchstar(c, re, i, s, j) ==
  \/ matchhere(re, i, s, j)
  \/ /\ j <= Len(s) /\ (s[j] = c \/ c = ".")
     /\ matchstar(c, re, i, s, j + 1)

match(re, s) ==
  IF Is(re, 1, "^") THEN matchhere(re, 2, s, 1)
  ELSE \E j \in 1..(Len(s) + 1) : matchhere(re, 1, s, j)

(* The loop over the lines of the buffer                                   *)

Newlines(b) == {i \in DOMAIN b : b[i] = NL}
LastNewline(b) == Max(Newlines(b) \cup {0})
LinesOf(b) ==
  LET ends == SetToSortSeq(Newlines(b), <)
  IN  [k \in DOMAIN ends |->
         SubSeq(b, IF k = 1 THEN 1 ELSE ends[k - 1] + 1, ends[k] - 1)]
Rest(b) == SubSeq(b, LastNewline(b) + 1, Len(b))

\* One turn of the loop of grep: a read of n bytes and the lines it completes.
grep(n) ==
  /\ grepping = 1 /\ n \in 1..(BUFSIZE - Len(kept) - 1) /\ pos + n <= Len(text)
  /\ LET b == kept \o SubSeq(text, pos + 1, pos + n) IN
       /\ printed' = printed \o SelectSeq(LinesOf(b), LAMBDA l : match(pattern, l))
       /\ kept' = Rest(b)
  /\ pos' = pos + n
  /\ UNCHANGED <<pattern, text, grepping>>

\* A read returns nothing: at the end, or when the buffer is full.
grep_end ==
  /\ grepping = 1 /\ (pos = Len(text) \/ Len(kept) = BUFSIZE - 1)
  /\ grepping' = 0
  /\ UNCHANGED <<pattern, text, pos, kept, printed>>

GrepInit(re, t) == /\ pattern = re /\ text = t
                   /\ pos = 0 /\ kept = <<>> /\ printed = <<>> /\ grepping = 1

GrepNext == grep_end \/ \E n \in 1..BUFSIZE : grep(n)
-----------------------------------------------------------------------------
(* What a pattern matches: its atoms can be laid out along a piece of the  *)
(* line.  An atom is a character, any number of it, or the end of the line.*)

RECURSIVE Atoms(_)
Atoms(re) ==
  IF re = <<>> THEN <<>>
  ELSE LET kind == CASE Is(re, 2, "*") -> "star"
                     [] ~Is(re, 2, "*") /\ re = <<"$">> -> "end"
                     [] OTHER -> "one"
       IN  <<[c |-> Head(re), kind |-> kind]>>
           \o Atoms(SubSeq(re, IF kind = "star" THEN 3 ELSE 2, Len(re)))

Matches(re, s) ==
  LET anchored == Is(re, 1, "^")
      atoms == Atoms(IF anchored THEN Tail(re) ELSE re)
      k == Len(atoms)
  IN  \E cut \in [0..k -> 0..Len(s)] :
        /\ anchored => cut[0] = 0
        /\ \A i \in 1..k :
             CASE atoms[i].kind = "end" -> cut[i - 1] = Len(s) /\ cut[i] = Len(s)
               [] atoms[i].kind = "one" -> /\ cut[i] = cut[i - 1] + 1
                                           /\ atoms[i].c \in {".", s[cut[i]]}
               [] atoms[i].kind = "star" -> /\ cut[i - 1] <= cut[i]
                                            /\ \A j \in (cut[i - 1] + 1)..cut[i] :
                                                 atoms[i].c \in {".", s[j]}

\* However the input arrives, grep has printed the matching ones of the
\* lines it has read completely, in order and once, and holds the rest; it
\* stops early only in front of a line that does not fit (grep, match).
GrepRight ==
  LET seen == SubSeq(text, 1, pos) IN
    /\ printed = SelectSeq(LinesOf(seen), LAMBDA l : Matches(pattern, l))
    /\ kept = Rest(seen)
    /\ grepping = 0 => pos = Len(text) \/ Len(kept) = BUFSIZE - 1
=============================================================================
