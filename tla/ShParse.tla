------------------------------- MODULE ShParse ------------------------------
(***************************************************************************)
(* The parser of the shell (sh.c): from a line to a tree of commands.  The *)
(* line is a sequence of characters followed by NUL, a pointer into it is  *)
(* an index, es is the index of the NUL.  The parser keeps pointers to     *)
(* both ends of a word; nulterminate makes strings of them at the end.     *)
(*                                                                         *)
(* A parsing function returns what it has built and how far it got, or     *)
(* Panic where the code calls panic.                                       *)
(***************************************************************************)
EXTENDS Integers, Sequences, FiniteSets, FiniteSetsExt, SequencesExt

CONSTANTS MAXARGS

ASSUME ParseAssumption == MAXARGS \in Nat \ {0}

NUL == "0"
whitespace == {" "}
symbols == {"<", "|", ">", "&", ";", "(", ")"}

es(b) == Len(b) + 1
At(b, s) == IF s < es(b) THEN b[s] ELSE NUL
-----------------------------------------------------------------------------
(* Faulty variants of the definitions below, kept for the sensitivity      *)
(* checks of the properties; no specification uses them.                   *)

\* The file name of a redirection is not terminated.
RECURSIVE Ends_NoFile(_)
Ends_NoFile(c) ==
  CASE c.type = "EXEC" -> {c.argv[i][2] : i \in DOMAIN c.argv}
    [] c.type \in {"REDIR", "BACK"} -> Ends_NoFile(c.cmd)
    [] c.type \in {"PIPE", "LIST"} -> Ends_NoFile(c.left) \cup Ends_NoFile(c.right)
-----------------------------------------------------------------------------
(* Constructors                                                            *)

execcmd(argv) == [type |-> "EXEC", argv |-> argv]
redircmd(c, r) == [type |-> "REDIR", cmd |-> c, file |-> r.file, mode |-> r.mode, fd |-> r.fd]
pipecmd(l, r) == [type |-> "PIPE", left |-> l, right |-> r]
listcmd(l, r) == [type |-> "LIST", left |-> l, right |-> r]
backcmd(c) == [type |-> "BACK", cmd |-> c]

(* Tokens                                                                  *)

SkipBlanks(b, s) == Min({k \in s..es(b) : k = es(b) \/ b[k] \notin whitespace})
WordEnd(b, s) == Min({k \in s..es(b) : k = es(b) \/ b[k] \in whitespace \cup symbols})

\* The kind of the next token, its two ends, and where the one after it starts.
TokenOf(b, q, double, single) ==
  LET eq == CASE q = es(b) -> q [] double -> q + 2 [] single -> q + 1 [] OTHER -> WordEnd(b, q)
  IN  [tok |-> CASE q = es(b) -> NUL [] double -> "+" [] single -> b[q] [] OTHER -> "a",
       q |-> q, eq |-> eq, s |-> SkipBlanks(b, eq)]
TokenAt(b, q) == LET double == At(b, q) = ">" /\ At(b, q + 1) = ">"
                 IN  TokenOf(b, q, double, ~double /\ At(b, q) \in symbols)
gettoken(b, s) == TokenAt(b, SkipBlanks(b, s))

peek(b, s, toks) == At(b, SkipBlanks(b, s)) \in toks
Skip(b, s) == gettoken(b, s).s

(* The grammar                                                             *)

Panic == [ok |-> FALSE]
Built(c, s) == [ok |-> TRUE, cmd |-> c, s |-> s]

\* Go on with F, unless there was a syntax error.
Then(r, F(_)) == IF r.ok THEN F(r) ELSE Panic

Redirection(tok, word) ==
  [file |-> word, mode |-> CASE tok = "<" -> "read" [] tok = ">" -> "trunc" [] tok = "+" -> "write",
   fd |-> IF tok = "<" THEN 0 ELSE 1]

\* Put a command under redirections, the last one outermost.
Redirected(c, rs) == FoldLeft(redircmd, c, rs)

RECURSIVE parseredirs(_, _, _), parseline(_, _), parsepipe(_, _), parseargs(_, _, _, _),
          Backs(_, _)

\* rs is what was found so far.
Redirect(rs, op, word, b) ==
  IF word.tok # "a" THEN Panic
  ELSE parseredirs(Append(rs, Redirection(op.tok, <<word.q, word.eq>>)), b, word.s)
parseredirs(rs, b, s) ==
  IF ~peek(b, s, {"<", ">"}) THEN Built(rs, s)
  ELSE Redirect(rs, gettoken(b, s), gettoken(b, Skip(b, s)), b)

parseblock(b, s) ==
  Then(parseline(b, Skip(b, s)), LAMBDA line :
    IF ~peek(b, line.s, {")"}) THEN Panic
    ELSE Then(parseredirs(<<>>, b, Skip(b, line.s)), LAMBDA rs :
           Built(Redirected(line.cmd, rs.cmd), rs.s)))

\* The loop of parseexec: words go to the exec command at the bottom,
\* redirections on top of it.
parsearg(argv, rs, b, word) ==
  IF word.tok # "a" \/ Len(argv) + 1 >= MAXARGS THEN Panic
  ELSE Then(parseredirs(rs, b, word.s), LAMBDA more :
         parseargs(Append(argv, <<word.q, word.eq>>), more.cmd, b, more.s))
parseargs(argv, rs, b, s) ==
  IF peek(b, s, {"|", ")", "&", ";", NUL}) THEN Built(Redirected(execcmd(argv), rs), s)
  ELSE parsearg(argv, rs, b, gettoken(b, s))

parseexec(b, s) ==
  IF peek(b, s, {"("}) THEN parseblock(b, s)
  ELSE Then(parseredirs(<<>>, b, s), LAMBDA rs : parseargs(<<>>, rs.cmd, b, rs.s))

parsepipe(b, s) ==
  Then(parseexec(b, s), LAMBDA l :
    IF ~peek(b, l.s, {"|"}) THEN l
    ELSE Then(parsepipe(b, Skip(b, l.s)), LAMBDA r : Built(pipecmd(l.cmd, r.cmd), r.s)))

Backs(c, b) == IF peek(b, c.s, {"&"}) THEN Backs(Built(backcmd(c.cmd), Skip(b, c.s)), b) ELSE c

parseline(b, s) ==
  Then(parsepipe(b, s), LAMBDA p :
    Then(Backs(p, b), LAMBDA l :
      IF ~peek(b, l.s, {";"}) THEN l
      ELSE Then(parseline(b, Skip(b, l.s)), LAMBDA r : Built(listcmd(l.cmd, r.cmd), r.s))))

(* nulterminate                                                            *)

\* The places where it writes a NUL.
RECURSIVE Ends(_)
Ends(c) ==
  CASE c.type = "EXEC" -> {c.argv[i][2] : i \in DOMAIN c.argv}
    [] c.type = "REDIR" -> Ends(c.cmd) \cup {c.file[2]}
    [] c.type = "BACK" -> Ends(c.cmd)
    [] c.type \in {"PIPE", "LIST"} -> Ends(c.left) \cup Ends(c.right)

nulterminate(c, b) == [s \in 1..es(b) |-> IF s \in Ends(c) THEN NUL ELSE At(b, s)]

\* What a pointer into the line is the start of, from then on.
StringAt(b, s) == SubSeq(b, s, Min({k \in s..Len(b) : b[k] = NUL}) - 1)

RECURSIVE Strings(_, _)
Strings(c, b) ==
  CASE c.type = "EXEC" -> execcmd([i \in DOMAIN c.argv |-> StringAt(b, c.argv[i][1])])
    [] c.type = "REDIR" -> [c EXCEPT !.cmd = Strings(c.cmd, b), !.file = StringAt(b, c.file[1])]
    [] c.type = "BACK" -> [c EXCEPT !.cmd = Strings(c.cmd, b)]
    [] c.type \in {"PIPE", "LIST"} -> [c EXCEPT !.left = Strings(c.left, b),
                                                !.right = Strings(c.right, b)]

\* A line with something left over is a syntax error.
parsecmd(b) ==
  Then(parseline(b, 1), LAMBDA line :
    IF SkipBlanks(b, line.s) # es(b) THEN Panic
    ELSE [ok |-> TRUE, cmd |-> Strings(line.cmd, nulterminate(line.cmd, b))])
-----------------------------------------------------------------------------
(* What a line means, by its grammar:                                      *)
(*   line ::= pipe {"&"} [";" line]         pipe ::= exec ["|" pipe]       *)
(*   exec ::= "(" line ")" {redir} | {redir | word}                        *)
(*   redir ::= ("<" | ">" | ">>") word                                     *)
(* Derived gives the trees of a sequence of tokens, trying every place     *)
(* where a rule may split it.                                              *)

\* The second character of ">>".
SecondHalf(b, i) ==
  b[i] = ">" /\ (i - 1 - Max({k \in 0..(i - 1) : k = 0 \/ b[k] # ">"})) % 2 = 1

Starts(b) == {i \in DOMAIN b : /\ b[i] \notin whitespace /\ ~SecondHalf(b, i)
                               /\ \/ i = 1 \/ b[i] \in symbols
                                  \/ b[i - 1] \in whitespace \cup symbols}

Token(b, i) ==
  IF b[i] \notin symbols THEN [t |-> "a", w |-> SubSeq(b, i, WordEnd(b, i) - 1)]
  ELSE [t |-> IF i + 1 \in DOMAIN b /\ b[i] = ">" /\ b[i + 1] = ">" THEN "+" ELSE b[i],
        w |-> <<>>]

Tokens(b) == LET at == SetToSortSeq(Starts(b), <) IN [k \in DOMAIN at |-> Token(b, at[k])]

Redirs(t) == {i \in DOMAIN t : t[i].t \in {"<", ">", "+"}}
Names(t) == {i + 1 : i \in Redirs(t)}

\* Words and redirections only, every redirection with its word.
Flat(t) == /\ \A i \in DOMAIN t : t[i].t = "a" <=> i \notin Redirs(t)
           /\ \A i \in Names(t) : i \in DOMAIN t /\ t[i].t = "a"

RedirSeq(t) == LET at == SetToSortSeq(Redirs(t), <)
               IN  [k \in DOMAIN at |-> Redirection(t[at[k]].t, t[at[k] + 1].w)]
Args(t) == LET at == SetToSortSeq(DOMAIN t \ (Redirs(t) \cup Names(t)), <)
           IN  [k \in DOMAIN at |-> t[at[k]].w]

From(t, i) == SubSeq(t, i + 1, Len(t))
Before(t, i) == SubSeq(t, 1, i - 1)
Splits(t, sym) == {i \in DOMAIN t : t[i].t = sym}

RECURSIVE Derived(_, _)
Derived(rule, t) ==
  CASE rule = "line" ->
         {listcmd(x[1], x[2]) : x \in UNION {Derived("back", Before(t, i)) \X Derived("line", From(t, i))
                                             : i \in Splits(t, ";")}}
         \cup Derived("back", t)
    [] rule = "back" ->
         IF t # <<>> /\ Last(t).t = "&" THEN {backcmd(c) : c \in Derived("back", Front(t))}
         ELSE Derived("pipe", t)
    [] rule = "pipe" ->
         {pipecmd(x[1], x[2]) : x \in UNION {Derived("exec", Before(t, i)) \X Derived("pipe", From(t, i))
                                             : i \in Splits(t, "|")}}
         \cup Derived("exec", t)
    [] rule = "exec" ->
         (IF Flat(t) /\ Len(Args(t)) < MAXARGS
          THEN {Redirected(execcmd(Args(t)), RedirSeq(t))} ELSE {})
         \cup
         (IF t # <<>> /\ Head(t).t = "("
          THEN UNION {{Redirected(c, RedirSeq(From(t, i))) : c \in Derived("line", SubSeq(t, 2, i - 1))}
                      : i \in {j \in Splits(t, ")") : Flat(From(t, j)) /\ Args(From(t, j)) = <<>>}}
          ELSE {})

\* The parser accepts exactly the lines of the grammar, and the strings its
\* tree points to after nulterminate are the words of the line.
Agree(c, trees) == IF trees = {} THEN c = Panic ELSE c.ok /\ trees = {c.cmd}
ParsesRight(b) == Agree(parsecmd(b), Derived("line", Tokens(b)))
=============================================================================
