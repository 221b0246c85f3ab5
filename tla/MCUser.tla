------------------------------- MODULE MCUser -------------------------------
(***************************************************************************)
(* The programs of user/ that are modelled: the shell with the files and   *)
(* descriptors it works on, the allocator and grep.  They share nothing,   *)
(* so each is explored while the others rest in their initial states.      *)
(***************************************************************************)
EXTENDS Shell, Malloc, Grep

CONSTANTS MaxLine, MaxPattern, MaxText   \* bounds: lengths

VARIABLES running, sample   \* sample: a line to be parsed

Texts(alphabet, n) == {SubSeq(s, 1, Len(s)) : s \in UNION {[1..k -> alphabet] : k \in 0..n}}

Alphabet == symbols \cup whitespace \cup {"x"}

\* What is typed: simple commands, lists, pipelines, blocks, redirections,
\* jobs in the background, a syntax error and cd.
MCLines == {<<"x">>, <<"x", "|", "x">>, <<"x", ";", "x">>, <<"x", "&", ";", "x">>,
            <<"x", "|", "x", "|", "x">>, <<"(", "x", ";", "x", ")", "|", "x">>,
            <<"x", "<", "x", "|", "x", ">", ">", "x">>, <<"x", ">", "x", "&">>,
            <<"|", ";">>, <<")">>, <<"c", "d", " ", "x">>}

\* Programs that read, write, or run out of descriptors.
MCScripts == {Fd("read", 0) \o Fd("read", 0), Fd("write", 1) \o Fd("write", 1),
              Fd("fstat", 0) \o Op("userpipe") \o Fd("dup", 0)}

UserVars == <<vars, heapVars, grepVars, running, sample>>

UserInit ==
  /\ Init /\ HeapInit
  /\ \/ running \in {"sh", "malloc"} /\ sample = <<>> /\ GrepInit(<<>>, <<>>)
     \/ running = "parser" /\ sample \in Texts(Alphabet, MaxLine) /\ GrepInit(<<>>, <<>>)
     \/ /\ running = "grep" /\ sample = <<>>
        /\ \E re \in Texts({"a", "b", ".", "*", "^", "$"}, MaxPattern),
              t \in Texts({"a", "b", NL}, MaxText) : GrepInit(re, t)

UserNext ==
  \/ running = "sh" /\ Next /\ UNCHANGED <<heapVars, grepVars, running, sample>>
  \/ running = "malloc" /\ HeapNext /\ UNCHANGED <<vars, grepVars, running, sample>>
  \/ running = "grep" /\ GrepNext /\ UNCHANGED <<vars, heapVars, running, sample>>

\* The scheduler runs every process that can run.
UserSpec ==
  /\ UserInit /\ [][UserNext]_UserVars
  /\ WF_vars(running = "sh" /\ initwait)
  /\ \A p \in Procs : WF_vars(running = "sh" /\ Step(p))

\* Every line is parsed as the grammar of the shell says, and the strings
\* of the tree are the words of the line (parsecmd, nulterminate).
ParseRight == ParsesRight(sample)

\* Whatever the line, the shell comes back for the next command
\* (Shell!PromptReturns).
ShellReturns == running = "sh" => PromptReturns
=============================================================================
