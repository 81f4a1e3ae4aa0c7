------------------------------ MODULE ShParse -------------------------------
(***************************************************************************)
(* The parser of sh.c on sequences of tokens, and the grammar it implements *)
(* as a reference.  A token is [k, at]: its kind and its place in the line; *)
(* a word or a file name is named by its place, so trees show the order of  *)
(* words.  gettoken()'s treatment of characters and blanks is left out.     *)
(***************************************************************************)
EXTENDS Integers, Sequences, SequencesExt, FiniteSets

CONSTANT MAXARGS

ASSUME ArgsAssumption == MAXARGS \in Nat \ {0}

Kinds == {"w", "|", "(", ")", ";", "&", "<", ">", ">>"}

\* The constructors.
execcmd(argv) == [type |-> "EXEC", argv |-> argv]
redircmd(cmd, file, fd) == [type |-> "REDIR", cmd |-> cmd, file |-> file, fd |-> fd]
pipecmd(l, r, at) == [type |-> "PIPE", left |-> l, right |-> r, at |-> at]
listcmd(l, r) == [type |-> "LIST", left |-> l, right |-> r]
backcmd(cmd) == [type |-> "BACK", cmd |-> cmd]

\* A parsing function returns [cmd, rest]; panic() ends the process.
Panic == [cmd |-> [type |-> "panic"], rest |-> <<>>]
Parsed(cmd, rest) == [cmd |-> cmd, rest |-> rest]

peek(s, toks) == s # <<>> /\ Head(s).k \in toks

----------------------------------------------------------------------------
RECURSIVE parseline(_), parsepipe(_), parseexec(_), parseblock(_), parseredirs(_, _), parseargs(_, _, _), Backs(_, _)

\* What the callers do with r, the result of the function called: l is the part parsed before.
PipeOf(l, r) == IF r = Panic THEN r ELSE Parsed(pipecmd(l.cmd, r.cmd, Head(l.rest).at), r.rest)
ListOf(l, r) == IF r = Panic THEN r ELSE Parsed(listcmd(l.cmd, r.cmd), r.rest)
ArgsOf(r, argc) == IF r = Panic THEN r ELSE parseargs(r.cmd, r.rest, argc)

\* Mutant: a pipeline has one bar at most.
parsepipe_OneBar(s) ==
  LET Piped(l) == IF ~peek(l.rest, {"|"}) THEN l ELSE PipeOf(l, parseexec(Tail(l.rest)))
  IN  Piped(parseexec(s))

Redirects == {"<", ">", ">>"}

parseredirs(cmd, s) ==
  IF ~peek(s, Redirects) THEN Parsed(cmd, s)
  ELSE IF ~peek(Tail(s), {"w"}) THEN Panic
  ELSE parseredirs(redircmd(cmd, s[2].at, IF s[1].k = "<" THEN 0 ELSE 1), SubSeq(s, 3, Len(s)))

\* The loop of parseexec(): argv grows inside the redirections put around it.
RECURSIVE AddArg(_, _)
AddArg(cmd, w) ==
  IF cmd.type = "REDIR" THEN [cmd EXCEPT !.cmd = AddArg(cmd.cmd, w)] ELSE execcmd(Append(cmd.argv, w))

parseargs(cmd, s, argc) ==
  IF s = <<>> \/ peek(s, {"|", ")", "&", ";"}) THEN Parsed(cmd, s)
  ELSE IF ~peek(s, {"w"}) \/ argc + 1 >= MAXARGS THEN Panic
  ELSE ArgsOf(parseredirs(AddArg(cmd, Head(s).at), Tail(s)), argc + 1)

parseblock(s) ==
  LET Closing(r) == IF ~peek(r.rest, {")"}) THEN Panic ELSE parseredirs(r.cmd, Tail(r.rest))
  IN  Closing(parseline(Tail(s)))

parseexec(s) == IF peek(s, {"("}) THEN parseblock(s) ELSE ArgsOf(parseredirs(execcmd(<<>>), s), 0)

parsepipe(s) ==
  LET Piped(l) == IF ~peek(l.rest, {"|"}) THEN l ELSE PipeOf(l, parsepipe(Tail(l.rest)))
  IN  Piped(parseexec(s))

Backs(cmd, s) == IF peek(s, {"&"}) THEN Backs(backcmd(cmd), Tail(s)) ELSE Parsed(cmd, s)

parseline(s) ==
  LET Back(p) == Backs(p.cmd, p.rest)
      Listed(b) == IF ~peek(b.rest, {";"}) THEN b ELSE ListOf(b, parseline(Tail(b.rest)))
  IN  Listed(Back(parsepipe(s)))

\* parsecmd(): the tree, or Panic.cmd.
parsecmd(s) == LET Whole(r) == IF r.rest # <<>> THEN Panic.cmd ELSE r.cmd IN Whole(parseline(s))

\* nulterminate(): the words and file names that get their final NUL.
RECURSIVE nulterminate(_)
nulterminate(cmd) ==
  CASE cmd.type = "EXEC" -> ToSet(cmd.argv)
    [] cmd.type = "REDIR" -> nulterminate(cmd.cmd) \cup {cmd.file}
    [] cmd.type \in {"PIPE", "LIST"} -> nulterminate(cmd.left) \cup nulterminate(cmd.right)
    [] cmd.type = "BACK" -> nulterminate(cmd.cmd)
    [] OTHER -> {}

----------------------------------------------------------------------------
(***************************************************************************)
(* The grammar: all trees that a token sequence can be given.               *)
(*   line = job | job ";" line           job  = pipe | job "&"              *)
(*   pipe = unit | unit "|" pipe         unit = block | simple              *)
(*   block = "(" line ")" | block redir  redir = ("<" | ">" | ">>") word    *)
(*   simple = nothing | simple word | simple redir                          *)
(***************************************************************************)
Before(s, i) == SubSeq(s, 1, i - 1)
After(s, i) == SubSeq(s, i + 1, Len(s))
Places(s, k) == {i \in DOMAIN s : s[i].k = k}

RECURSIVE Lines(_), Jobs(_), Pipes(_), Blocks(_), Simples(_), Args(_)

Redirected(s, Of(_)) ==
  IF Len(s) < 2 \/ s[Len(s)].k # "w" \/ s[Len(s) - 1].k \notin Redirects THEN {}
  ELSE {redircmd(c, s[Len(s)].at, IF s[Len(s) - 1].k = "<" THEN 0 ELSE 1) : c \in Of(Before(s, Len(s) - 1))}

Args(c) == IF c.type = "REDIR" THEN Args(c.cmd) ELSE Len(c.argv)

Simples(s) ==
  IF s = <<>> THEN {execcmd(<<>>)}
  ELSE Redirected(s, Simples) \cup
       (IF s[Len(s)].k # "w" THEN {}
        ELSE {AddArg(c, s[Len(s)].at) : c \in {d \in Simples(Before(s, Len(s))) : Args(d) + 1 < MAXARGS}})

Blocks(s) ==
  IF Len(s) < 2 THEN {}
  ELSE Redirected(s, Blocks) \cup
       (IF Head(s).k = "(" /\ s[Len(s)].k = ")" THEN Lines(SubSeq(s, 2, Len(s) - 1)) ELSE {})

Units(s) == Blocks(s) \cup Simples(s)

\* Where a sequence may be cut at a separator, or not be cut.
Cuts(s, k) == Places(s, k) \cup {Len(s) + 1}

Pipes(s) ==
  LET At(i, ls) == IF i > Len(s) THEN ls ELSE {pipecmd(l, r, s[i].at) : l \in ls, r \in Pipes(After(s, i))}
  IN  UNION {At(i, Units(Before(s, i))) : i \in Cuts(s, "|")}

Jobs(s) ==
  Pipes(s) \cup (IF s # <<>> /\ s[Len(s)].k = "&" THEN {backcmd(c) : c \in Jobs(Before(s, Len(s)))} ELSE {})

Lines(s) ==
  LET At(i, ls) == IF i > Len(s) THEN ls ELSE {listcmd(l, r) : l \in ls, r \in Lines(After(s, i))}
  IN  UNION {At(i, Jobs(Before(s, i))) : i \in Cuts(s, ";")}

\* A line as tokens.
Tokens(ks) == [i \in DOMAIN ks |-> [k |-> ks[i], at |-> i]]

\* The parser accepts exactly the lines of the grammar and builds the only tree the
\* grammar gives them; every word of the line is terminated.
ParsedRight(s) ==
  LET Right(c) == /\ Lines(s) = IF c = Panic.cmd THEN {} ELSE {c}
                  /\ c # Panic.cmd => nulterminate(c) = Places(s, "w")
  IN  Right(parsecmd(s))
=============================================================================
