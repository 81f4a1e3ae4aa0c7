--------------------------------- MODULE Sh ---------------------------------
(***************************************************************************)
(* The shell sh.c, with init.c above it: main() reads a line and forks a    *)
(* child that parses and runs it; runcmd() forks further processes and      *)
(* passes them pipe ends and files.  An action is what one process does     *)
(* between two points where the others can notice.  A pipe is named by its  *)
(* line and the place of its bar.  fork(), pipe(), open(), exec() and       *)
(* chdir() may fail once.  A program is known only by how it may block.     *)
(***************************************************************************)
EXTENDS ShParse, FiniteSetsExt

CONSTANTS NPROC, NOFILE,
          Scripts,   \* what the user enters: sequences of lines [cd, ks]
          MaxLine    \* tokens of a line typed only to be parsed (bound)

ASSUME ShAssumption == NPROC \in Nat \ {0} /\ NOFILE > 3

VARIABLES script,  \* the lines of this session
          no,      \* lines read so far
          buf,     \* a line being typed, only parsed
          proc,    \* the processes; 1 is the shell, and 0 stands for init
          ran,     \* <<line, word>>: programs that were started
          failed   \* some call has failed

vars == <<script, no, buf, proc, ran, failed>>

Procs == 1..NPROC
Fds == 0..(NOFILE - 1)

Obj(k, n) == [k |-> k, n |-> n]
Closed == Obj("closed", <<>>)
Con == Obj("console", <<>>)
Std == [d \in Fds |-> IF d < 3 THEN Con ELSE Closed]

Unused == [pc |-> "unused", cmd |-> Panic.cmd, fd |-> [d \in Fds |-> Closed], parent |-> -1,
           line |-> 0, cwd |-> 0, p |-> <<>>, filter |-> FALSE]
\* sh, as init starts it; main() finds descriptors 0 to 2 open.
Shell == [Unused EXCEPT !.pc = "getcmd", !.parent = 0, !.fd = Std]

LowFd(fd) == Min({d \in Fds : fd[d] = Closed})
Close(fd, d) == [fd EXCEPT ![d] = Closed]
Install(fd, o) == [fd EXCEPT ![LowFd(fd)] = o]
Dup(fd, d) == Install(fd, fd[d])

\* What parsecmd() makes of the lines of the sessions.
TreeOf == [cmd \in UNION {ToSet(s) : s \in Scripts} |-> parsecmd(Tokens(cmd.ks))]

----------------------------------------------------------------------------
\* System calls, on the table of processes.

\* exit(): descriptors are closed and children handed to init.
ExitOf(p) ==
  [q \in Procs |-> IF q = p THEN [proc[p] EXCEPT !.pc = "zombie", !.fd = Unused.fd]
                   ELSE IF proc[q].parent = p THEN [proc[q] EXCEPT !.parent = 0] ELSE proc[q]]
Exit(p) == proc' = ExitOf(p) /\ UNCHANGED <<no, ran, failed>>

\* A call of p fails and the process gives up: panic(), or a message and exit().
GiveUp(p) == proc' = ExitOf(p) /\ failed' = TRUE /\ UNCHANGED <<no, ran>>
MayFail == ~failed

Slots == {q \in Procs : proc[q].pc = "unused"}

\* fork1(): p goes on as rec and the child as child, or p panics.
Fork1(p, rec, child) ==
  \/ /\ Slots # {}
     /\ LET q == Min(Slots) IN proc' = [proc EXCEPT ![p] = rec, ![q] = [child EXCEPT !.parent = p]]
     /\ UNCHANGED failed
  \/ /\ Slots = {} \/ MayFail
     /\ proc' = ExitOf(p) /\ failed' = TRUE

\* wait(): a dead child is reaped, or there is no child; p goes on as rec.
Wait(p, rec) ==
  LET kids == {q \in Procs : proc[q].parent = p}
  IN  \/ kids = {} /\ proc' = [proc EXCEPT ![p] = rec]
      \/ \E q \in kids : proc[q].pc = "zombie" /\ proc' = [proc EXCEPT ![p] = rec, ![q] = Unused]

----------------------------------------------------------------------------
\* main(): cd is done by the shell itself, any other line by a child.
Getcmd(p) ==
  /\ proc[p].pc = "getcmd" /\ no < Len(script)
  /\ no' = no + 1
  /\ LET cmd == script[no + 1]
     IN  IF cmd.cd # 0
         THEN \/ proc' = [proc EXCEPT ![p].cwd = cmd.cd] /\ UNCHANGED failed
              \/ MayFail /\ failed' = TRUE /\ UNCHANGED proc
         ELSE Fork1(p, [proc[p] EXCEPT !.pc = "main"], [proc[p] EXCEPT !.pc = "parse", !.line = no + 1])
  /\ UNCHANGED ran

MainWait(p) ==
  /\ proc[p].pc = "main" /\ Wait(p, [proc[p] EXCEPT !.pc = "getcmd"])
  /\ UNCHANGED <<no, ran, failed>>

Parse(p) ==
  /\ proc[p].pc = "parse"
  /\ LET c == TreeOf[script[proc[p].line]]
     IN  IF c = Panic.cmd THEN Exit(p)
         ELSE proc' = [proc EXCEPT ![p].pc = "runcmd", ![p].cmd = c] /\ UNCHANGED <<no, ran, failed>>

Runs(p, type) == proc[p].pc = "runcmd" /\ proc[p].cmd.type = type

RunExec(p) ==
  /\ Runs(p, "EXEC")
  /\ LET argv == proc[p].cmd.argv
     IN  \/ argv = <<>> /\ Exit(p)
         \/ /\ argv # <<>>
            /\ \E f \in BOOLEAN : proc' = [proc EXCEPT ![p].pc = "prog", ![p].filter = f]
            /\ ran' = ran \cup {<<proc[p].line, argv[1]>>}
            /\ UNCHANGED <<no, failed>>
         \/ argv # <<>> /\ MayFail /\ GiveUp(p)

RunRedir(p) ==
  /\ Runs(p, "REDIR")
  /\ LET c == proc[p].cmd
     IN  \/ /\ proc' = [proc EXCEPT ![p].cmd = c.cmd, ![p].fd = Install(Close(@, c.fd), Obj("file", <<c.file>>))]
            /\ UNCHANGED <<no, ran, failed>>
         \/ MayFail /\ GiveUp(p)

RunList(p) ==
  /\ Runs(p, "LIST")
  /\ Fork1(p, [proc[p] EXCEPT !.pc = "list"], [proc[p] EXCEPT !.cmd = proc[p].cmd.left])
  /\ UNCHANGED <<no, ran>>

ListWait(p) ==
  /\ proc[p].pc = "list"
  /\ Wait(p, [proc[p] EXCEPT !.pc = "runcmd", !.cmd = proc[p].cmd.right])
  /\ UNCHANGED <<no, ran, failed>>

RunBack(p) ==
  /\ Runs(p, "BACK")
  /\ \/ /\ Slots # {}
        /\ proc' = [ExitOf(p) EXCEPT ![Min(Slots)] = [proc[p] EXCEPT !.cmd = proc[p].cmd.cmd, !.parent = 0]]
        /\ UNCHANGED <<no, ran, failed>>
     \/ (Slots = {} \/ MayFail) /\ GiveUp(p)

\* A pipeline: pipe(), two children, the ends closed, two waits.
RunPipe(p) ==
  /\ Runs(p, "PIPE")
  /\ LET n == <<proc[p].line, proc[p].cmd.at>>
         fd == Install(proc[p].fd, Obj("r", n))
         room == Cardinality({d \in Fds : proc[p].fd[d] = Closed}) >= 2
     IN  \/ /\ room
            /\ proc' = [proc EXCEPT ![p].pc = "left", ![p].p = <<LowFd(proc[p].fd), LowFd(fd)>>,
                                    ![p].fd = Install(fd, Obj("w", n))]
            /\ UNCHANGED <<no, ran, failed>>
         \/ (~room \/ MayFail) /\ GiveUp(p)

PipeLeft(p) ==
  /\ proc[p].pc = "left"
  /\ Fork1(p, [proc[p] EXCEPT !.pc = "right"], [proc[p] EXCEPT !.pc = "to", !.cmd = proc[p].cmd.left])
  /\ UNCHANGED <<no, ran>>

PipeRight(p) ==
  /\ proc[p].pc = "right"
  /\ Fork1(p, [proc[p] EXCEPT !.pc = "close"], [proc[p] EXCEPT !.pc = "from", !.cmd = proc[p].cmd.right])
  /\ UNCHANGED <<no, ran>>

\* Mutant: the descriptor of the read end stays open in the child.
Plumbed_KeepsRead(fd, e, p) == Close(Dup(Close(fd, e), p[e + 1]), p[2])

\* A child's close(e), dup(p[e]), close(p[0]), close(p[1]).
Plumbed(fd, e, p) == Close(Close(Dup(Close(fd, e), p[e + 1]), p[1]), p[2])

Plumb(p) ==
  /\ proc[p].pc \in {"to", "from"}
  /\ proc' = [proc EXCEPT ![p].pc = "runcmd", ![p].fd = Plumbed(@, IF proc[p].pc = "to" THEN 1 ELSE 0, proc[p].p)]
  /\ UNCHANGED <<no, ran, failed>>

\* Mutant: the parent keeps the write end while it waits.
ParentEnds_KeepsWrite(p) == Close(proc[p].fd, proc[p].p[1])

\* What the parent has left before it waits.
ParentEnds(p) == Close(Close(proc[p].fd, proc[p].p[1]), proc[p].p[2])

PipeClose(p) ==
  /\ proc[p].pc = "close"
  /\ proc' = [proc EXCEPT ![p].pc = "wait1", ![p].fd = ParentEnds(p)]
  /\ UNCHANGED <<no, ran, failed>>

\* Mutant: the shell waits for one of the two only.
AfterWait_Once(pc) == "exit"

AfterWait(pc) == IF pc = "wait1" THEN "wait2" ELSE "exit"

PipeWait(p) ==
  /\ proc[p].pc \in {"wait1", "wait2"}
  /\ Wait(p, [proc[p] EXCEPT !.pc = AfterWait(@)])
  /\ UNCHANGED <<no, ran, failed>>

PipeExit(p) == proc[p].pc = "exit" /\ Exit(p)

----------------------------------------------------------------------------
\* A filter such as cat ends when its input pipe has no writer left, and needs its
\* output pipe to be read or to have no reader left; other programs just end.
Holds(o) == \E q \in Procs, d \in Fds : proc[q].fd[d] = o
Drained(n) == \E q \in Procs : proc[q].pc = "prog" /\ proc[q].filter /\ proc[q].fd[0] = Obj("r", n)

ProgEnds(p) ==
  /\ proc[p].pc = "prog"
  /\ LET in == proc[p].fd[0]
         out == proc[p].fd[1]
     IN  /\ proc[p].filter /\ in.k = "r" => ~Holds(Obj("w", in.n))
         /\ proc[p].filter /\ out.k = "w" => ~Holds(Obj("r", out.n)) \/ Drained(out.n)
  /\ Exit(p)

\* init waits for orphans and starts the shell again when it has ended.
InitWaits(p) ==
  /\ proc[p].pc = "zombie" /\ proc[p].parent = 0
  /\ proc' = [proc EXCEPT ![p] = IF p = 1 THEN Shell ELSE Unused]
  /\ UNCHANGED <<no, ran, failed>>

Step(p) ==
  /\ \/ Getcmd(p) \/ MainWait(p) \/ Parse(p) \/ RunExec(p) \/ RunRedir(p) \/ RunList(p) \/ ListWait(p)
     \/ RunBack(p) \/ RunPipe(p) \/ PipeLeft(p) \/ PipeRight(p) \/ Plumb(p) \/ PipeClose(p) \/ PipeWait(p)
     \/ PipeExit(p) \/ ProgEnds(p) \/ InitWaits(p)
  /\ UNCHANGED <<script, buf>>

\* A line of any tokens is typed; the parser is asked about every beginning of it.
Type(k) ==
  /\ script = <<>> /\ Len(buf) < MaxLine
  /\ buf' = Append(buf, k)
  /\ UNCHANGED <<script, no, proc, ran, failed>>

Init ==
  /\ script \in Scripts /\ no = 0 /\ buf = <<>>
  /\ proc = [p \in Procs |-> IF p = 1 THEN Shell ELSE Unused]
  /\ ran = {} /\ failed = FALSE

Next == (\E p \in Procs : Step(p)) \/ (\E k \in Kinds : Type(k))

\* The scheduler runs every process that can run; the user goes on typing.
Spec == Init /\ [][Next]_vars /\ \A p \in Procs : WF_vars(Step(p))

----------------------------------------------------------------------------
Tree(i) == TreeOf[script[i]]

\* The program named by the first word of a command, with its input and output.
RECURSIVE Wanted(_, _, _, _)
Wanted(c, in, out, i) ==
  CASE c.type = "EXEC" -> IF c.argv = <<>> THEN {} ELSE {[word |-> c.argv[1], in |-> in, out |-> out]}
    [] c.type = "REDIR" -> LET f == Obj("file", <<c.file>>)
                           IN  Wanted(c.cmd, IF c.fd = 0 THEN f ELSE in, IF c.fd = 1 THEN f ELSE out, i)
    [] c.type = "PIPE" -> Wanted(c.left, in, Obj("w", <<i, c.at>>), i) \cup Wanted(c.right, Obj("r", <<i, c.at>>), out, i)
    [] c.type = "LIST" -> Wanted(c.left, in, out, i) \cup Wanted(c.right, in, out, i)
    [] c.type = "BACK" -> Wanted(c.cmd, in, out, i)
    [] OTHER -> {}

\* Programs the shell waits for, and all lists inside a command.
RECURSIVE Foreground(_), ListsIn(_)
Foreground(c) ==
  CASE c.type = "EXEC" -> IF c.argv = <<>> THEN {} ELSE {c.argv[1]}
    [] c.type = "REDIR" -> Foreground(c.cmd)
    [] c.type \in {"PIPE", "LIST"} -> Foreground(c.left) \cup Foreground(c.right)
    [] OTHER -> {}
ListsIn(c) ==
  CASE c.type \in {"REDIR", "BACK"} -> ListsIn(c.cmd)
    [] c.type = "PIPE" -> ListsIn(c.left) \cup ListsIn(c.right)
    [] c.type = "LIST" -> {c} \cup ListsIn(c.left) \cup ListsIn(c.right)
    [] OTHER -> {}

Finished(i) ==
  {w \in {r[2] : r \in {x \in ran : x[1] = i}} :
     ~\E p \in Procs : proc[p].pc = "prog" /\ proc[p].line = i /\ proc[p].cmd.argv[1] = w}
Started(i) == {r[2] : r \in {x \in ran : x[1] = i}}

\* The parser accepts exactly the grammar's lines and builds the grammar's tree.
ParseIsRight == ParsedRight(Tokens(buf))

\* A program runs with exactly the input and output that its place in the tree
\* gives it, in the directory of the last cd, and holds no other pipe end or file.
PlumbingIsRight ==
  \A p \in Procs : proc[p].pc = "prog" =>
    LET q == proc[p]
        cds == {i \in 1..(q.line - 1) : script[i].cd # 0}
    IN  /\ [word |-> q.cmd.argv[1], in |-> q.fd[0], out |-> q.fd[1]] \in Wanted(Tree(q.line), Con, Con, q.line)
        /\ \A d \in Fds : d >= 2 => q.fd[d] = Std[d]
        /\ ~failed => q.cwd = IF cds = {} THEN 0 ELSE script[Max(cds)].cd

\* As long as no call fails: when the shell prompts again all foreground programs of
\* the lines before have run and ended, and so have those to the left of a semicolon
\* when one to its right starts.
ForegroundFirst ==
  ~failed => \A i \in 1..no : script[i].cd = 0 =>
    /\ proc[1].pc = "getcmd" => Foreground(Tree(i)) \subseteq Finished(i)
    /\ \A c \in ListsIn(Tree(i)) :
         LET first == {w.word : w \in Wanted(c.right, Con, Con, i)}
         IN  first \cap Started(i) # {} => Foreground(c.left) \subseteq Finished(i)

\* Whatever fails, however programs block on their pipes: the session ends with every
\* line read, every program ended and reaped, and a shell waiting for input.
SessionEnds ==
  <>(no = Len(script) /\ proc[1].pc = "getcmd" /\ \A p \in Procs \ {1} : proc[p].pc = "unused")
=============================================================================
