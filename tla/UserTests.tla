----------------------------- MODULE UserTests -----------------------------
(***************************************************************************)
(* The file system and pipe tests of usertests.c as programs of XvFs.  A    *)
(* test maps every process to its calls; a call says what the test expects  *)
(* ("ok": not negative, or the data read; "fail": -1; "any": not looked at).*)
(* Process 1 is the test, the others are the children it forks.  Loops are  *)
(* cut to the few turns that pass the bounds of the instance: a block, the  *)
(* direct blocks, one transaction of a write, NINODE inodes.                *)
(* longshared is not in usertests.c: it is sharedfd with writes that take   *)
(* more than one transaction.                                               *)
(***************************************************************************)
EXTENDS XvFs

Call(o, a, b, m, fd, n, w) == [op |-> o, a |-> a, b |-> b, mode |-> m, fd |-> fd, n |-> n, want |-> w]
Mkdir(a, w) == Call("mkdir", a, <<>>, "r", 0, 0, w)
Chdir_(a, w) == Call("chdir", a, <<>>, "r", 0, 0, w)
Unlink_(a, w) == Call("unlink", a, <<>>, "r", 0, 0, w)
Link_(a, b, w) == Call("link", a, b, "r", 0, 0, w)
Open_(a, m, w) == Call("open", a, <<>>, m, 0, 0, w)
Creat(a, m, w) == Call("creat", a, <<>>, m, 0, 0, w)
Close(fd) == Call("close", <<>>, <<>>, "r", fd, 0, "any")
Read(fd, n, b, w) == Call("read", <<>>, b, "r", fd, n, w)
Write(fd, b) == Call("write", <<>>, b, "r", fd, 0, "ok")
ForkTo(q) == Call("fork", <<>>, <<>>, "r", 0, q, "any")
Await == Call("wait", <<>>, <<>>, "r", 0, 0, "any")
Data(v, n) == [i \in 1..n |-> <<"", v>>]

Test(main, children) ==
  [p \in Procs |-> IF p = 1 THEN main ELSE IF p - 1 \in DOMAIN children THEN children[p - 1] ELSE <<>>]
Alone(main) == Test(main, <<>>)

----------------------------------------------------------------------------
iputtest == Alone(<<Mkdir(<<"iputdir">>, "ok"), Chdir_(<<"iputdir">>, "ok"),
                    Unlink_(<<"..", "iputdir">>, "ok"), Chdir_(<<"/">>, "ok")>>)

exitiputtest == Test(<<ForkTo(2), Await>>,
  <<<<Mkdir(<<"iputdir">>, "ok"), Chdir_(<<"iputdir">>, "ok"), Unlink_(<<"..", "iputdir">>, "ok")>>>>)

openiputtest == Test(<<Mkdir(<<"oidir">>, "ok"), ForkTo(2), Unlink_(<<"oidir">>, "ok"), Await>>,
  <<<<Open_(<<"oidir">>, "rw", "fail")>>>>)

opentest == Alone(<<Open_(<<"echo">>, "r", "ok"), Close(1), Open_(<<"doesnotexist">>, "r", "fail")>>)

writetest == Alone(<<Creat(<<"small">>, "rw", "ok"),
  Write(1, Data(1, 1)), Write(1, Data(2, 1)), Write(1, Data(1, 1)), Write(1, Data(2, 1)), Close(1),
  Open_(<<"small">>, "r", "ok"), Read(1, 4, Data(1, 1) \o Data(2, 1) \o Data(1, 1) \o Data(2, 1), "ok"), Close(1),
  Unlink_(<<"small">>, "ok")>>)

\* A file of MAXFILE blocks, read back block by block to the end.
writetest1 == Alone(<<Creat(<<"big">>, "rw", "ok")>>
  \o [i \in 1..MAXFILE |-> Write(1, Data(i, CPB))]
  \o <<Close(1), Open_(<<"big">>, "r", "ok")>>
  \o [i \in 1..MAXFILE |-> Read(1, CPB, Data(i, CPB), "ok")]
  \o <<Read(1, CPB, <<>>, "ok"), Close(1), Unlink_(<<"big">>, "ok")>>)

createtest == Alone(<<Creat(<<"a0">>, "rw", "any"), Close(1), Creat(<<"a1">>, "rw", "any"), Close(1),
                      Unlink_(<<"a0">>, "any"), Unlink_(<<"a1">>, "any")>>)

dirtest == Alone(<<Mkdir(<<"dir0">>, "ok"), Chdir_(<<"dir0">>, "ok"), Chdir_(<<"..">>, "ok"), Unlink_(<<"dir0">>, "ok")>>)

pipe1 == Test(<<Call("pipe", <<>>, <<>>, "r", 0, 0, "ok"), ForkTo(2), Close(2),
                Read(1, 2, Data(1, 3) \o Data(2, 3), "stream"), Close(1), Await>>,
              <<<<Close(1), Write(2, Data(1, 3)), Write(2, Data(2, 3))>>>>)

\* Two processes share a descriptor and its offset.
sharedfd == Test(<<Unlink_(<<"sharedfd">>, "any"), Creat(<<"sharedfd">>, "rw", "ok"), ForkTo(2),
                   Write(1, Data(1, 1)), Write(1, Data(1, 1)), Await, Close(1),
                   Open_(<<"sharedfd">>, "r", "ok"), Read(1, 9, Data(1, 2) \o Data(2, 2), "bag"),
                   Close(1), Unlink_(<<"sharedfd">>, "any")>>,
                 <<<<Write(1, Data(2, 1)), Write(1, Data(2, 1))>>>>)

longshared == Test(<<Creat(<<"shared">>, "rw", "ok"), ForkTo(2), Write(1, Data(1, MAXWRITE + 1)), Await, Close(1),
                     Open_(<<"shared">>, "r", "ok"), Read(1, 9, Data(1, MAXWRITE + 1) \o Data(2, MAXWRITE + 1), "bag"),
                     Close(1), Unlink_(<<"shared">>, "ok")>>,
                   <<<<Write(1, Data(2, MAXWRITE + 1))>>>>)

\* Each child writes a file of its own, past the direct blocks.
FileWriter(f, v) == <<Creat(<<f>>, "rw", "ok"), Write(1, Data(v, 3)), Write(1, Data(v, 3))>>
CheckFile(f, v) == <<Open_(<<f>>, "r", "ok"), Read(1, 4, Data(v, 6), "stream"), Close(1), Unlink_(<<f>>, "any")>>
fourfiles == Test(<<Unlink_(<<"f0">>, "any"), ForkTo(2), Unlink_(<<"f1">>, "any"), ForkTo(3), Await, Await>>
                  \o CheckFile("f0", 1) \o CheckFile("f1", 2),
                  <<FileWriter("f0", 1), FileWriter("f1", 2)>>)

\* Two children create names and delete one of them again, while the other does.
Creator(f) == <<Creat(<<f[1]>>, "rw", "ok"), Close(1), Creat(<<f[2]>>, "rw", "ok"), Close(1), Unlink_(<<f[1]>>, "ok")>>
Created(f) == <<Open_(<<f[1]>>, "r", "fail"), Open_(<<f[2]>>, "r", "ok"), Close(1), Unlink_(<<f[2]>>, "any")>>
createdelete == Test(<<ForkTo(2), ForkTo(3), Await, Await>> \o Created(<<"p1", "p2">>) \o Created(<<"q1", "q2">>),
                     <<Creator(<<"p1", "p2">>), Creator(<<"q1", "q2">>)>>)

unlinkread == Alone(<<Creat(<<"unlinkread">>, "rw", "ok"), Write(1, Data(5, 2)), Close(1),
  Open_(<<"unlinkread">>, "rw", "ok"), Unlink_(<<"unlinkread">>, "ok"),
  Creat(<<"unlinkread">>, "rw", "any"), Write(2, Data(6, 1)), Close(2),
  Read(1, 9, Data(5, 2), "ok"), Write(1, Data(5, 3)), Close(1), Unlink_(<<"unlinkread">>, "any")>>)

linktest == Alone(<<Unlink_(<<"lf1">>, "any"), Unlink_(<<"lf2">>, "any"),
  Creat(<<"lf1">>, "rw", "ok"), Write(1, Data(5, 2)), Close(1),
  Link_(<<"lf1">>, <<"lf2">>, "ok"), Unlink_(<<"lf1">>, "any"), Open_(<<"lf1">>, "r", "fail"),
  Open_(<<"lf2">>, "r", "ok"), Read(1, 9, Data(5, 2), "ok"), Close(1),
  Link_(<<"lf2">>, <<"lf2">>, "fail"), Unlink_(<<"lf2">>, "any"),
  Link_(<<"lf2">>, <<"lf1">>, "fail"), Link_(<<".">>, <<"lf1">>, "fail")>>)

\* In every turn parent and child create or link the same name: both create (i = 0),
\* both link (1), only the parent links (4), only the child (6).  Later one opens
\* what the other unlinks.
Make(f) == <<Creat(<<f>>, "rw", "ok"), Close(1)>>
LinkC0(f) == <<Link_(<<"C0">>, <<f>>, "any")>>
Turn(f, q, mine) == <<Unlink_(<<f>>, "any"), ForkTo(q)>> \o mine \o <<Await>>
OpenTwice(f) == <<Open_(<<f>>, "r", "any"), Close(1), Open_(<<f>>, "r", "any"), Close(1)>>
UnlinkTwice(f) == <<Unlink_(<<f>>, "any"), Unlink_(<<f>>, "any")>>
concreate == Test(
  Turn("C0", 2, Make("C0")) \o Turn("C1", 3, LinkC0("C1")) \o Turn("C4", 4, LinkC0("C4")) \o Turn("C6", 5, Make("C6"))
  \o <<Open_(<<".">>, "r", "any"), Read(1, 20, [i \in 1..4 |-> <<<<"C0", "C1", "C4", "C6">>[i], 0>>], "bag"), Close(1)>>
  \o <<ForkTo(6)>> \o UnlinkTwice("C0") \o <<Await, ForkTo(7)>> \o OpenTwice("C1") \o <<Await>>,
  <<Make("C0"), LinkC0("C1"), Make("C4"), LinkC0("C6"), OpenTwice("C0"), UnlinkTwice("C1")>>)

\* Enough links in one directory to need its indirect block.
Links == <<"x0", "x1", "x2", "x3", "x4">>
bigdir == Alone(<<Unlink_(<<"bd">>, "any"), Creat(<<"bd">>, "r", "ok"), Close(1)>>
  \o [i \in 1..Len(Links) |-> Link_(<<"bd">>, <<Links[i]>>, "ok")] \o <<Unlink_(<<"bd">>, "any")>>
  \o [i \in 1..Len(Links) |-> Unlink_(<<Links[i]>>, "ok")])

subdir == Alone(<<Unlink_(<<"ff">>, "any"), Mkdir(<<"dd">>, "ok"),
  Creat(<<"dd", "ff">>, "rw", "ok"), Write(1, Data(1, 2)), Close(1),
  Unlink_(<<"dd">>, "fail"), Mkdir(<<"/", "dd", "dd">>, "ok"),
  Creat(<<"dd", "dd", "ff">>, "rw", "ok"), Write(1, Data(2, 2)), Close(1),
  Open_(<<"dd", "dd", "..", "ff">>, "r", "ok"), Read(1, 9, Data(1, 2), "ok"), Close(1),
  Link_(<<"dd", "dd", "ff">>, <<"dd", "dd", "ffff">>, "ok"), Unlink_(<<"dd", "dd", "ff">>, "ok"),
  Open_(<<"dd", "dd", "ff">>, "r", "fail"), Chdir_(<<"dd">>, "ok"), Chdir_(<<"dd", "..", "..", "dd">>, "ok"),
  Chdir_(<<"dd", "..", "..", "..", "dd">>, "ok"), Chdir_(<<".", "..">>, "ok"),
  Open_(<<"dd", "dd", "ffff">>, "r", "ok"), Read(1, 9, Data(2, 2), "ok"), Close(1),
  Open_(<<"dd", "dd", "ff">>, "r", "fail"), Creat(<<"dd", "ff", "ff">>, "rw", "fail"),
  Creat(<<"dd", "xx", "ff">>, "rw", "fail"), Creat(<<"dd">>, "r", "fail"),
  Open_(<<"dd">>, "rw", "fail"), Open_(<<"dd">>, "w", "fail"),
  Link_(<<"dd", "ff", "ff">>, <<"dd", "dd", "xx">>, "fail"), Link_(<<"dd", "xx", "ff">>, <<"dd", "dd", "xx">>, "fail"),
  Link_(<<"dd", "ff">>, <<"dd", "dd", "ffff">>, "fail"),
  Mkdir(<<"dd", "ff", "ff">>, "fail"), Mkdir(<<"dd", "xx", "ff">>, "fail"), Mkdir(<<"dd", "dd", "ffff">>, "fail"),
  Unlink_(<<"dd", "xx", "ff">>, "fail"), Unlink_(<<"dd", "ff", "ff">>, "fail"),
  Chdir_(<<"dd", "ff">>, "fail"), Chdir_(<<"dd", "xx">>, "fail"),
  Unlink_(<<"dd", "dd", "ffff">>, "ok"), Unlink_(<<"dd", "ff">>, "ok"), Unlink_(<<"dd">>, "fail"),
  Unlink_(<<"dd", "dd">>, "ok"), Unlink_(<<"dd">>, "ok")>>)

\* Writes that take more than one transaction.
bigwrite == Alone(<<Unlink_(<<"bigwrite">>, "any"),
  Creat(<<"bigwrite">>, "rw", "ok"), Write(1, Data(1, MAXWRITE + 1)), Write(1, Data(1, MAXWRITE + 1)), Close(1), Unlink_(<<"bigwrite">>, "any"),
  Creat(<<"bigwrite">>, "rw", "ok"), Write(1, Data(1, 2 * MAXWRITE)), Write(1, Data(1, 2 * MAXWRITE)), Close(1), Unlink_(<<"bigwrite">>, "any")>>)

bigfile == Alone(<<Unlink_(<<"bigfile">>, "any"), Creat(<<"bigfile">>, "rw", "ok")>>
  \o [i \in 1..3 |-> Write(1, Data(i, 2))] \o <<Close(1), Open_(<<"bigfile">>, "r", "ok")>>
  \o [i \in 1..6 |-> Read(1, 1, Data((i + 1) \div 2, 1), "ok")]
  \o <<Read(1, 1, <<>>, "ok"), Close(1), Unlink_(<<"bigfile">>, "any")>>)

\* "name15" is one character longer than the DIRSIZ of "name14".
fourteen == Alone(<<Mkdir(<<"name14">>, "ok"), Mkdir(<<"name14", "name15">>, "ok"),
  Creat(<<"name15", "name15", "name15">>, "r", "ok"), Close(1),
  Open_(<<"name14", "name14", "name14">>, "r", "ok"), Close(1),
  Mkdir(<<"name14", "name14">>, "fail"), Mkdir(<<"name15", "name14">>, "fail")>>)

rmdot == Alone(<<Mkdir(<<"dots">>, "ok"), Chdir_(<<"dots">>, "ok"), Unlink_(<<".">>, "fail"), Unlink_(<<"..">>, "fail"),
  Chdir_(<<"/">>, "ok"), Unlink_(<<"dots", ".">>, "fail"), Unlink_(<<"dots", "..">>, "fail"), Unlink_(<<"dots">>, "ok")>>)

dirfile == Alone(<<Creat(<<"dirfile">>, "r", "ok"), Close(1), Chdir_(<<"dirfile">>, "fail"),
  Open_(<<"dirfile", "xx">>, "r", "fail"), Creat(<<"dirfile", "xx">>, "r", "fail"), Mkdir(<<"dirfile", "xx">>, "fail"),
  Unlink_(<<"dirfile", "xx">>, "fail"), Link_(<<"README">>, <<"dirfile", "xx">>, "fail"), Unlink_(<<"dirfile">>, "ok"),
  Open_(<<".">>, "rw", "fail"), Open_(<<".">>, "r", "any"), Call("write", <<>>, Data(1, 1), "r", 1, 0, "fail"), Close(1)>>)

\* NINODE + 1 directories, each the current one in turn, and empty path names.
IrefTurn == <<Mkdir(<<"irefd">>, "ok"), Chdir_(<<"irefd">>, "ok"), Mkdir(<<>>, "any"), Link_(<<"README">>, <<>>, "any"),
              Creat(<<>>, "r", "any"), Creat(<<"xx">>, "r", "any"), Close(1), Unlink_(<<"xx">>, "any")>>
iref == Alone(FlattenSeq([i \in 1..(NINODE + 1) |-> IrefTurn]) \o <<Chdir_(<<"/">>, "any")>>)

\* main() runs them one after the other; here each starts on a fresh image.
Tests == {iputtest, exitiputtest, openiputtest, opentest, writetest, writetest1, createtest, dirtest, pipe1, sharedfd, longshared,
          fourfiles, createdelete, unlinkread, linktest, concreate, bigdir, subdir, bigwrite, bigfile, fourteen, rmdot,
          dirfile, iref}

MCFiles == <<"echo", "README", "init">>
=============================================================================
