-------------------------------- MODULE MCFs --------------------------------
(* XvFs for TLC: process 1 forks process 2, then both make calls on the same *)
(* few names: every choice of two calls of each.                             *)
EXTENDS XvFs

Call(o, a, b, m) == [op |-> o, a |-> a, b |-> b, mode |-> m, fd |-> 1, n |-> 2, want |-> "any"]
ForkCall == Call("fork", <<>>, <<>>, "r")

LinkUnlink == {Call("creat", <<"x">>, <<>>, "rw"), Call("link", <<"cat">>, <<"x">>, "r"), Call("unlink", <<"x">>, <<>>, "r")}
Dirs == {Call("mkdir", <<"d">>, <<>>, "r"), Call("unlink", <<"d">>, <<>>, "r"), Call("creat", <<"d", "x">>, <<>>, "r"), Call("chdir", <<"d">>, <<>>, "r")}
\* More files than NFILE, more descriptors than NOFILE.
Opens == {Call("pipe", <<>>, <<>>, "r"), Call("open", <<"cat">>, <<>>, "rw")}
Uses == Opens \cup {Call("dup", <<>>, <<>>, "r"), Call("write", <<>>, <<<<"", 7>>>>, "r"), Call("fstat", <<>>, <<>>, "r"),
                    Call("mknod", <<"x">>, <<>>, "r")}
\* The console, and a device without a driver.
Devices == {[Call("mknod", <<"x">>, <<>>, "r") EXCEPT !.n = major] : major \in {CONSOLE, CONSOLE + 1}}
OpenDev == Call("open", <<"x">>, <<>>, "rw")
OnDevice == {Call("read", <<>>, <<>>, "r"), Call("write", <<>>, <<<<"", 7>>, <<"", 7>>, <<"", 7>>>>, "r"),
             Call("unlink", <<"x">>, <<>>, "r")}
\* linkunlink() of usertests.c.
LinkUnlinkProgs == { [p \in {1, 2} |-> IF p = 1 THEN <<ForkCall, a, b>> ELSE <<c, d>>] : a, b, c, d \in LinkUnlink }
Progs ==
  LinkUnlinkProgs
  \cup { [p \in {1, 2} |-> IF p = 1 THEN <<Call("mkdir", <<"d">>, <<>>, "r"), ForkCall, a, b>> ELSE <<c>>] : a, b, c \in Dirs }
  \cup { [p \in {1, 2} |-> IF p = 1 THEN <<ForkCall, a, b>> ELSE <<c, d>>] : a, c \in Opens, b, d \in Uses }
  \cup { [p \in {1, 2} |-> IF p = 1 THEN <<m, ForkCall, OpenDev, a>> ELSE <<OpenDev, b>>] : m \in Devices, a, b \in OnDevice }
MCFiles == <<"cat">>
=============================================================================
