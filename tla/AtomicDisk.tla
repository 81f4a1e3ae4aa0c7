---------------------------- MODULE AtomicDisk ----------------------------
(***************************************************************************)
(* What the xv6 log promises to the file system: a disk whose blocks are   *)
(* changed by whole groups of finished FS operations or not at all.        *)
(*                                                                         *)
(* "image" is the file system every running process sees (the buffer       *)
(* cache over the disk), "durable" the file system a reboot would find.    *)
(* An operation writes image; durable follows image only at a moment when  *)
(* no operation is half done; a crash falls back to durable.               *)
(***************************************************************************)
CONSTANTS Procs,    \* processes making FS system calls
          Blocks,   \* home block numbers of the file system
          Vals      \* contents of a block

VARIABLES durable,  \* the file system a recovery would bring back
          image,    \* the file system as running processes see it
          inop      \* processes between begin_op() and the end of the call

avars == <<durable, image, inop>>

AInit ==
  /\ durable \in [Blocks -> Vals]
  /\ image = durable
  /\ inop = {}

ABegin(p) ==
  /\ p \notin inop
  /\ inop' = inop \cup {p}
  /\ UNCHANGED <<durable, image>>

AWrite(p, b, v) ==
  /\ p \in inop
  /\ image' = [image EXCEPT ![b] = v]
  /\ UNCHANGED <<durable, inop>>

AEnd(p) ==
  /\ p \in inop
  /\ inop' = inop \ {p}
  /\ UNCHANGED <<durable, image>>

\* All the writes of the operations that finished become durable at once.
ACommit ==
  /\ inop = {}
  /\ durable' = image
  /\ UNCHANGED <<image, inop>>

ACrash ==
  /\ image' = durable
  /\ inop' = {}
  /\ UNCHANGED durable

ANext ==
  \/ \E p \in Procs : ABegin(p) \/ AEnd(p)
  \/ \E p \in Procs, b \in Blocks, v \in Vals : AWrite(p, b, v)
  \/ ACommit
  \/ ACrash

ASpec == AInit /\ [][ANext]_avars
=============================================================================
