----------------------------- MODULE MCDevices -----------------------------
(* The disk below the buffer cache and the console, for TLC.  They share no   *)
(* state: the disk's processes ask for blocks or the console is typed on.     *)
EXTENDS XvBuf, XvConsole, TLC

CONSTANTS p1, p2, b1, b2, b3, b4, q1, q2
Asks(p, first, second) == <<p, 1>> :> first @@ <<p, 2>> :> second
NoWants == Asks(p1, <<>>, <<>>) @@ Asks(p2, <<>>, <<>>)
\* Two processes after the same block, one of them with another in its hands; four
\* blocks for three buffers; or nobody.
MCWants == {Asks(p1, <<b1>>, <<b2>>) @@ Asks(p2, <<b2>>, <<>>),
            Asks(p1, <<b1>>, <<b3, b2>>) @@ Asks(p2, <<b4>>, <<>>), NoWants}
\* Three keys are one more than the ring holds.
MCTyped == [1..3 -> {"a", NL, CtrlD, CtrlU, CtrlH}] \cup {<<>>}
MCReads == {<<>>, <<2, 0, 1>>}

Init == /\ BufInit /\ ConsInit
        /\ \/ gets = NoWants /\ r = WORD - 1 /\ typed # <<>> /\ calls[q1] # <<>>
           \/ gets # NoWants /\ r = 0 /\ typed = <<>> /\ calls = [q \in Readers |-> <<>>]
Next == (BufNext /\ UNCHANGED consvars) \/ (ConsNext /\ UNCHANGED bufvars)
Spec == Init /\ [][Next]_<<bufvars, consvars>>
LiveSpec == Spec /\ BufFair
=============================================================================
