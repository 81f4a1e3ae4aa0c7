-------------------------------- MODULE MCSh --------------------------------
(***************************************************************************)
(* The shell on chosen sessions, and its parser on every short line.        *)
(***************************************************************************)
EXTENDS Sh

Line(ks) == [cd |-> 0, ks |-> ks]
Cd(d) == [cd |-> d, ks |-> <<>>]
MCScripts ==
  {<<>>,
   <<Line(<<"w", "w", "|", "w", "|", "w">>)>>,
   <<Line(<<"(", "w", "|", "w", ")", "<", "w", "|", "w", ";", "w">>)>>,
   <<Line(<<"(", "w", ";", "w", "&", ")", ">", "w", "|", "w", "<", "w", ">>", "w">>)>>,
   <<Line(<<"w", "|", "w", "&", ";", "w", ";">>)>>,
   <<Line(<<"w", "&">>), Cd(1), Line(<<"|", "w">>)>>,
   <<Cd(2), Line(<<"w", "(">>), Line(<<"w", "&">>), Line(<<"<", "w", "w", ">", "w", "<", "w">>)>>}
=============================================================================
