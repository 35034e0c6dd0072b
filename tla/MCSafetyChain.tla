--------------------------- MODULE MCSafetyChain ---------------------------
(* Instances of SafetyChain for TLC. *)
EXTENDS SafetyChain, TLC

MCNoSteps == {}
MCBack    == {-3}
Symmetry  == Permutations(Execs)

(* The histories matter to no guard and to no property but those about     *)
(* them: a run that checks none of these may tell states apart without.    *)
WithoutHistories ==
  <<execVars, held, loopVars, estop, packet, reply, wdVars>>
=============================================================================
