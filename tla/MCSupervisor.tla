---------------------------- MODULE MCSupervisor ----------------------------
(* Small instances of Supervisor for TLC. *)
EXTENDS Supervisor, TLC

(* A script restarted once, after a failure. *)
MCScript == {[mode |-> "legacy", restart |-> "on-failure", max |-> 1]}

(* A native executor restarted once, after a clean exit. *)
MCNative == {[mode |-> "native", restart |-> "always", max |-> 1]}

MCSymmetry ==
  Permutations(Workspaces) \union Permutations(Names) \union
  Permutations(Nodes) \union Permutations(Clients)
=============================================================================
