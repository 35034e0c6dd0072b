-------------------------------- MODULE Turbo --------------------------------
(***************************************************************************)
(* The Python command line (src/rosplus/cli.py): one command per process.  *)
(* `serve' and `safety-demo' run the legacy safety monitor, `migrate' the  *)
(* migration tool; the HTTP service of `serve' is the module Reference,    *)
(* which shares nothing with the monitor.                                  *)
(***************************************************************************)
EXTENDS LegacySafety, Migration

ASSUME TimesAssumption ==
  /\ {Timeout, Period, Poll, Late, Duration, Grace} \subseteq Nat
  /\ Period > 0 /\ Poll > 0

(* The name of a test is longer than that of its node. *)
ASSUME FilesAssumption ==
  /\ Files \in Nat /\ Attempts \in Nat
  /\ Contents \subseteq SUBSET Constructs /\ None \notin Contents
  /\ Layouts # {} /\ Layouts \subseteq [1..Files -> Nat \ {0}]
  /\ \A f \in Layouts : \A k \in 1..Files : f[k] # k

(* No sleep is so late that the heart misses the timeout, or that the demo *)
(* gives up before the watch has looked once more.                         *)
Punctual == Period + Late <= Timeout /\ Poll + Late <= Grace

vars == <<monitorVars, migrationVars>>

Init ==
  /\ command \in {"serve", "safety-demo", "migrate"}
  /\ MonitorInit
  /\ IF command = "migrate" THEN MigrationInit ELSE Unused

(* main(): the subcommand decides. *)
Next ==
  \/ command \in {"serve", "safety-demo"} /\ MonitorNext /\ UNCHANGED migrationVars
  \/ command = "migrate" /\ MigrationNext /\ UNCHANGED monitorVars

Spec == Init /\ [][Next]_vars
=============================================================================
