------------------------------ MODULE Programs ------------------------------
(***************************************************************************)
(* The Python programs of the repository other than the HTTP service: the  *)
(* command line `turbo' and the drivers of scripts/.  Each is a process of *)
(* its own and they share nothing, so a behaviour is that of one of them,  *)
(* and a behaviour of Turbo or of Harness for the variables it has.        *)
(***************************************************************************)
EXTENDS Turbo, Harness

programVars == <<vars, harnessVars>>

(* No command of turbo is given: a program of scripts/ runs. *)
TurboIdle == command = "driver" /\ MonitorInit /\ Unused

(* No driver runs: one that has ended. *)
DriverIdle ==
  /\ task = CHOOSE t \in Tasks : TRUE
  /\ side = 1 /\ step = 1 /\ phase = "done" /\ raised = FALSE
  /\ proc = [p \in Roles |-> "none"]
  /\ listed = <<>> /\ left = <<>>
  /\ link = {} /\ sent = 0 /\ inbox = <<>> /\ outbox = <<>> /\ got = <<>>
  /\ result = [s \in 1..2 |-> None]
  /\ verdict = None

ProgramInit ==
  \/ Init /\ DriverIdle
  \/ TurboIdle /\ HarnessInit

ProgramNext ==
  \/ Next /\ UNCHANGED harnessVars
  \/ HarnessNext /\ UNCHANGED vars

(* Only the drivers are asked to end. *)
ProgramSpec == ProgramInit /\ [][ProgramNext]_programVars /\ Fairness
=============================================================================
