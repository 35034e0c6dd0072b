---------------------------- MODULE DeadManSwitch ----------------------------
(***************************************************************************)
(* What a dead-man switch promises to the relay it holds, whatever it is   *)
(* made of: the line moves only while the switch is on; a switch that has  *)
(* missed its deadline can only be cut; a switch that was cut stays so.    *)
(***************************************************************************)
VARIABLES
  mode,   \* "off", "on", "missed" or "cut"
  line    \* the level of the line that holds the relay

vars == <<mode, line>>

Init == mode = "off" /\ line = FALSE

(* The first heartbeat, which may emit the first edge. *)
Arm == mode = "off" /\ mode' = "on" /\ line' \in BOOLEAN

Pulse == mode = "on" /\ line' = ~line /\ UNCHANGED mode

Expire == mode = "on" /\ mode' = "missed" /\ UNCHANGED line

(* A trip lowers the line, a crash leaves it: the pulses end either way. *)
Cut == mode # "cut" /\ mode' = "cut" /\ line' \in {line, FALSE}

Next == Arm \/ Pulse \/ Expire \/ Cut

Spec == Init /\ [][Next]_vars
=============================================================================
