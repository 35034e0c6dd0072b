------------------------- MODULE SafetyChainProofs -------------------------
(***************************************************************************)
(* Proofs about the watchdog chain that need no assumption about time: the *)
(* steps may be as late as they like, the clock set to any value, for any  *)
(* number of executors.                                                    *)
(***************************************************************************)
EXTENDS SafetyChain, TLAPS

(* What is in flight: at most one datagram, to a live watchdog, and only   *)
(* while safetyLoop waits for the answer to it or has given up.            *)
FlightInv ==
  /\ loop = "wait" => packet = None /\ reply = None
  /\ loop = "send" => packet # None /\ reply = None
  /\ loop = "sent" /\ packet # None => reply = None
  /\ wd # "up" => ~Arrived

(* The part of the watchdog's state that the deadline depends on. *)
ClockInv ==
  /\ armed \in BOOLEAN /\ pulse \in BOOLEAN
  /\ silence \in 0 .. Timeout /\ lead \in Int
  /\ packet # None => packet \in [healthy: BOOLEAN, age: Int]

ChainInv == FlightInv /\ ClockInv

LEMMA NoneIsNoPacket == None \notin [healthy: BOOLEAN, age: Int]
BY NoneAssumption

LEMMA InitChainInv == Init => ChainInv
<1> SUFFICES ASSUME Init PROVE ChainInv
  OBVIOUS
<1>1. FlightInv
  BY DEF Init, FlightInv, Arrived
<1>2. ClockInv
  <2>1. armed = FALSE /\ pulse = FALSE /\ silence = 0 /\ lead = LeadMin /\ packet = None
    BY DEF Init
  <2>2. LeadMin \in Int /\ 0 \in 0 .. Timeout
    BY DEF LeadMin, Timeout
  <2> QED
    BY <2>1, <2>2 DEF ClockInv
<1> QED
  BY <1>1, <1>2 DEF ChainInv

LEMMA CapFacts ==
  ASSUME NEW x \in Int, NEW top \in Int
  PROVE  Cap(x, top) \in Int /\ Cap(x, top) <= top /\ (x <= top => Cap(x, top) = x)
           /\ (x >= top => Cap(x, top) = top)
BY DEF Cap

(* The steps of the watchdog and of time, split by what they do. *)
LEMMA WatchdogSteps ==
  ASSUME ChainInv, Watchdog
  PROVE  /\ wd = "up" /\ UNCHANGED loop /\ packet' = IF Arrived THEN None ELSE packet
         /\ \/ wd' = "tripped" /\ pulse' = FALSE /\ UNCHANGED <<armed, silence, lead>>
            \/ /\ ~Late /\ Arrived /\ UNCHANGED wd
               /\ packet.healthy /\ packet.age <= Timeout /\ -packet.age > lead
               /\ armed' = TRUE /\ silence' = 0 /\ lead' = -packet.age
               /\ pulse' \in BOOLEAN
            \/ /\ ~Late /\ UNCHANGED <<wd, armed, silence, lead>>
               /\ pulse' \in BOOLEAN /\ (armed \/ (pulse' => pulse))
<1>1. CASE WdReceive
  <2>1. wd = "up" /\ UNCHANGED loop /\ Arrived /\ packet # None /\ packet' = None
    BY <1>1 DEF WdReceive, Trip, WatchdogGone, Arrived, loopVars
  <2>2. CASE Trips(packet)
    BY <1>1, <2>1, <2>2 DEF WdReceive, Trip, WatchdogGone
  <2>3. CASE ~Trips(packet) /\ Fits(packet)
    <3>1. packet \in [healthy: BOOLEAN, age: Int]
      BY <2>1 DEF ChainInv, ClockInv
    <3>2. ~Late /\ packet.healthy /\ UNCHANGED wd
      BY <1>1, <2>3 DEF WdReceive, Trips
    <3>3. packet.age <= Timeout /\ -packet.age > lead
      BY <2>3, <3>1 DEF Fits, Timeout
    <3>4. armed' = TRUE /\ silence' = 0 /\ lead' = -packet.age
      BY <1>1, <2>3 DEF WdReceive
    <3>5. pulse' \in BOOLEAN
      BY <1>1, <2>3, <3>4 DEF WdReceive, ChainInv, ClockInv
    <3> QED
      BY <2>1, <3>2, <3>3, <3>4, <3>5
  <2>4. CASE ~Trips(packet) /\ ~Fits(packet)
    <3>1. ~Late /\ UNCHANGED <<wd, armed, silence, lead>>
      BY <1>1, <2>4 DEF WdReceive, Trips
    <3>2. pulse' = pulse \/ (armed /\ pulse' = ~pulse) \/ pulse' = FALSE
      BY <1>1, <2>4, <3>1 DEF WdReceive, ChainInv, ClockInv
    <3>3. pulse \in BOOLEAN /\ armed \in BOOLEAN
      BY DEF ChainInv, ClockInv
    <3>4. pulse' \in BOOLEAN
      BY <3>2, <3>3, Zenon
    <3>5. armed \/ (pulse' => pulse)
      BY <3>2, <3>3, Zenon
    <3> QED
      BY <2>1, <3>1, <3>4, <3>5
  <2> QED
    BY <2>2, <2>3, <2>4
<1>2. CASE WdIdle
  BY <1>2 DEF WdIdle, Trip, WatchdogGone, loopVars, ChainInv, ClockInv
<1> QED
  BY <1>1, <1>2 DEF Watchdog

LEMMA TimeSteps ==
  ASSUME ChainInv, Time
  PROVE  /\ UNCHANGED <<loop, reply, wd, armed, pulse>> /\ lead' \in Int
         /\ silence' \in 0 .. Timeout /\ silence' >= silence
         /\ packet = None => packet' = None
         /\ packet # None => packet' \in [healthy: BOOLEAN, age: Int]
<1>1. UNCHANGED <<loop, reply, wd, armed, pulse>> /\ (packet = None => packet' = None)
  BY DEF Time
<1>2. silence' \in 0 .. Timeout /\ silence' >= silence
  BY DEF Time, ChainInv, ClockInv, Cap, Timeout
<1>3. lead' \in Int
  BY DEF Time, ChainInv, ClockInv, LeadMin, Timeout
<1>4. ASSUME packet # None PROVE packet' \in [healthy: BOOLEAN, age: Int]
  <2>1. packet \in [healthy: BOOLEAN, age: Int]
    BY <1>4 DEF ChainInv, ClockInv
  <2>2. packet' = [packet EXCEPT !.age = Cap(packet.age + 1, LeadMax)]
    BY <1>4 DEF Time
  <2>3. Cap(packet.age + 1, LeadMax) \in Int
    BY <2>1, CapFacts DEF LeadMax, Timeout
  <2> QED
    BY <2>1, <2>2, <2>3
<1> QED
  BY <1>1, <1>2, <1>3, <1>4

LEMMA ClockSteps ==
  ASSUME ChainInv, ClockStep
  PROVE  /\ UNCHANGED <<loop, reply, wd, armed, silence, pulse>> /\ lead' \in Int
         /\ packet = None => packet' = None
         /\ packet # None => packet' \in [healthy: BOOLEAN, age: Int]
<1>1. UNCHANGED <<loop, reply, wd, armed, silence, pulse>>
  BY DEF ClockStep, loopVars
<1>2. PICK d \in Steps :
        /\ lead' = IF ~armed \/ lead - d < LeadMin THEN LeadMin ELSE lead - d
        /\ packet' = IF packet = None THEN None ELSE [packet EXCEPT !.age = @ + d]
  BY DEF ClockStep
<1>3. d \in Int
  BY StepsAssumption
<1>4. lead' \in Int
  BY <1>2, <1>3 DEF ChainInv, ClockInv, LeadMin, Timeout
<1>5. packet # None => packet' \in [healthy: BOOLEAN, age: Int]
  BY <1>2, <1>3 DEF ChainInv, ClockInv
<1> QED
  BY <1>1, <1>2, <1>4, <1>5

(* Every other step leaves the watchdog alone, or ends it. *)
LEMMA OtherSteps ==
  ASSUME [Next]_vars, ~Watchdog, ~Time, ~ClockStep
  PROVE  /\ UNCHANGED <<armed, silence, lead, pulse>>
         /\ \/ UNCHANGED <<wd, packet>>
            \/ wd = "up" /\ wd' = "dead" /\ packet' = IF Arrived THEN None ELSE packet
            \/ LoopTick /\ UNCHANGED wd
            \/ LoopSend /\ UNCHANGED wd /\ packet' \in {packet, None}
<1>1. ASSUME NEW e \in Execs,
             \/ Run(e) \/ Restart(e) \/ Beat(e) \/ Stall(e) \/ Leave(e) \/ Stop(e)
             \/ Progress(e) \/ Capture(e)
      PROVE  UNCHANGED <<wdVars, packet>>
  BY <1>1 DEF Run, Restart, Beat, Stall, Leave, Stop, Progress, Capture
<1>2. Lock \/ Unlock \/ LoopReply \/ LoopTimeout \/ LoopSweep \/ UNCHANGED vars
        => UNCHANGED <<wdVars, packet>>
  BY DEF Lock, Unlock, LoopReply, LoopTimeout, LoopSweep, vars
<1>3. LoopKill \/ LoopStop \/ WdCrash =>
        /\ UNCHANGED <<armed, silence, lead, pulse>>
        /\ \/ UNCHANGED <<wd, packet>>
           \/ wd = "up" /\ wd' = "dead" /\ packet' = IF Arrived THEN None ELSE packet
  BY DEF LoopKill, LoopStop, WdCrash, WatchdogGone, wdVars
<1>4. LoopTick => UNCHANGED wdVars
  BY DEF LoopTick
<1>5. LoopSend => UNCHANGED wdVars /\ packet' \in {packet, None}
  BY DEF LoopSend
<1> QED
  BY <1>1, <1>2, <1>3, <1>4, <1>5 DEF Next, Loop, Executor, wdVars

LEMMA ClockInvStep == ASSUME ChainInv, [Next]_vars PROVE ClockInv'
<1>1. CASE Watchdog
  <2>1. packet' # None => packet' \in [healthy: BOOLEAN, age: Int]
    BY <1>1, WatchdogSteps DEF ChainInv, ClockInv
  <2>2. /\ armed \in BOOLEAN /\ silence \in 0 .. Timeout /\ lead \in Int
        /\ packet # None => packet.age \in Int /\ -packet.age \in Int
    BY DEF ChainInv, ClockInv
  <2>3. \/ UNCHANGED <<armed, silence, lead>>
        \/ armed' = TRUE /\ silence' = 0 /\ packet # None /\ lead' = -packet.age
    BY <1>1, WatchdogSteps DEF Arrived
  <2>4. armed' \in BOOLEAN
    BY <2>2, <2>3, Zenon
  <2>5. silence' \in 0 .. Timeout /\ lead' \in Int
    BY <2>2, <2>3, SMT DEF Timeout
  <2>6. pulse' \in BOOLEAN
    BY <1>1, WatchdogSteps
  <2> QED
    BY <2>1, <2>4, <2>5, <2>6 DEF ClockInv
<1>2. CASE Time
  BY <1>2, TimeSteps DEF ChainInv, ClockInv
<1>3. CASE ClockStep
  BY <1>3, ClockSteps DEF ChainInv, ClockInv
<1>4. CASE ~Watchdog /\ ~Time /\ ~ClockStep
  <2>1. UNCHANGED <<armed, silence, lead, pulse>>
    BY <1>4, OtherSteps
  <2>2. packet' # None => packet' \in [healthy: BOOLEAN, age: Int]
    <3>1. ASSUME LoopTick PROVE packet' \in [healthy: BOOLEAN, age: Int]
      <4>1. packet' = [healthy |-> ~snap'.native \/ snap'.age < ProgressLimit, age |-> 0]
        BY <3>1 DEF LoopTick
      <4>2. (~snap'.native \/ snap'.age < ProgressLimit) \in BOOLEAN
        OBVIOUS
      <4> QED
        BY <4>1, <4>2
    <3> QED
      BY <1>4, <3>1, OtherSteps DEF ChainInv, ClockInv
  <2> QED
    BY <2>1, <2>2 DEF ChainInv, ClockInv
<1> QED
  BY <1>1, <1>2, <1>3, <1>4

LEMMA FlightInvStep == ASSUME ChainInv, [Next]_vars PROVE FlightInv'
<1>1. CASE Watchdog
  <2>1. UNCHANGED loop /\ packet' = IF Arrived THEN None ELSE packet
    BY <1>1, WatchdogSteps
  <2>2. UNCHANGED reply \/ Arrived
    BY <1>1 DEF Watchdog, WdIdle, WdReceive
  <2> QED
    BY <2>1, <2>2 DEF ChainInv, FlightInv, Arrived
<1>2. CASE Time
  BY <1>2, TimeSteps, NoneIsNoPacket DEF ChainInv, FlightInv, Arrived
<1>3. CASE ClockStep
  BY <1>3, ClockSteps, NoneIsNoPacket DEF ChainInv, FlightInv, Arrived
<1>4. CASE ~Watchdog /\ ~Time /\ ~ClockStep /\ ~Loop
  <2>1. UNCHANGED reply /\ (UNCHANGED loop \/ loop' = "done")
    <3>1. ASSUME NEW e \in Execs,
                 \/ Run(e) \/ Restart(e) \/ Beat(e) \/ Stall(e) \/ Leave(e) \/ Stop(e)
                 \/ Progress(e) \/ Capture(e)
          PROVE  UNCHANGED <<reply, loop>>
      BY <3>1 DEF Run, Restart, Beat, Stall, Leave, Stop, Progress, Capture, loopVars
    <3>2. Lock \/ Unlock \/ WdCrash \/ UNCHANGED vars => UNCHANGED <<reply, loop>>
      BY DEF Lock, Unlock, WdCrash, vars, loopVars
    <3>3. LoopStop => UNCHANGED reply /\ loop' = "done"
      BY DEF LoopStop
    <3> QED
      BY <1>4, <3>1, <3>2, <3>3 DEF Next, Executor
  <2>2. \/ UNCHANGED <<wd, packet>>
        \/ wd' = "dead" /\ packet' = IF Arrived THEN None ELSE packet
    BY <1>4, OtherSteps DEF Loop
  <2>3. loop' = "done" => loop = "wait" \/ loop = "done"
    <3>1. LoopStop => loop = "wait"
      BY DEF LoopStop
    <3>2. ~LoopStop => UNCHANGED loop
      <4>1. ASSUME NEW e \in Execs,
                   \/ Run(e) \/ Restart(e) \/ Beat(e) \/ Stall(e) \/ Leave(e) \/ Stop(e)
                   \/ Progress(e) \/ Capture(e)
            PROVE  UNCHANGED loop
        BY <4>1 DEF Run, Restart, Beat, Stall, Leave, Stop, Progress, Capture, loopVars
      <4>2. Lock \/ Unlock \/ WdCrash \/ UNCHANGED vars => UNCHANGED loop
        BY DEF Lock, Unlock, WdCrash, vars, loopVars
      <4> QED
        BY <1>4, <4>1, <4>2 DEF Next, Executor
    <3> QED
      BY <3>1, <3>2
  <2> QED
    BY <2>1, <2>2, <2>3 DEF ChainInv, FlightInv, Arrived
<1>5. CASE LoopTick
  <2>1. packet' \in [healthy: BOOLEAN, age: Int]
    <3>1. packet' = [healthy |-> ~snap'.native \/ snap'.age < ProgressLimit, age |-> 0]
      BY <1>5 DEF LoopTick
    <3>2. (~snap'.native \/ snap'.age < ProgressLimit) \in BOOLEAN
      OBVIOUS
    <3> QED
      BY <3>1, <3>2
  <2> QED
    BY <1>5, <2>1, NoneIsNoPacket DEF LoopTick, wdVars, ChainInv, FlightInv, Arrived
<1>6. CASE LoopReply
  BY <1>6 DEF LoopReply, wdVars, ChainInv, FlightInv, Arrived
<1>7. CASE LoopTimeout \/ LoopSweep \/ LoopKill
  BY <1>7 DEF LoopTimeout, LoopSweep, LoopKill, GiveUp, WatchdogGone, wdVars, ChainInv, FlightInv, Arrived
<1>8. CASE LoopSend
  BY <1>8 DEF LoopSend, GiveUp, wdVars, ChainInv, FlightInv, Arrived
<1> QED
  BY <1>1, <1>2, <1>3, <1>4, <1>5, <1>6, <1>7, <1>8 DEF Loop

LEMMA ChainInductive == Spec => []ChainInv
<1>1. ChainInv /\ [Next]_vars => ChainInv'
  BY ClockInvStep, FlightInvStep DEF ChainInv
<1> QED
  BY <1>1, InitChainInv, PTL DEF Spec

(* safetyLoop: the answer it reads is that to the packet it last sent. *)
THEOREM AnswersAreMatched == Spec => []AnswersMatch
<1>1. ChainInv => AnswersMatch
  BY DEF ChainInv, FlightInv, AnswersMatch
<1> QED
  BY <1>1, ChainInductive, PTL

(* The loop of the watchdog: a deadline that was missed is never forgiven, *)
(* by no packet, however late the process runs and whatever the clocks do. *)
THEOREM MissedDeadlineTrips == Spec => LateIsFatal
<1>1. ChainInv /\ [Next]_vars =>
        [wd = "up" /\ Late => (Late' /\ pulse' = pulse) \/ wd' # "up"]_vars
  <2> SUFFICES ASSUME ChainInv, [Next]_vars, Late, wd' = "up"
               PROVE  Late' /\ pulse' = pulse
    OBVIOUS
  <2>1. CASE Watchdog
    BY <2>1, WatchdogSteps
  <2>2. CASE Time
    <3>1. armed' = armed /\ pulse' = pulse /\ silence' >= silence /\ silence' \in 0 .. Timeout
      BY <2>2, TimeSteps
    <3>2. silence \in 0 .. Timeout
      BY DEF ChainInv, ClockInv
    <3> QED
      BY <3>1, <3>2 DEF Late, Timeout
  <2>3. CASE ClockStep
    BY <2>3, ClockSteps DEF Late
  <2>4. CASE ~Watchdog /\ ~Time /\ ~ClockStep
    BY <2>4, OtherSteps DEF Late
  <2> QED
    BY <2>1, <2>2, <2>3, <2>4
<1> QED
  BY <1>1, ChainInductive, PTL DEF Spec, LateIsFatal

(* The pulses hold the relay: an edge is only emitted within the timeout   *)
(* of a heartbeat that was healthy, fresh and never seen before.           *)
THEOREM PulsesNeedHeartbeats == Spec => PulseNeedsHeartbeat
<1>1. ChainInv /\ [Next]_vars =>
        [/\ pulse' # pulse => wd = "up" /\ (pulse' => armed' /\ silence' < Timeout)
         /\ silence' = 0 /\ silence > 0 =>
              packet # None /\ packet.healthy /\ packet.age <= Timeout /\ lead' > lead]_vars
  <2> SUFFICES ASSUME ChainInv, [Next]_vars
               PROVE  /\ pulse' # pulse =>
                           wd = "up" /\ (pulse' => armed' /\ silence' < Timeout)
                      /\ silence' = 0 /\ silence > 0 =>
                           /\ packet # None /\ packet.healthy
                           /\ packet.age <= Timeout /\ lead' > lead
    OBVIOUS
  <2>0. silence \in 0 .. Timeout /\ armed \in BOOLEAN /\ pulse \in BOOLEAN
    BY DEF ChainInv, ClockInv
  <2>1. CASE Watchdog
    <3>1. CASE wd' = "tripped" /\ pulse' = FALSE /\ UNCHANGED silence
      BY <2>0, <2>1, <3>1, WatchdogSteps
    <3>2. CASE /\ Arrived /\ packet.healthy /\ packet.age <= Timeout
               /\ -packet.age > lead /\ armed' = TRUE /\ silence' = 0 /\ lead' = -packet.age
      BY <2>1, <3>2, WatchdogSteps DEF Arrived, Timeout
    <3>3. CASE /\ ~Late /\ UNCHANGED <<armed, silence, lead>>
               /\ pulse' \in BOOLEAN /\ (armed \/ (pulse' => pulse))
      <4>1. pulse' # pulse /\ pulse' => armed = TRUE
        BY <2>0, <3>3, Zenon
      <4>2. armed = TRUE => silence < Timeout
        BY <2>0, <3>3 DEF Late, Timeout
      <4>3. pulse' # pulse => wd = "up" /\ (pulse' => armed' /\ silence' < Timeout)
        BY <2>1, <3>3, <4>1, <4>2, WatchdogSteps
      <4> QED
        BY <3>3, <4>3
    <3> QED
      BY <2>1, <3>1, <3>2, <3>3, WatchdogSteps
  <2>2. CASE Time
    BY <2>0, <2>2, TimeSteps
  <2>3. CASE ClockStep
    BY <2>3, ClockSteps
  <2>4. CASE ~Watchdog /\ ~Time /\ ~ClockStep
    BY <2>4, OtherSteps
  <2> QED
    BY <2>1, <2>2, <2>3, <2>4
<1> QED
  BY <1>1, ChainInductive, PTL DEF Spec, PulseNeedsHeartbeat

(* Before the first heartbeat the line is LOW. *)
PulseInv == pulse => armed

LEMMA PulseInvStep == ASSUME ChainInv, PulseInv, [Next]_vars PROVE PulseInv'
<1>1. CASE Watchdog
  BY <1>1, WatchdogSteps DEF PulseInv
<1>2. CASE Time
  BY <1>2, TimeSteps DEF PulseInv
<1>3. CASE ClockStep
  BY <1>3, ClockSteps DEF PulseInv
<1>4. CASE ~Watchdog /\ ~Time /\ ~ClockStep
  BY <1>4, OtherSteps DEF PulseInv
<1> QED
  BY <1>1, <1>2, <1>3, <1>4

LEMMA PulseInductive == Spec => []PulseInv
<1>1. Init => PulseInv
  BY DEF Init, PulseInv
<1>2. ChainInv /\ PulseInv /\ [Next]_vars => PulseInv'
  BY PulseInvStep
<1> QED
  BY <1>1, <1>2, ChainInductive, PTL DEF Spec

(* Every step of the chain is one of the switch, or leaves it alone. *)
LEMMA SwitchStep ==
  ASSUME ChainInv, PulseInv, [Next]_vars
  PROVE  [Switch!Next]_(Switch!vars)
<1> DEFINE mode == IF wd # "up" THEN "cut"
                   ELSE IF Late THEN "missed" ELSE IF armed THEN "on" ELSE "off"
<1>0. /\ armed \in BOOLEAN /\ pulse \in BOOLEAN /\ silence \in 0 .. Timeout
      /\ pulse = TRUE => armed = TRUE
  BY DEF ChainInv, ClockInv, PulseInv
<1>1. SUFFICES \/ mode' = mode /\ pulse' = pulse
               \/ mode = "off" /\ mode' = "on" /\ pulse' \in BOOLEAN
               \/ mode = "on" /\ mode' = "on" /\ pulse' = ~pulse
               \/ mode = "on" /\ mode' = "missed" /\ pulse' = pulse
               \/ mode # "cut" /\ mode' = "cut" /\ pulse' \in {pulse, FALSE}
  BY DEF Switch!Next, Switch!vars, Switch!Arm, Switch!Pulse, Switch!Expire, Switch!Cut
<1>2. CASE Watchdog
  <2>0. wd = "up"
    BY <1>2, WatchdogSteps
  <2>1. CASE wd' = "tripped" /\ pulse' = FALSE
    BY <2>0, <2>1
  <2>2. CASE /\ ~Late /\ UNCHANGED wd /\ armed' = TRUE /\ silence' = 0 /\ pulse' \in BOOLEAN
    <3>1. mode \in {"on", "off"} /\ mode' = "on"
      BY <2>0, <2>2 DEF Late, Timeout
    <3>2. pulse' = pulse \/ pulse' = ~pulse
      BY <1>0, <2>2
    <3> QED
      BY <2>2, <3>1, <3>2
  <2>3. CASE /\ ~Late /\ UNCHANGED <<wd, armed, silence, lead>>
             /\ pulse' \in BOOLEAN /\ (armed \/ (pulse' => pulse))
    <3>1. mode \in {"on", "off"} /\ mode' = mode /\ (mode = "on" <=> armed = TRUE)
      BY <1>0, <2>0, <2>3 DEF Late
    <3>2. CASE armed = TRUE
      <4>1. pulse' = pulse \/ pulse' = ~pulse
        BY <1>0, <2>3
      <4> QED
        BY <3>1, <3>2, <4>1
    <3>3. CASE armed = FALSE
      <4>1. pulse = FALSE
        BY <1>0, <3>3, Zenon
      <4>2. pulse' = FALSE
        BY <2>3, <3>3, <4>1, Zenon
      <4> QED
        BY <3>1, <4>1, <4>2
    <3> QED
      BY <1>0, <3>2, <3>3
  <2> QED
    BY <1>2, <2>1, <2>2, <2>3, WatchdogSteps
<1>3. CASE Time
  <2>1. UNCHANGED <<wd, armed, pulse>> /\ silence' >= silence /\ silence' \in 0 .. Timeout
    BY <1>3, TimeSteps
  <2>2. Late => Late'
    BY <1>0, <2>1 DEF Late, Timeout
  <2>3. armed = FALSE => ~Late /\ ~Late'
    BY <1>0, <2>1 DEF Late
  <2> QED
    BY <1>0, <2>1, <2>2, <2>3
<1>4. CASE ClockStep
  <2>1. UNCHANGED <<wd, armed, silence, pulse>>
    BY <1>4, ClockSteps DEF ClockStep
  <2> QED
    BY <2>1 DEF Late
<1>5. CASE ~Watchdog /\ ~Time /\ ~ClockStep
  <2>1. UNCHANGED <<armed, silence, pulse>> /\ (UNCHANGED wd \/ (wd = "up" /\ wd' = "dead"))
    BY <1>5, OtherSteps
  <2> QED
    BY <2>1 DEF Late
<1> QED
  BY <1>2, <1>3, <1>4, <1>5

(* The watchdog of rosplus-safety implements the abstract switch, with no  *)
(* assumption about time and for any number of executors.                  *)
THEOREM ChainImplementsSwitch == Spec => ImplementsSwitch
<1>1. Init => Switch!Init
  BY DEF Init, Switch!Init, Late
<1>2. ChainInv /\ PulseInv /\ [Next]_vars => [Switch!Next]_(Switch!vars)
  BY SwitchStep
<1> QED
  BY <1>1, <1>2, ChainInductive, PulseInductive, PTL DEF Spec, ImplementsSwitch, Switch!Spec
=============================================================================
