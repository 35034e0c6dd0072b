------------------------- MODULE SafetyTimingProofs -------------------------
(***************************************************************************)
(* Proofs about the watchdog chain in which time counts: what its          *)
(* variables may hold, what the health bit says of the executors when      *)
(* operations hold Server.mu for any time, within which time a stall stops *)
(* the pulses, and that nothing else does.  The last two hold while no     *)
(* operation holds Server.mu for long, which is LockLimit = 0; each        *)
(* theorem names what else it needs.                                       *)
(***************************************************************************)
EXTENDS SafetyChainProofs, WellFoundedInduction

-----------------------------------------------------------------------------
(* The oldest progress: Max of a non-empty, bounded set of naturals.       *)

Less == {p \in Nat \X Nat : p[1] < p[2]}

LEMMA LessIsWellFounded == IsWellFoundedOn(Less, Nat)
BY NatLessThanWellFounded, Zenon DEF OpToRel, Less

LEMMA NotLess == ASSUME NEW x \in Nat, NEW y \in Nat, <<y, x>> \notin Less PROVE x <= y
BY DEF Less

LEMMA MaxFacts ==
  ASSUME NEW bound \in Nat, NEW S \in SUBSET (0 .. bound), S # {}
  PROVE  Max(S) \in S /\ \A y \in S : y <= Max(S)
<1> DEFINE Below == {bound - x : x \in S}
<1>1. Below \subseteq Nat /\ Below # {}
  <2>1. PICK x \in S : TRUE
    OBVIOUS
  <2>2. bound - x \in Below
    BY <2>1
  <2>3. \A z \in S : bound - z \in Nat
    OBVIOUS
  <2> QED
    BY <2>2, <2>3, Zenon
<1>2. \E x \in Below : \A y \in Below : ~(<<y, x>> \in Less)
  <2> HIDE DEF Below
  <2> QED
    BY <1>1, LessIsWellFounded, WFMin
<1>3. PICK m \in S : \A y \in Below : <<y, bound - m>> \notin Less
  BY <1>2
<1>4. ASSUME NEW y \in S PROVE m >= y
  <2>1. <<bound - y, bound - m>> \notin Less
    BY <1>3
  <2>2. bound - y \in Nat /\ bound - m \in Nat
    OBVIOUS
  <2>3. bound - m <= bound - y
    <3> HIDE DEF Below
    <3> QED
      BY <2>1, <2>2, NotLess
  <2> QED
    BY <2>3
<1>5. Max(S) \in S /\ \A y \in S : Max(S) >= y
  BY <1>4 DEF Max
<1> QED
  BY <1>5

(* The snapshot of safetyLoop: healthy exactly when every supervised       *)
(* executor is, and as old as any of them up to the limit.                 *)
LEMMA SnapshotFacts ==
  ASSUME age \in [Execs -> 0 .. Response]
  PROVE  /\ Snapshot \in [native: BOOLEAN, age: 0 .. ProgressLimit]
         /\ Snapshot.native <=> \E e \in Execs : Live(e)
         /\ Snapshot.native =>
              (Snapshot.age < ProgressLimit <=> \A e \in Execs : Live(e) => age[e] < ProgressLimit)
         /\ \A e \in Execs : Live(e) => age[e] <= Snapshot.age \/ Snapshot.age = ProgressLimit
<1> DEFINE S    == {e \in Execs : Live(e)}
           Ages == {age[e] : e \in S}
<1>0. Response \in Nat /\ ProgressLimit = 4 /\ Response >= 4
  BY BoundsAssumption DEF ProgressLimit
<1>1. Snapshot = [native |-> S # {},
                  age    |-> IF S = {} THEN 0 ELSE Cap(Max(Ages), ProgressLimit)]
  BY DEF Snapshot, Oldest
<1>2. CASE S = {}
  <2>1. Snapshot.native = FALSE /\ Snapshot.age = 0
    BY <1>1, <1>2
  <2>2. Snapshot = [native |-> FALSE, age |-> 0]
    BY <1>1, <1>2
  <2> QED
    BY <1>0, <1>2, <2>1, <2>2
<1>3. CASE S # {}
  <2>1. Ages \in SUBSET (0 .. Response) /\ Ages # {}
    BY <1>3
  <2>2. Max(Ages) \in Ages /\ \A y \in Ages : y <= Max(Ages)
    <3> HIDE DEF Ages
    <3> QED
      BY <1>0, <2>1, MaxFacts
  <2>3. PICK oldest \in S : Max(Ages) = age[oldest]
    BY <2>2
  <2>4. age[oldest] \in 0 .. Response
    BY <2>3
  <2> DEFINE top == Cap(age[oldest], ProgressLimit)
  <2>5. top \in 0 .. 4 /\ (top < 4 <=> age[oldest] < 4) /\ (top = age[oldest] \/ top = 4)
    BY <1>0, <2>4 DEF Cap
  <2>6. Snapshot = [native |-> TRUE, age |-> top]
    BY <1>1, <1>3, <2>3
  <2>7. \A e \in Execs : Live(e) => age[e] <= age[oldest]
    BY <2>2, <2>3
  <2>8. \A e \in Execs : age[e] \in 0 .. Response
    OBVIOUS
  <2> HIDE DEF top
  <2>9. age[oldest] < 4 <=> \A e \in Execs : Live(e) => age[e] < 4
    BY <1>0, <2>3, <2>4, <2>7, <2>8
  <2>10. \A e \in Execs : Live(e) => age[e] <= top \/ top = 4
    BY <2>5, <2>7
  <2> QED
    BY <1>0, <1>3, <2>3, <2>5, <2>6, <2>9, <2>10
<1> QED
  BY <1>2, <1>3

-----------------------------------------------------------------------------
(* What the variables may hold.                                            *)

LEMMA TypeStep == ASSUME TypeOK, [Next]_vars PROVE TypeOK'
<1> USE BoundsAssumption
<1>1. ASSUME NEW e \in Execs, Run(e) PROVE TypeOK'
  BY <1>1 DEF Run, Begin, TypeOK, loopVars, wdVars
<1>2. ASSUME NEW e \in Execs, Restart(e) PROVE TypeOK'
  BY <1>2 DEF Restart, Begin, TypeOK, loopVars, wdVars
<1>3. ASSUME NEW e \in Execs, Beat(e) PROVE TypeOK'
  BY <1>3 DEF Beat, TypeOK, loopVars, wdVars
<1>4. ASSUME NEW e \in Execs, Stall(e) PROVE TypeOK'
  BY <1>4 DEF Stall, TypeOK, loopVars, wdVars
<1>5. ASSUME NEW e \in Execs, Leave(e) PROVE TypeOK'
  BY <1>5 DEF Leave, TypeOK, loopVars, wdVars
<1>6. ASSUME NEW e \in Execs, Stop(e) PROVE TypeOK'
  BY <1>6 DEF Stop, Stopped, TypeOK, loopVars, wdVars
<1>7. ASSUME NEW e \in Execs, Progress(e) PROVE TypeOK'
  BY <1>7 DEF Progress, TypeOK, loopVars, wdVars
<1>8. ASSUME NEW e \in Execs, Capture(e) PROVE TypeOK'
  BY <1>8 DEF Capture, TypeOK, loopVars, wdVars
<1>9. ASSUME Lock PROVE TypeOK'
  BY <1>9 DEF Lock, TypeOK, execVars, loopVars, wdVars
<1>10. ASSUME Unlock PROVE TypeOK'
  BY <1>10 DEF Unlock, TypeOK, execVars, loopVars, wdVars
<1>11. ASSUME LoopTick PROVE TypeOK'
  <2>1. snap' \in [native: BOOLEAN, age: 0 .. ProgressLimit] /\ scanned' \subseteq Execs
    BY <1>11, SnapshotFacts DEF LoopTick, TypeOK
  <2>2. /\ loop' = "send" /\ tick' = 0
        /\ UNCHANGED <<execVars, held, wrote, estop, reply, wdVars>>
    BY <1>11 DEF LoopTick
  <2>3. packet' \in [healthy: BOOLEAN, age: LeadMin .. LeadMax]
    <3>1. packet' = [healthy |-> ~snap'.native \/ snap'.age < ProgressLimit, age |-> 0]
      BY <1>11 DEF LoopTick
    <3>2. (~snap'.native \/ snap'.age < ProgressLimit) \in BOOLEAN /\ 0 \in LeadMin .. LeadMax
      BY DEF LeadMin, LeadMax, Timeout
    <3> QED
      BY <3>1, <3>2
  <2>4. cause' = cause
    BY <1>11 DEF LoopTick
  <2> QED
    BY <2>1, <2>2, <2>3, <2>4 DEF TypeOK, execVars, wdVars, TickPeriod
<1>12. ASSUME LoopReply PROVE TypeOK'
  BY <1>12 DEF LoopReply, TypeOK, execVars, wdVars, ReplyLimit
<1>13. ASSUME LoopTimeout PROVE TypeOK'
  BY <1>13 DEF LoopTimeout, GiveUp, TypeOK, execVars, wdVars, ReplyLimit
<1>14. ASSUME LoopSweep PROVE TypeOK'
  BY <1>14 DEF LoopSweep, Stopped, TypeOK, wdVars
<1>15. ASSUME LoopKill PROVE TypeOK'
  BY <1>15 DEF LoopKill, WatchdogGone, TypeOK, execVars, loopVars, wdVars
<1>16. ASSUME LoopStop PROVE TypeOK'
  BY <1>16 DEF LoopStop, WatchdogGone, TypeOK, execVars, loopVars, wdVars
<1>17. ASSUME WdReceive PROVE TypeOK'
  <2>1. /\ packet \in [healthy: BOOLEAN, age: LeadMin .. LeadMax]
        /\ reply' \in {"ok", "estop"} /\ packet' = None /\ wd' \in {"up", "tripped"}
        /\ UNCHANGED <<execVars, held, loopVars, estop, cause, scanned>>
    BY <1>17 DEF WdReceive, Trip, WatchdogGone, Arrived, TypeOK
  <2>2. pulse' \in BOOLEAN
    BY <1>17 DEF WdReceive, Trip, TypeOK
  <2>3. \/ UNCHANGED <<armed, silence, lead>>
        \/ armed' = TRUE /\ silence' = 0 /\ lead' = -packet.age
    BY <1>17 DEF WdReceive, Trip, WatchdogGone
  <2>4. -packet.age \in LeadMin .. LeadMax /\ 0 \in 0 .. Timeout
    BY <2>1 DEF LeadMin, LeadMax, Timeout
  <2>5. armed' \in BOOLEAN /\ silence' \in 0 .. Timeout /\ lead' \in LeadMin .. LeadMax
    BY <2>3, <2>4 DEF TypeOK
  <2> QED
    BY <2>1, <2>2, <2>5 DEF TypeOK, execVars, loopVars
<1>18. ASSUME WdIdle PROVE TypeOK'
  BY <1>18 DEF WdIdle, Trip, WatchdogGone, TypeOK, execVars, loopVars, wdVars
<1>19. ASSUME WdCrash PROVE TypeOK'
  BY <1>19 DEF WdCrash, WatchdogGone, TypeOK, execVars, loopVars, wdVars
<1>20. ASSUME Time PROVE TypeOK'
  BY <1>20 DEF Time, Aged, Cap, TypeOK, ProgressLimit, TickPeriod, ReplyLimit, Timeout, LeadMin, LeadMax
<1>21. ASSUME ClockStep PROVE TypeOK'
  <2>1. PICK d \in Steps :
          /\ lead - d <= LeadMax
          /\ packet # None => packet.age + d \in LeadMin .. LeadMax
          /\ lead' = IF ~armed \/ lead - d < LeadMin THEN LeadMin ELSE lead - d
          /\ packet' = IF packet = None THEN None ELSE [packet EXCEPT !.age = @ + d]
    BY <1>21 DEF ClockStep
  <2>2. d \in Int /\ lead \in Int /\ LeadMin \in Int /\ LeadMax \in Int /\ LeadMin <= LeadMax
    BY StepsAssumption DEF TypeOK, LeadMin, LeadMax, Timeout
  <2>3. lead' \in LeadMin .. LeadMax
    BY <2>1, <2>2
  <2>4. packet' \in [healthy: BOOLEAN, age: LeadMin .. LeadMax] \union {None}
    BY <2>1 DEF TypeOK
  <2>5. cause' = TRUE /\ UNCHANGED <<execVars, held, loopVars, estop, reply, wd, armed, silence, pulse, scanned>>
    BY <1>21 DEF ClockStep
  <2> QED
    BY <2>3, <2>4, <2>5 DEF TypeOK, execVars, loopVars
<1>22. ASSUME UNCHANGED vars PROVE TypeOK'
  BY <1>22 DEF TypeOK, vars, execVars, loopVars, wdVars
<1>23. ASSUME LoopSend PROVE TypeOK'
  BY <1>23 DEF LoopSend, GiveUp, TypeOK, execVars, wdVars
<1> QED
  BY <1>1, <1>2, <1>3, <1>4, <1>5, <1>6, <1>7, <1>8, <1>9, <1>10, <1>11, <1>12, <1>13, <1>14, <1>15, <1>16, <1>17, <1>18, <1>19, <1>20, <1>21, <1>22, <1>23 DEF Next, Executor, Loop, Watchdog

(* The variables of the chain hold what TypeOK says, however late the      *)
(* steps are: ages and durations stay within the bounds they saturate at.  *)
THEOREM ChainTypes == Spec => []TypeOK
<1>1. Init => TypeOK
  <2> SUFFICES ASSUME Init PROVE TypeOK
    OBVIOUS
  <2>1. age \in [Execs -> 0 .. Response]
    BY BoundsAssumption DEF Init
  <2>2. snap \in [native: BOOLEAN, age: 0 .. ProgressLimit]
    BY DEF Init, ProgressLimit
  <2>3. tick \in 0 .. TickPeriod /\ wrote \in 0 .. ReplyLimit /\ silence \in 0 .. Timeout /\ lead \in LeadMin .. LeadMax
    BY DEF Init, TickPeriod, ReplyLimit, Timeout, LeadMin, LeadMax
  <2> QED
    BY <2>1, <2>2, <2>3 DEF Init, TypeOK
<1>2. TypeOK /\ [Next]_vars => TypeOK'
  BY TypeStep
<1> QED
  BY <1>1, <1>2, PTL DEF Spec

-----------------------------------------------------------------------------
(* Server.mu, when every operation gives it back at once.                  *)

HeldInv == held = None

LEMMA HeldStep == ASSUME LockLimit = 0, HeldInv, [Next]_vars PROVE HeldInv'
<1>1. ASSUME NEW e \in Execs,
             \/ Run(e) \/ Restart(e) \/ Beat(e) \/ Stall(e) \/ Leave(e) \/ Stop(e)
             \/ Progress(e) \/ Capture(e)
      PROVE  UNCHANGED held
  BY <1>1 DEF Run, Restart, Beat, Stall, Leave, Stop, Progress, Capture
<1>2. Loop \/ LoopStop => UNCHANGED held
  BY DEF Loop, LoopTick, LoopSend, LoopReply, LoopTimeout, LoopSweep, LoopKill, LoopStop
<1>3. Watchdog \/ WdCrash \/ ClockStep \/ UNCHANGED vars => UNCHANGED held
  BY DEF Watchdog, WdReceive, WdIdle, WdCrash, ClockStep, vars
<1>4. ~Lock /\ ~Unlock
  BY DEF HeldInv, Lock, Unlock
<1>5. Time => held' = None
  BY DEF HeldInv, Time
<1> QED
  BY <1>1, <1>2, <1>3, <1>4, <1>5 DEF Next, Executor, HeldInv

LEMMA NeverHeld == ASSUME LockLimit = 0 PROVE Spec => []HeldInv
<1>1. Init => HeldInv
  BY DEF Init, HeldInv
<1>2. HeldInv /\ [Next]_vars => HeldInv'
  BY HeldStep
<1> QED
  BY <1>1, <1>2, PTL DEF Spec

(* The health bit that a tick composes is that of the executors supervised *)
(* at the tick, when the lock is free.                                     *)
LEMMA TicksAreFresh ==
  ASSUME TypeOK, HeldInv, LoopTick
  PROVE  packet'.healthy <=> \A e \in Execs : Live(e) => age[e] < ProgressLimit
<1>1. snap' = Snapshot
  BY DEF LoopTick, HeldInv
<1>2. packet' = [healthy |-> ~snap'.native \/ snap'.age < ProgressLimit, age |-> 0]
  BY DEF LoopTick
<1>3. packet'.healthy <=> ~Snapshot.native \/ Snapshot.age < ProgressLimit
  BY <1>1, <1>2
<1>4. age \in [Execs -> 0 .. Response]
  BY DEF TypeOK
<1>5. /\ Snapshot.native <=> \E e \in Execs : Live(e)
      /\ Snapshot.native =>
           (Snapshot.age < ProgressLimit <=> \A e \in Execs : Live(e) => age[e] < ProgressLimit)
  BY <1>4, SnapshotFacts
<1> QED
  BY <1>3, <1>5

-----------------------------------------------------------------------------
(* What a step of the supervisor or of an executor does to the ages.       *)

ExecutorStep(e) ==
  Run(e) \/ Restart(e) \/ Beat(e) \/ Stall(e) \/ Leave(e) \/ Stop(e) \/ Executor(e)

LEMMA ExecutorFrame ==
  ASSUME NEW e \in Execs, ExecutorStep(e)
  PROVE  UNCHANGED <<held, loopVars, packet, reply, wdVars>> /\ (estop => estop')
<1>1. UNCHANGED <<held, loopVars, packet, reply, wdVars>>
  BY DEF ExecutorStep, Executor, Run, Restart, Beat, Stall, Leave, Stop, Progress, Capture
<1>2. estop' = estop \/ Capture(e)
  BY DEF ExecutorStep, Executor, Run, Restart, Beat, Stall, Leave, Stop, Progress
<1>3. Capture(e) => (estop => estop')
  BY DEF Capture
<1> QED
  BY <1>1, <1>2, <1>3

(* An executor that is supervised after the step was so before and got no  *)
(* older, or it starts now; one that waits for its restart ran before.     *)
LEMMA ExecutorAges ==
  ASSUME TypeOK, NEW e \in Execs, ExecutorStep(e), NEW x \in Execs
  PROVE  /\ \/ run'[x] \notin {"running", "ok", "failed"}
            \/ Live(x) /\ age'[x] \in {0, age[x]}
            \/ age'[x] = 0 /\ (run[x] = "restarting" \/ ~estop)
         /\ run'[x] = "restarting" => run[x] = "restarting" \/ Live(x)
<1> USE DEF TypeOK, Live
<1>1. CASE Run(e)
  BY <1>1 DEF Run, Begin
<1>2. CASE Restart(e)
  BY <1>2 DEF Restart, Begin
<1>3. CASE Beat(e) \/ Stall(e) \/ Progress(e)
  BY <1>3 DEF Beat, Stall, Progress
<1>4. CASE Leave(e)
  BY <1>4 DEF Leave
<1>5. CASE Stop(e)
  BY <1>5 DEF Stop, Stopped
<1>6. CASE Capture(e)
  BY <1>6 DEF Capture
<1> QED
  BY <1>1, <1>2, <1>3, <1>4, <1>5, <1>6 DEF ExecutorStep, Executor

-----------------------------------------------------------------------------
(* A snapshot that is kept.  It ages with the executors it covers, which   *)
(* only get younger, leave, or begin anew and are covered no more.         *)

SnapInv ==
  /\ \A e \in scanned :
       Live(e) => snap.native /\ (age[e] <= snap.age \/ snap.age = ProgressLimit)
  /\ loop = "send" /\ packet.healthy => ~snap.native \/ snap.age < ProgressLimit

LEMMA CoveredStep ==
  ASSUME TypeOK, NEW e \in Execs, ExecutorStep(e), NEW x \in scanned', Live(x)'
  PROVE  x \in scanned /\ Live(x) /\ age'[x] \in {0, age[x]}
<1>0. x \in Execs /\ x \in scanned
  BY DEF TypeOK, ExecutorStep, Executor, Run, Restart, Begin, Beat, Stall, Leave, Stop,
         Progress, Capture
<1> USE DEF TypeOK, Live
<1>1. CASE Run(e)
  BY <1>0, <1>1 DEF Run, Begin
<1>2. CASE Restart(e)
  BY <1>0, <1>2 DEF Restart, Begin
<1>3. CASE Beat(e) \/ Stall(e) \/ Progress(e)
  BY <1>0, <1>3 DEF Beat, Stall, Progress
<1>4. CASE Leave(e)
  BY <1>0, <1>4 DEF Leave
<1>5. CASE Stop(e)
  BY <1>0, <1>5 DEF Stop, Stopped
<1>6. CASE Capture(e)
  BY <1>0, <1>6 DEF Capture
<1> QED
  BY <1>1, <1>2, <1>3, <1>4, <1>5, <1>6 DEF ExecutorStep, Executor

LEMMA SnapStep ==
  ASSUME Timely, TypeOK, ChainInv, SnapInv, [Next]_vars
  PROVE  SnapInv'
<1>1. ASSUME NEW e \in Execs, ExecutorStep(e) PROVE SnapInv'
  <2>1. UNCHANGED <<loop, snap, packet>>
    BY <1>1, ExecutorFrame DEF loopVars
  <2>2. ASSUME NEW x \in scanned', Live(x)'
        PROVE  snap.native /\ (age'[x] <= snap.age \/ snap.age = ProgressLimit)
    <3>1. x \in scanned /\ Live(x) /\ age'[x] \in {0, age[x]}
      BY <1>1, <2>2, CoveredStep
    <3>2. snap.age \in Nat
      BY DEF TypeOK
    <3> QED
      BY <3>1, <3>2 DEF SnapInv
  <2> QED
    BY <2>1, <2>2 DEF SnapInv
<1>2. ASSUME LoopTick PROVE SnapInv'
  <2>1. packet'.healthy <=> ~snap'.native \/ snap'.age < ProgressLimit
    <3>1. packet' = [healthy |-> ~snap'.native \/ snap'.age < ProgressLimit, age |-> 0]
      BY <1>2 DEF LoopTick
    <3> QED
      BY <3>1
  <2>2. UNCHANGED <<run, age>>
    BY <1>2 DEF LoopTick, execVars
  <2>3. CASE held = None
    <3>1. snap' = Snapshot /\ scanned' = {e \in Execs : Live(e)}
      BY <1>2, <2>3 DEF LoopTick
    <3>2. \A e \in Execs : Live(e) =>
             Snapshot.native /\ (age[e] <= Snapshot.age \/ Snapshot.age = ProgressLimit)
      BY SnapshotFacts DEF TypeOK
    <3> QED
      BY <2>1, <2>2, <3>1, <3>2 DEF SnapInv, Live
  <2>4. CASE held # None
    <3>1. UNCHANGED <<snap, scanned>>
      BY <1>2, <2>4 DEF LoopTick
    <3> QED
      BY <2>1, <2>2, <3>1 DEF SnapInv, Live
  <2> QED
    BY <2>3, <2>4
<1>3. ASSUME LoopSend \/ LoopReply \/ LoopTimeout \/ LoopKill \/ LoopStop PROVE SnapInv'
  BY <1>3 DEF LoopSend, LoopReply, LoopTimeout, LoopKill, LoopStop, GiveUp, execVars, SnapInv, Live
<1>4. ASSUME LoopSweep PROVE SnapInv'
  <2>1. /\ loop' # "send" /\ UNCHANGED <<snap, scanned>>
        /\ \A e \in Execs : ~Live(e)'
    BY <1>4 DEF LoopSweep, Stopped, Live
  <2> QED
    BY <2>1 DEF SnapInv, TypeOK
<1>5. ASSUME Watchdog \/ WdCrash PROVE SnapInv'
  <2>1. UNCHANGED <<run, age, loop, snap, scanned>>
    BY <1>5 DEF Watchdog, WdReceive, WdIdle, WdCrash, execVars, loopVars
  <2>2. loop = "send" => UNCHANGED packet
    BY <1>5, WatchdogSteps DEF WdCrash, WatchdogGone, Arrived
  <2> QED
    BY <2>1, <2>2 DEF SnapInv, Live
<1>6. ASSUME Time PROVE SnapInv'
  <2>1. UNCHANGED <<run, loop, scanned>> /\ loop # "send" /\ snap' = Aged(snap)
    BY <1>6 DEF Time, Due
  <2>2. ASSUME NEW e \in scanned, Live(e)
        PROVE  snap'.native /\ (age'[e] <= snap'.age \/ snap'.age = ProgressLimit)
    <3>1. /\ snap.native /\ snap.age \in 0 .. 4 /\ age[e] \in Nat
          /\ age[e] <= snap.age \/ snap.age = 4
      BY <2>2, BoundsAssumption DEF SnapInv, TypeOK, ProgressLimit
    <3>2. snap'.native /\ snap'.age = Cap(snap.age + 1, 4)
      BY <2>1, <3>1 DEF Aged, TypeOK, ProgressLimit
    <3>3. age'[e] = Cap(age[e] + 1, Response)
      BY <1>6, <2>2 DEF Time, TypeOK
    <3>4. age'[e] <= age[e] + 1
      BY <3>1, <3>3, BoundsAssumption DEF Cap
    <3>5. age'[e] \in Int
      BY <3>1, <3>3, BoundsAssumption DEF Cap
    <3> QED
      BY <3>1, <3>2, <3>4, <3>5 DEF Cap, ProgressLimit
  <2> QED
    BY <2>1, <2>2 DEF SnapInv, Live
<1>7. ASSUME ClockStep PROVE SnapInv'
  <2>1. UNCHANGED <<run, age, loop, snap, scanned>>
    BY <1>7 DEF ClockStep, execVars, loopVars
  <2>2. packet # None => packet'.healthy = packet.healthy
    BY <1>7 DEF ClockStep, TypeOK
  <2>3. loop = "send" => packet # None
    BY DEF ChainInv, FlightInv
  <2> QED
    BY <2>1, <2>2, <2>3 DEF SnapInv, Live
<1>8. ASSUME Lock \/ Unlock \/ UNCHANGED vars PROVE SnapInv'
  BY <1>8 DEF Lock, Unlock, vars, execVars, loopVars, SnapInv, Live
<1> QED
  BY <1>1, <1>2, <1>3, <1>4, <1>5, <1>6, <1>7, <1>8 DEF Next, Loop, ExecutorStep

(* safetyLoop: however long Server.mu is held and however often the ticks  *)
(* find it so, a healthy datagram is never sent while an executor that the *)
(* last snapshot covers is 40 ms old or older and still supervised.  For   *)
(* goroutines that run when they are due, any number of executors, any     *)
(* period of their beats and any steps of the clock.                       *)
THEOREM KeptSnapshotsAge == ASSUME Timely PROVE Spec => SnapshotConveyed
<1>1. Init => SnapInv
  BY DEF Init, SnapInv
<1>2. TypeOK /\ ChainInv /\ SnapInv /\ [Next]_vars => SnapInv'
  BY SnapStep
<1>3. TypeOK /\ SnapInv /\ [Next]_vars =>
        [loop = "send" /\ loop' = "sent" /\ packet.healthy =>
           \A e \in scanned : Live(e) => age[e] < ProgressLimit]_vars
  <2> SUFFICES ASSUME TypeOK, SnapInv, loop = "send", packet.healthy,
                      NEW e \in scanned, Live(e)
               PROVE  age[e] < ProgressLimit
    OBVIOUS
  <2>1. snap.native /\ snap.age < ProgressLimit /\ age[e] <= snap.age
    BY DEF SnapInv, TypeOK, ProgressLimit
  <2>2. snap.age \in Int /\ age[e] \in Int
    BY BoundsAssumption DEF TypeOK
  <2> QED
    BY <2>1, <2>2 DEF ProgressLimit
<1> QED
  BY <1>1, <1>2, <1>3, ChainTypes, ChainInductive, PTL DEF Spec, SnapshotConveyed

-----------------------------------------------------------------------------
(* From the last progress to the last pulse.  While the watchdog runs,     *)
(* every supervised executor is younger than the limit of the response:    *)
(* the loop ticks once per unit of time, and in the unit in which an       *)
(* executor reaches ProgressLimit the packet is unhealthy and the watchdog *)
(* exits before time goes on.                                              *)

Younger(bound) == \A e \in Execs : Live(e) => age[e] <= bound

(* The executors have not aged since the last tick, which found them well. *)
Vouched ==
  \/ loop = "wait" /\ tick = 0
  \/ loop \in {"send", "sent"} /\ (packet = None \/ packet.healthy)

StallInv ==
  wd = "up" =>
    /\ loop # "done" /\ wrote = 0
    /\ loop # "sweeping" => Younger(ProgressLimit)
    /\ Vouched => Younger(ProgressLimit - 1)
    /\ loop = "wait" => tick <= TickPeriod
    /\ loop \in {"send", "sent"} => tick = 0
    /\ loop = "sent" => packet # None \/ reply # None
    /\ loop \in {"tripped", "sweeping"} => estop
    /\ loop = "sweeping" => \A e \in Execs : ~Live(e) /\ run[e] # "restarting"

LEMMA StaysYounger ==
  ASSUME TypeOK, NEW e \in Execs, ExecutorStep(e), NEW bound \in Nat, Younger(bound)
  PROVE  Younger(bound)'
<1> SUFFICES ASSUME NEW x \in Execs, Live(x)' PROVE age'[x] <= bound
  BY DEF Younger
<1>1. age'[x] = 0 \/ (Live(x) /\ age'[x] = age[x])
  BY ExecutorAges DEF Live
<1> QED
  BY <1>1 DEF Younger

LEMMA StallStep ==
  ASSUME Timely, LockLimit = 0, Response > ProgressLimit,
         TypeOK, ChainInv, HeldInv, StallInv, [Next]_vars
  PROVE  StallInv'
<1>1. ASSUME NEW e \in Execs, ExecutorStep(e) PROVE StallInv'
  <2> SUFFICES ASSUME wd' = "up" PROVE StallInv'
    BY DEF StallInv
  <2>1. UNCHANGED <<loop, tick, wrote, packet, reply, wd>> /\ (estop => estop')
    BY <1>1, ExecutorFrame DEF loopVars, wdVars
  <2>2. Younger(ProgressLimit) => Younger(ProgressLimit)'
    BY <1>1, StaysYounger DEF ProgressLimit
  <2>3. Younger(ProgressLimit - 1) => Younger(ProgressLimit - 1)'
    BY <1>1, StaysYounger DEF ProgressLimit
  <2>4. ASSUME loop = "sweeping", NEW x \in Execs
        PROVE  ~Live(x)' /\ run'[x] # "restarting"
    BY <1>1, <2>1, <2>4, ExecutorAges DEF StallInv, Live
  <2>5. Vouched' => Vouched
    BY <2>1 DEF Vouched
  <2> QED
    BY <2>1, <2>2, <2>3, <2>4, <2>5 DEF StallInv
<1>2. ASSUME LoopTick PROVE StallInv'
  <2> SUFFICES ASSUME wd' = "up" PROVE StallInv'
    BY DEF StallInv
  <2>1. wd = "up" /\ loop = "wait" /\ loop' = "send" /\ tick' = 0 /\ UNCHANGED <<run, age, wrote>>
    BY <1>2 DEF LoopTick, wdVars, execVars
  <2>2. packet' # None
    <3>1. packet' = [healthy |-> ~snap'.native \/ snap'.age < ProgressLimit, age |-> 0]
      BY <1>2 DEF LoopTick
    <3>2. packet' \in [healthy: BOOLEAN, age: Int]
      BY <3>1
    <3> QED
      BY <3>2, NoneIsNoPacket
  <2>3. packet'.healthy => Younger(ProgressLimit - 1)
    BY <1>2, TicksAreFresh DEF Younger, ProgressLimit, TypeOK
  <2>4. Younger(ProgressLimit)' /\ (packet'.healthy => Younger(ProgressLimit - 1)')
    BY <2>1, <2>3 DEF StallInv, Younger, Live
  <2> QED
    BY <2>1, <2>2, <2>4 DEF StallInv, Vouched
<1>3. ASSUME LoopReply PROVE StallInv'
  <2> SUFFICES ASSUME wd' = "up" PROVE StallInv'
    BY DEF StallInv
  <2>1. /\ wd = "up" /\ loop = "sent" /\ packet = None
        /\ loop' = "wait" \/ (loop' = "tripped" /\ estop')
        /\ wrote' = 0 /\ UNCHANGED <<run, age, tick, packet>>
    BY <1>3 DEF LoopReply, ChainInv, FlightInv, execVars, wdVars
  <2>2. Younger(ProgressLimit)' /\ Younger(ProgressLimit - 1)' /\ tick' = 0
    BY <2>1 DEF StallInv, Vouched, Younger, Live
  <2> QED
    BY <2>1, <2>2 DEF StallInv, TickPeriod
<1>4. ASSUME LoopTimeout PROVE StallInv'
  <2>1. loop = "sent" /\ wrote >= ReplyLimit /\ UNCHANGED wd
    BY <1>4 DEF LoopTimeout, wdVars
  <2> QED
    BY <2>1 DEF StallInv, ReplyLimit
<1>5. ASSUME LoopSweep PROVE StallInv'
  <2>1. loop = "tripped" /\ loop' = "sweeping" /\ UNCHANGED <<wd, wrote, estop>>
    BY <1>5 DEF LoopSweep, wdVars
  <2>2. \A e \in Execs : ~Live(e)' /\ run'[e] # "restarting"
    BY <1>5 DEF LoopSweep, Stopped, Live
  <2> QED
    BY <2>1, <2>2 DEF StallInv, Vouched
<1>6. ASSUME LoopKill \/ LoopStop \/ WdCrash PROVE StallInv'
  <2>1. wd' # "up"
    BY <1>6 DEF LoopKill, LoopStop, WdCrash, WatchdogGone, wdVars
  <2> QED
    BY <2>1 DEF StallInv
<1>7. ASSUME Watchdog PROVE StallInv'
  <2> SUFFICES ASSUME wd' = "up" PROVE StallInv'
    BY DEF StallInv
  <2>1. /\ wd = "up" /\ packet' = (IF Arrived THEN None ELSE packet)
        /\ UNCHANGED <<loop, tick, wrote, run, age, estop>>
    BY <1>7, WatchdogSteps DEF Watchdog, WdReceive, WdIdle, execVars, loopVars
  <2>2. Arrived => packet.healthy
    BY <1>7 DEF Watchdog, WdReceive, WdIdle, Trips, Trip, WatchdogGone
  <2>3. loop = "sent" => reply' # None
    BY <1>7, NoneAssumption DEF Watchdog, WdReceive, WdIdle, Arrived, StallInv
  <2>4. Vouched' => Vouched
    BY <2>1, <2>2 DEF Vouched
  <2> QED
    BY <2>1, <2>3, <2>4 DEF StallInv, Younger, Live
<1>8. ASSUME Time PROVE StallInv'
  <2> SUFFICES ASSUME wd' = "up" PROVE StallInv'
    BY DEF StallInv
  <2>1. ~Due /\ wd = "up" /\ UNCHANGED <<loop, estop, run>>
    BY <1>8 DEF Time
  <2>2. ~(loop = "send" \/ loop = "sent" \/ loop = "tripped")
    BY <2>1 DEF Due, Arrived, HeldInv, StallInv
  <2>a. wrote' = 0
    BY <1>8, <2>1, <2>2 DEF Time, StallInv
  <2>3. ASSUME loop = "wait" PROVE tick' = 1 /\ Younger(ProgressLimit)'
    <3>1. tick = 0 /\ Younger(ProgressLimit - 1)
      BY <2>1, <2>3 DEF Due, StallInv, Vouched, TickPeriod, TypeOK
    <3>2. tick' = 1
      BY <1>8, <3>1 DEF Time, Cap, TickPeriod
    <3>3. ASSUME NEW e \in Execs, Live(e)' PROVE age'[e] <= ProgressLimit
      <4>1. Live(e) /\ age[e] <= ProgressLimit - 1
        BY <2>1, <3>1, <3>3 DEF Live, Younger
      <4>2. age'[e] = Cap(age[e] + 1, Response)
        BY <1>8, <4>1 DEF Time
      <4> QED
        BY <4>1, <4>2, BoundsAssumption DEF Cap, TypeOK, ProgressLimit
    <3> QED
      BY <3>2, <3>3 DEF Younger
  <2>4. loop' # "wait" => ~Vouched'
    BY <2>1, <2>2 DEF Vouched
  <2>5. loop = "wait" \/ loop = "sweeping"
    BY <2>1, <2>2 DEF StallInv, TypeOK
  <2>6. CASE loop = "wait"
    BY <2>1, <2>a, <2>3, <2>6 DEF StallInv, Vouched, TickPeriod
  <2>7. CASE loop = "sweeping"
    BY <2>1, <2>a, <2>7 DEF StallInv, Vouched, Live
  <2> QED
    BY <2>5, <2>6, <2>7
<1>9. ASSUME ClockStep PROVE StallInv'
  <2>1. /\ UNCHANGED <<wd, loop, tick, wrote, run, age, estop, reply>>
        /\ packet = None => packet' = None
    BY <1>9 DEF ClockStep, loopVars, execVars
  <2>2. packet # None => packet' # None /\ packet'.healthy = packet.healthy
    BY <1>9, NoneAssumption DEF ClockStep, TypeOK
  <2>3. Vouched' => Vouched
    BY <2>1, <2>2 DEF Vouched
  <2> QED
    BY <2>1, <2>2, <2>3 DEF StallInv, Younger, Live
<1>10. ASSUME UNCHANGED vars PROVE StallInv'
  BY <1>10 DEF vars, execVars, loopVars, wdVars, StallInv, Vouched, Younger, Live
<1>11. ~Lock /\ ~Unlock
  BY DEF HeldInv, Lock, Unlock
<1>12. ASSUME LoopSend PROVE StallInv'
  <2> SUFFICES ASSUME wd' = "up" PROVE StallInv'
    BY DEF StallInv
  <2>1. /\ wd = "up" /\ loop = "send" /\ loop' = "sent"
        /\ UNCHANGED <<tick, wrote, run, age, packet>>
    BY <1>12 DEF LoopSend, wdVars, execVars
  <2>2. packet # None
    BY <2>1 DEF ChainInv, FlightInv
  <2> QED
    BY <2>1, <2>2 DEF StallInv, Vouched, Younger, Live
<1> QED
  BY <1>1, <1>2, <1>3, <1>4, <1>5, <1>6, <1>7, <1>8, <1>9, <1>10, <1>11, <1>12
  DEF Next, Loop, ExecutorStep

(* The response: an executor whose last progress is Response old is not    *)
(* supervised any more, or the watchdog has dropped the line and exited.   *)
(* It asks for goroutines and a watchdog that run when they are due and    *)
(* for a response that is longer than the limit of the health bit; not for *)
(* executors that beat in time, nor for a clock that is left alone.        *)
THEOREM StallsStopPulses ==
  ASSUME Timely, LockLimit = 0, Response > ProgressLimit
  PROVE  Spec => []StallStopsPulses
<1>1. Init => StallInv
  BY DEF Init, StallInv, Younger, Live, TickPeriod, ProgressLimit
<1>2. TypeOK /\ ChainInv /\ HeldInv /\ StallInv /\ [Next]_vars => StallInv'
  BY StallStep
<1>3. TypeOK /\ StallInv => StallStopsPulses
  <2> SUFFICES ASSUME TypeOK, StallInv, wd = "up",
                      NEW e \in Execs, run[e] = "running", age[e] >= Response
               PROVE  FALSE
    BY DEF StallStopsPulses
  <2>1. Live(e)
    BY DEF Live
  <2>2. age[e] <= ProgressLimit
    BY <2>1 DEF StallInv, Younger
  <2> QED
    BY <2>2, BoundsAssumption DEF TypeOK, ProgressLimit
<1> QED
  BY <1>1, <1>2, <1>3, ChainTypes, ChainInductive, NeverHeld, PTL DEF Spec

-----------------------------------------------------------------------------
(* No trip without a cause.  Until something happens that calls for an     *)
(* E-Stop, executors are within Callback of their last progress, and the   *)
(* loop and the watchdog are in one of four places: closed, between two    *)
(* ticks, with a fresh and healthy packet composed or in flight, or with   *)
(* the answer to it.                                                       *)

Healthy ==
  \A e \in Execs : /\ run[e] # "failed" /\ ~stalled[e]
                   /\ run[e] \in {"running", "ok"} => age[e] <= Callback

Closed  == loop = "done" /\ wd = "dead"
Between == /\ loop = "wait" /\ wd = "up" /\ tick <= TickPeriod /\ wrote = 0
           /\ silence <= tick /\ lead <= 0 /\ (tick > 0 => lead < 0)
Asked   == /\ loop \in {"send", "sent"} /\ wd = "up" /\ tick = 0 /\ wrote = 0
           /\ packet = [healthy |-> TRUE, age |-> 0] /\ reply = None
           /\ silence <= TickPeriod /\ lead < 0
Answered == /\ loop = "sent" /\ wd = "up" /\ tick = 0 /\ wrote = 0
            /\ packet = None /\ reply = "ok" /\ silence = 0 /\ lead <= 0

LEMMA NoneIsNotHealthy == None # [healthy |-> TRUE, age |-> 0]
<1>1. [healthy |-> TRUE, age |-> 0] \in [healthy: BOOLEAN, age: Int]
  OBVIOUS
<1> QED
  BY <1>1, NoneAssumption

Nominal == ~estop /\ Healthy /\ (Closed \/ Between \/ Asked \/ Answered)

QuietInv == ~cause => Nominal

LEMMA NominalExecutors ==
  ASSUME TypeOK, Nominal, NEW e \in Execs, ExecutorStep(e), ~cause'
  PROVE  Nominal'
<1>1. ~estop' /\ Healthy'
  <2> SUFFICES ASSUME NEW x \in Execs
               PROVE  /\ ~estop' /\ run'[x] # "failed" /\ ~stalled'[x]
                      /\ run'[x] \in {"running", "ok"} => age'[x] <= Callback
    BY DEF Healthy
  <2> USE BoundsAssumption DEF Nominal, Healthy, TypeOK
  <2>1. CASE Run(e)
    BY <2>1 DEF Run, Begin
  <2>2. CASE Restart(e)
    BY <2>2 DEF Restart, Begin
  <2>3. CASE Beat(e)
    BY <2>3 DEF Beat
  <2>4. CASE Stall(e)
    BY <2>4 DEF Stall
  <2>5. CASE Leave(e)
    BY <2>5 DEF Leave
  <2>6. CASE Stop(e)
    BY <2>6 DEF Stop, Stopped, Live
  <2>7. CASE Progress(e)
    BY <2>7 DEF Progress
  <2>8. CASE Capture(e)
    BY <2>8 DEF Capture
  <2> QED
    BY <2>1, <2>2, <2>3, <2>4, <2>5, <2>6, <2>7, <2>8 DEF ExecutorStep, Executor
<1>2. UNCHANGED <<loop, tick, wrote, packet, reply, wd, silence, lead>>
  BY ExecutorFrame DEF loopVars, wdVars
<1> QED
  BY <1>1, <1>2 DEF Nominal, Closed, Between, Asked, Answered

LEMMA QuietStep ==
  ASSUME Timely, LockLimit = 0, Callback < ProgressLimit,
         TypeOK, ChainInv, HeldInv, QuietInv, [Next]_vars
  PROVE  QuietInv'
<1> SUFFICES ASSUME ~cause' PROVE Nominal'
  BY DEF QuietInv
<1>a. ASSUME ~cause, UNCHANGED <<run, age, stalled, estop>> PROVE ~estop' /\ Healthy'
  BY <1>a DEF QuietInv, Nominal, Healthy
<1>1. ASSUME NEW e \in Execs, ExecutorStep(e) PROVE Nominal'
  <2>1. ~cause
    BY <1>1 DEF ExecutorStep, Executor, Run, Restart, Beat, Stall, Leave, Stop, Progress, Capture
  <2> QED
    BY <1>1, <2>1, NominalExecutors DEF QuietInv
<1>2. ASSUME LoopTick PROVE Nominal'
  <2>1. /\ ~cause /\ loop = "wait" /\ tick >= TickPeriod /\ tick' = 0
        /\ UNCHANGED <<run, age, stalled, estop, wrote, reply, wd, silence, lead>>
    BY <1>2 DEF LoopTick, execVars, wdVars
  <2>2. Nominal /\ Between
    BY <2>1 DEF QuietInv, Nominal, Closed, Asked, Answered
  <2>3. /\ loop' = "send"
        /\ packet' = [healthy |-> ~snap'.native \/ snap'.age < ProgressLimit, age |-> 0]
    BY <1>2 DEF LoopTick
  <2>4. packet'.healthy \in BOOLEAN
    BY <2>3
  <2>5. packet = None /\ reply = None
    BY <2>1 DEF ChainInv, FlightInv
  <2>6. \A e \in Execs : Live(e) => age[e] < ProgressLimit
    BY <2>2, BoundsAssumption DEF Nominal, Healthy, Live, TypeOK, ProgressLimit
  <2>7. packet'.healthy
    BY <1>2, <2>6, TicksAreFresh
  <2>8. packet' = [healthy |-> TRUE, age |-> 0]
    BY <2>3, <2>4, <2>7
  <2>9. ~estop' /\ Healthy'
    BY <1>a, <2>1, <2>3
  <2>10. silence <= TickPeriod /\ lead < 0
    BY <2>1, <2>2 DEF Between, TickPeriod, TypeOK, Timeout
  <2>11. Asked'
    BY <2>1, <2>2, <2>3, <2>5, <2>8, <2>10 DEF Between, Asked, TickPeriod
  <2> QED
    BY <2>9, <2>11 DEF Nominal
<1>3. ASSUME LoopReply PROVE Nominal'
  <2>1. /\ ~cause /\ loop = "sent" /\ reply # None /\ wrote' = 0
        /\ UNCHANGED <<run, age, stalled, tick, wd, silence, lead>>
    BY <1>3 DEF LoopReply, execVars, wdVars
  <2>2. Nominal /\ Answered
    BY <2>1 DEF QuietInv, Nominal, Closed, Between, Asked
  <2>3. ~estop' /\ loop' = "wait" /\ UNCHANGED estop
    BY <1>3, <2>2 DEF LoopReply, Nominal, Answered, TypeOK
  <2>4. ~estop' /\ Healthy'
    BY <1>a, <2>1, <2>3
  <2> QED
    BY <2>1, <2>2, <2>3, <2>4 DEF Nominal, Answered, Between, TickPeriod
<1>4. ASSUME LoopTimeout \/ LoopSweep \/ LoopKill PROVE Nominal'
  <2>1. ~cause
    BY <1>4 DEF LoopTimeout, LoopSweep, LoopKill
  <2>2. (loop = "sent" /\ wrote >= ReplyLimit) \/ loop \in {"tripped", "sweeping"}
    BY <1>4 DEF LoopTimeout, LoopSweep, LoopKill
  <2> QED
    BY <2>1, <2>2 DEF QuietInv, Nominal, Closed, Between, Asked, Answered, ReplyLimit
<1>5. ASSUME LoopStop PROVE Nominal'
  <2>1. /\ ~cause /\ loop = "wait" /\ loop' = "done" /\ UNCHANGED <<run, age, stalled, estop>>
        /\ wd = "up" => wd' = "dead"
    BY <1>5 DEF LoopStop, WatchdogGone, execVars
  <2>2. wd = "up"
    BY <2>1 DEF QuietInv, Nominal, Closed, Between, Asked, Answered
  <2> QED
    BY <1>a, <2>1, <2>2 DEF Nominal, Closed
<1>6. ASSUME WdReceive PROVE Nominal'
  <2>1. /\ ~cause /\ wd = "up" /\ packet # None /\ loop # "send"
        /\ UNCHANGED <<run, age, stalled, estop, loop, tick, wrote>>
    BY <1>6 DEF WdReceive, Arrived, execVars, loopVars
  <2>2. Asked
    <3>1. loop # "wait"
      BY <2>1 DEF ChainInv, FlightInv
    <3> QED
      BY <2>1, <3>1 DEF QuietInv, Nominal, Closed, Between, Answered
  <2>3. packet.healthy /\ packet.age = 0 /\ -packet.age >= 0 /\ -packet.age <= 0
    <3>1. packet.healthy /\ packet.age = 0
      BY <2>2 DEF Asked
    <3>2. \A n \in Int : n = 0 => -n >= 0 /\ -n <= 0
      OBVIOUS
    <3>3. packet.age \in Int
      BY <3>1
    <3> QED
      BY <3>1, <3>2, <3>3, Zenon
  <2>4. ~Trips(packet) /\ Fits(packet)
    BY <2>2, <2>3 DEF Asked, Trips, Late, Fits, Timeout, TickPeriod, TypeOK, LeadMin, LeadMax
  <2>5. reply' = "ok" /\ packet' = None /\ wd' = "up" /\ silence' = 0 /\ lead' <= 0
    BY <1>6, <2>1, <2>3, <2>4 DEF WdReceive
  <2>6. ~estop' /\ Healthy'
    BY <1>a, <2>1
  <2> QED
    BY <2>1, <2>2, <2>5, <2>6 DEF Nominal, Asked, Answered
<1>7. ASSUME WdIdle PROVE Nominal'
  <2>1. ~cause /\ wd = "up" /\ UNCHANGED <<run, age, stalled, estop, loop, tick, wrote, reply>>
    BY <1>7 DEF WdIdle, execVars, loopVars
  <2>2. Between \/ Asked \/ Answered
    BY <2>1 DEF QuietInv, Nominal, Closed
  <2>3. ~Late
    BY <2>2 DEF Between, Asked, Answered, Late, Timeout, TickPeriod, TypeOK
  <2>4. UNCHANGED <<packet, wd, silence, lead>>
    BY <1>7, <2>3 DEF WdIdle
  <2>5. ~estop' /\ Healthy'
    BY <1>a, <2>1
  <2> QED
    BY <2>1, <2>2, <2>4, <2>5 DEF Nominal, Between, Asked, Answered
<1>8. ASSUME Time PROVE Nominal'
  <2>1. ~cause /\ ~Due /\ UNCHANGED <<run, stalled, estop, loop, reply, wd>> /\ Nominal
    BY <1>8 DEF Time, QuietInv
  <2>2. Closed \/ (Between /\ tick = 0)
    <3>1. ~Answered
      BY <2>1, NoneAssumption DEF Due, Answered
    <3>2. ~Asked
      BY <2>1, NoneIsNotHealthy DEF Due, Arrived, Asked
    <3>3. Between => tick = 0
      BY <2>1 DEF Due, Between, TickPeriod, TypeOK
    <3> QED
      BY <2>1, <3>1, <3>2, <3>3 DEF Nominal
  <2>3. Healthy'
    <3> SUFFICES ASSUME NEW e \in Execs, run[e] \in {"running", "ok"} PROVE age'[e] <= Callback
      BY <2>1 DEF Nominal, Healthy
    <3>1. ~stalled[e] /\ ~beat[e] /\ run[e] = "running"
      BY <2>1 DEF Due, HeldInv, Nominal, Healthy
    <3>2. age[e] < Callback
      BY <2>1, <3>1, BoundsAssumption DEF Due, TypeOK
    <3>3. age'[e] = Cap(age[e] + 1, Response)
      BY <1>8, <3>1 DEF Time, Live
    <3> QED
      BY <3>2, <3>3, BoundsAssumption DEF Cap, TypeOK
  <2>4. CASE Closed
    BY <2>1, <2>3, <2>4 DEF Nominal, Closed
  <2>5. CASE Between /\ tick = 0
    <3>1. tick' = 1 /\ wrote' = 0
      BY <1>8, <2>5 DEF Time, Between, Cap, TickPeriod
    <3>2. silence' <= 1
      BY <1>8, <2>5 DEF Time, Between, Cap, Timeout, TypeOK
    <3>3. lead' < 0
      BY <1>8, <2>5 DEF Time, Between, LeadMin, LeadMax, Timeout, TypeOK
    <3>4. lead' \in Int /\ silence' \in Int
      BY <1>8, TimeSteps
    <3> QED
      BY <2>1, <2>3, <2>5, <3>1, <3>2, <3>3, <3>4 DEF Nominal, Between, TickPeriod
  <2> QED
    BY <2>2, <2>4, <2>5
<1>9. ASSUME UNCHANGED vars PROVE Nominal'
  <2>1. ~cause /\ UNCHANGED <<run, age, stalled, estop, loop, tick, wrote, packet, reply, wd, silence, lead>>
    BY <1>9 DEF vars, execVars, loopVars, wdVars
  <2>2. ~estop' /\ Healthy'
    BY <1>a, <2>1
  <2> QED
    BY <2>1, <2>2 DEF QuietInv, Nominal, Closed, Between, Asked, Answered
<1>10. ~Lock /\ ~Unlock
  BY DEF HeldInv, Lock, Unlock
<1>11. ~WdCrash /\ ~ClockStep
  BY DEF WdCrash, ClockStep
<1>12. ASSUME LoopSend PROVE Nominal'
  <2>1. /\ ~cause /\ loop = "send"
        /\ UNCHANGED <<run, age, stalled, tick, wrote, reply, wd, silence, lead>>
    BY <1>12 DEF LoopSend, execVars, wdVars
  <2>2. Nominal /\ Asked
    BY <2>1 DEF QuietInv, Nominal, Closed, Between, Answered
  <2>3. loop' = "sent" /\ UNCHANGED <<estop, packet>>
    BY <1>12, <2>2 DEF LoopSend, Asked
  <2>4. ~estop' /\ Healthy'
    BY <1>a, <2>1, <2>3
  <2> QED
    BY <2>1, <2>2, <2>3, <2>4 DEF Nominal, Asked
<1> QED
  BY <1>1, <1>2, <1>3, <1>4, <1>5, <1>6, <1>7, <1>8, <1>9, <1>10, <1>11, <1>12
  DEF Next, Loop, Watchdog, ExecutorStep

(* No spurious trip: unless an executor stalls or fails, the watchdog      *)
(* crashes or the clock is set, no schedule of starts, stops, restarts,    *)
(* beats and ticks makes the chain latch E-Stop, when an executor that is  *)
(* well beats more often than the limit of the health bit and what is due  *)
(* is done in time.                                                        *)
THEOREM TripsAreCaused ==
  ASSUME Timely, LockLimit = 0, Callback < ProgressLimit
  PROVE  Spec => []TripsHaveCause
<1>1. Init => QuietInv
  BY BoundsAssumption
  DEF Init, QuietInv, Nominal, Healthy, Between, TickPeriod, LeadMin, Timeout
<1>2. TypeOK /\ ChainInv /\ HeldInv /\ QuietInv /\ [Next]_vars => QuietInv'
  BY QuietStep
<1>3. QuietInv => TripsHaveCause
  BY DEF QuietInv, Nominal, Closed, Between, Asked, Answered, TripsHaveCause
<1> QED
  BY <1>1, <1>2, <1>3, ChainTypes, ChainInductive, NeverHeld, PTL DEF Spec
=============================================================================
