---------------------------- MODULE SafetyChain ----------------------------
(***************************************************************************)
(* The watchdog chain of ROSPlus.  A native executor writes a progress     *)
(* counter to a pipe; captureProgress notes when it last did; every 10 ms  *)
(* safetyLoop (pkg/server/safety.go) sends the oldest progress, as one     *)
(* health bit, to the rosplus-safety process, which emits the pulses that  *)
(* hold the motor relay (crates/rosplus_safety/src/main.rs) and answers.   *)
(*                                                                         *)
(* Time is discrete, in units of 10 ms, and kept as ages that saturate     *)
(* where the code stops telling them apart.  One iteration of the loop of  *)
(* the watchdog is one action.  Server.mu appears because it may be held   *)
(* for long (DELETE removes a tree under it) and safetyLoop only tries it. *)
(***************************************************************************)
EXTENDS Integers, FiniteSetsExt

CONSTANTS
  Execs,      \* Native nodes, each with one executor process at a time.
  Callback,   \* The longest time a healthy executor goes without a beat.
  LockLimit,  \* The longest time an API operation holds Server.mu.
  Response,   \* The time allowed from the last progress to the last pulse.
  Timely,     \* Whether goroutines and the watchdog run when they are due.
  Steps,      \* Steps of the wall clock, in units; forward when positive.
  None

TickPeriod    == 1    \* time.NewTicker(10 ms)
ReplyLimit    == 2    \* SetDeadline(20 ms)
BugProgressLimit == 3 \* no margin for the period of the ticks
ProgressLimit == 4    \* an executor is healthy below 40 ms
Timeout       == 5    \* --timeout-ms 50

ASSUME BoundsAssumption ==
  /\ Callback \in Nat /\ LockLimit \in Nat
  /\ Response \in Nat /\ Response >= ProgressLimit
ASSUME TimelyAssumption == Timely \in BOOLEAN
ASSUME StepsAssumption == Steps \subseteq Int
ASSUME NoneAssumption ==
  None \notin {"ok", "estop"} /\ None \notin Int /\ None \notin [healthy: BOOLEAN, age: Int]

VARIABLES
  run,      \* what the supervisor knows of a node: Node.Status and stopping;
            \* "ok" and "failed" are exits that capture() has not seen yet
  stalled,  \* a callback of the executor never returns
  beat,     \* a counter is in the progress pipe
  age,      \* time since Node.lastProgress
  held,     \* time for which Server.mu has been held, or None
  loop,     \* where safetyLoop is
  tick,     \* time since its last tick
  snap,     \* its last snapshot: is there a native node, the oldest progress
  wrote,    \* time since it wrote a datagram, while it waits for the answer
  estop,    \* Safety.estop
  packet,   \* the datagram to the watchdog: health, age of its timestamp;
            \* while loop = "send" it is composed but not written
  reply,    \* the datagram back
  wd,       \* the watchdog process
  armed,    \* last is Some
  silence,  \* time since last
  lead,     \* last_timestamp minus the wall clock
  pulse,    \* the simulated GPIO is HIGH
  cause,    \* history: something happened that calls for an E-Stop
  scanned   \* history: the executors that the last snapshot covers

execVars == <<run, stalled, beat, age>>
loopVars == <<loop, tick, snap, wrote>>
wdVars   == <<wd, armed, silence, lead, pulse>>
vars     == <<execVars, held, loopVars, estop, packet, reply, wdVars, cause, scanned>>

LeadMin == -(Timeout + 1)
LeadMax == Timeout + 1
Cap(x, top) == IF x > top THEN top ELSE x

(* Node.Status is "running" and the node was not told to stop. *)
Live(e) == run[e] \in {"running", "ok", "failed"}

TypeOK ==
  /\ run \in [Execs -> {"off", "running", "ok", "failed", "restarting", "stopping", "gone"}]
  /\ stalled \in [Execs -> BOOLEAN] /\ beat \in [Execs -> BOOLEAN]
  /\ age \in [Execs -> 0 .. Response]
  /\ held \in (0 .. LockLimit) \union {None}
  /\ loop \in {"wait", "send", "sent", "tripped", "sweeping", "done"}
  /\ tick \in 0 .. TickPeriod /\ wrote \in 0 .. ReplyLimit
  /\ snap \in [native: BOOLEAN, age: 0 .. ProgressLimit]
  /\ estop \in BOOLEAN
  /\ packet \in [healthy: BOOLEAN, age: LeadMin .. LeadMax] \union {None}
  /\ reply \in {"ok", "estop", None}
  /\ wd \in {"up", "tripped", "dead"}
  /\ armed \in BOOLEAN /\ pulse \in BOOLEAN /\ cause \in BOOLEAN
  /\ silence \in 0 .. Timeout
  /\ lead \in LeadMin .. LeadMax
  /\ scanned \subseteq Execs

Init ==
  /\ run = [e \in Execs |-> "off"]
  /\ stalled = [e \in Execs |-> FALSE]
  /\ beat = [e \in Execs |-> FALSE]
  /\ age = [e \in Execs |-> 0]
  /\ held = None
  /\ loop = "wait" /\ tick = 0 /\ wrote = 0
  /\ snap = [native |-> FALSE, age |-> 0]
  /\ estop = FALSE
  /\ packet = None /\ reply = None
  /\ wd = "up" /\ armed = FALSE /\ silence = 0 /\ lead = LeadMin /\ pulse = FALSE
  /\ cause = FALSE /\ scanned = {}

-----------------------------------------------------------------------------
(* Native nodes and their executors.                                       *)

BugBegin(e) ==      \* lastProgress is left at Go's zero time, beyond any age
  /\ run' = [run EXCEPT ![e] = "running"]
  /\ stalled' = [stalled EXCEPT ![e] = FALSE]
  /\ beat' = [beat EXCEPT ![e] = FALSE]
  /\ age' = [age EXCEPT ![e] = Response + 1]
  /\ scanned' = scanned \ {e}
Begin(e) ==
  /\ run' = [run EXCEPT ![e] = "running"]
  /\ stalled' = [stalled EXCEPT ![e] = FALSE]
  /\ beat' = [beat EXCEPT ![e] = FALSE]
  /\ age' = [age EXCEPT ![e] = 0]
  /\ scanned' = scanned \ {e}

(* run() and start(). *)
Run(e) ==
  /\ run[e] = "off" /\ held = None /\ ~estop
  /\ Begin(e)
  /\ UNCHANGED <<held, loopVars, estop, packet, reply, wdVars, cause>>

(* capture() after its sleep. *)
Restart(e) ==
  /\ run[e] = "restarting" /\ held = None
  /\ Begin(e)
  /\ UNCHANGED <<held, loopVars, estop, packet, reply, wdVars, cause>>

(* Heartbeat::beat, from the runtime loop. *)
Beat(e) ==
  /\ run[e] = "running" /\ ~stalled[e]
  /\ beat' = [beat EXCEPT ![e] = TRUE]
  /\ UNCHANGED <<run, stalled, age, held, loopVars, estop, packet, reply, wdVars, cause, scanned>>

(* captureProgress: the time is that of the reading, not of the beat. It   *)
(* matters only while the node is supervised.                              *)
Progress(e) ==
  /\ beat[e] /\ held = None
  /\ beat' = [beat EXCEPT ![e] = FALSE]
  /\ age' = [age EXCEPT ![e] = IF Live(e) THEN 0 ELSE @]
  /\ UNCHANGED <<run, stalled, held, loopVars, estop, packet, reply, wdVars, cause, scanned>>

Stall(e) ==
  /\ run[e] = "running" /\ ~stalled[e]
  /\ stalled' = [stalled EXCEPT ![e] = TRUE]
  /\ cause' = TRUE
  /\ UNCHANGED <<run, beat, age, held, loopVars, estop, packet, reply, wdVars, scanned>>

Leave(e) ==
  /\ run[e] = "running"
  /\ \E how \in {"ok", "failed"} :
       /\ run' = [run EXCEPT ![e] = how]
       /\ cause' = (cause \/ how = "failed")
  /\ UNCHANGED <<stalled, beat, age, held, loopVars, estop, packet, reply, wdVars, scanned>>

(* capture(): a failed native executor latches E-Stop (tripSafety).  What  *)
(* is left of the generation is forgotten.                                 *)
Capture(e) ==
  /\ held = None
  /\ run[e] \in {"ok", "failed", "stopping"}
  /\ run' \in {[run EXCEPT ![e] = after] :
                after \in IF run[e] = "ok" THEN {"gone", "restarting"} ELSE {"gone"}}
  /\ estop' = (estop \/ run[e] = "failed")
  /\ stalled' = [stalled EXCEPT ![e] = FALSE]
  /\ beat' = [beat EXCEPT ![e] = FALSE]
  /\ age' = [age EXCEPT ![e] = 0]
  /\ UNCHANGED <<held, loopVars, packet, reply, wdVars, cause, scanned>>

Stopped(e) ==
  IF Live(e) THEN "stopping" ELSE IF run[e] = "restarting" THEN "gone" ELSE run[e]

(* stop() of one node, on request. *)
Stop(e) ==
  /\ held = None /\ (Live(e) \/ run[e] = "restarting")
  /\ run' = [run EXCEPT ![e] = Stopped(e)]
  /\ UNCHANGED <<stalled, beat, age, held, loopVars, estop, packet, reply, wdVars, cause, scanned>>

(* Some other operation holds Server.mu for a while. *)
Lock ==
  /\ held = None /\ LockLimit > 0 /\ held' = 0
  /\ UNCHANGED <<execVars, loopVars, estop, packet, reply, wdVars, cause, scanned>>

Unlock ==
  /\ held # None /\ held' = None
  /\ UNCHANGED <<execVars, loopVars, estop, packet, reply, wdVars, cause, scanned>>

-----------------------------------------------------------------------------
(* safetyLoop.                                                             *)

Oldest(S) ==
  [native |-> S # {},
   age    |-> IF S = {} THEN 0 ELSE Cap(Max({age[e] : e \in S}), ProgressLimit)]

BugSnapshot == Oldest({})         \* the scan finds no node
Snapshot    == Oldest({e \in Execs : Live(e)})

(* The write or the read failed. *)
BugGiveUp == loop' = "wait" /\ UNCHANGED estop     \* it is only reported
GiveUp    == loop' = "tripped" /\ estop' = TRUE

(* TryLock: when another operation holds the lock, the last snapshot ages. *)
(* Nothing is locked from the end of the scan to the write.                *)
LoopTick ==
  /\ loop = "wait" /\ tick >= TickPeriod
  /\ loop' = "send" /\ tick' = 0
  /\ IF held = None
       THEN snap' = Snapshot /\ scanned' = {e \in Execs : Live(e)}
       ELSE UNCHANGED <<snap, scanned>>
  /\ packet' = [healthy |-> ~snap'.native \/ snap'.age < ProgressLimit, age |-> 0]
  /\ UNCHANGED <<execVars, held, wrote, estop, reply, wdVars, cause>>

LoopSend ==
  /\ loop = "send"
  /\ \/ wd = "up" /\ loop' = "sent" /\ UNCHANGED <<estop, packet>>
     \/ wd # "up" /\ GiveUp /\ packet' = None
  /\ UNCHANGED <<execVars, held, tick, snap, wrote, reply, wdVars, cause, scanned>>

LoopReply ==
  /\ loop = "sent" /\ reply # None
  /\ reply' = None
  /\ estop' = (estop \/ reply = "estop")
  /\ loop' = IF estop' THEN "tripped" ELSE "wait"
  /\ wrote' = 0
  /\ UNCHANGED <<execVars, held, tick, snap, packet, wdVars, cause, scanned>>

LoopTimeout ==
  /\ loop = "sent" /\ wrote >= ReplyLimit
  /\ GiveUp
  /\ wrote' = 0
  /\ UNCHANGED <<execVars, held, tick, snap, packet, reply, wdVars, cause, scanned>>

(* The sweep: every supervised node is told to stop. *)
LoopSweep ==
  /\ loop = "tripped" /\ held = None
  /\ run' = [e \in Execs |-> Stopped(e)]
  /\ loop' = "sweeping"
  /\ UNCHANGED <<stalled, beat, age, held, tick, snap, wrote, estop, packet, reply, wdVars, cause, scanned>>

(* The watchdog ends, and with it what it had not read. *)
Arrived == packet # None /\ loop # "send"

WatchdogGone(how) ==
  /\ wd' = how /\ packet' = IF Arrived THEN None ELSE packet
  /\ UNCHANGED <<armed, silence, lead>>

LoopKill ==
  /\ loop = "sweeping" /\ loop' = "done"
  /\ IF wd = "up" THEN WatchdogGone("dead") /\ UNCHANGED pulse
     ELSE UNCHANGED <<packet, wdVars>>
  /\ UNCHANGED <<execVars, held, tick, snap, wrote, estop, reply, cause, scanned>>

(* closeSafety closed the stop channel. *)
LoopStop ==
  /\ loop = "wait" /\ loop' = "done"
  /\ IF wd = "up" THEN WatchdogGone("dead") /\ UNCHANGED pulse
     ELSE UNCHANGED <<packet, wdVars>>
  /\ UNCHANGED <<execVars, held, tick, snap, wrote, estop, reply, cause, scanned>>

-----------------------------------------------------------------------------
(* rosplus-safety.                                                         *)

Late == armed /\ silence >= Timeout

BugFits(p) == p.age \in -Timeout .. Timeout           \* replays are accepted
Fits(p)    == -p.age > lead /\ p.age \in -Timeout .. Timeout

BugTrips(p) == ~p.healthy                   \* the deadline is checked too late
Trips(p)    == Late \/ ~p.healthy

(* event("LOW", "E_STOP"), then the process exits. *)
Trip == WatchdogGone("tripped") /\ pulse' = FALSE

WdReceive ==
  /\ wd = "up" /\ Arrived
  /\ reply' = IF Trips(packet) THEN "estop" ELSE "ok"
  /\ \/ Trips(packet) /\ Trip
     \/ /\ ~Trips(packet)
        /\ packet' = None /\ UNCHANGED wd
        /\ IF Fits(packet) THEN armed' = TRUE /\ silence' = 0 /\ lead' = -packet.age
           ELSE UNCHANGED <<armed, silence, lead>>
        /\ pulse' \in {pulse, ~pulse /\ armed'}
  /\ UNCHANGED <<execVars, held, loopVars, estop, cause, scanned>>

(* recv_from timed out. *)
WdIdle ==
  /\ wd = "up" /\ ~Arrived
  /\ IF Late THEN Trip
     ELSE armed /\ pulse' = ~pulse /\ UNCHANGED <<packet, wd, armed, silence, lead>>
  /\ UNCHANGED <<execVars, held, loopVars, estop, reply, cause, scanned>>

WdCrash ==
  /\ wd = "up"
  /\ WatchdogGone("dead") /\ UNCHANGED pulse
  /\ cause' = TRUE
  /\ UNCHANGED <<execVars, held, loopVars, estop, reply, scanned>>

-----------------------------------------------------------------------------
(* Time.  When Timely, what is due happens before time goes on: the ticker *)
(* fires, a datagram is read, a deadline is noticed, a healthy executor    *)
(* beats, a goroutine that needs Server.mu gets it once it is free.        *)
Due ==
  \/ loop = "wait" /\ tick >= TickPeriod
  \/ loop = "send"
  \/ loop = "sent" /\ (reply # None \/ wrote >= ReplyLimit)
  \/ loop = "tripped" /\ held = None
  \/ wd = "up" /\ (Arrived \/ Late)
  \/ \E e \in Execs :
       \/ held = None /\ (beat[e] \/ run[e] \in {"ok", "failed"})
       \/ run[e] = "running" /\ ~stalled[e] /\ ~beat[e] /\ age[e] >= Callback

BugAged(s) == s        \* the age is not taken again when TryLock fails
Aged(s)    == [s EXCEPT !.age = IF s.native THEN Cap(@ + 1, ProgressLimit) ELSE @]

Time ==
  /\ Timely => ~Due
  /\ held # None => held < LockLimit
  /\ held' = IF held = None THEN None ELSE held + 1
  /\ age' = [e \in Execs |-> IF Live(e) \/ run[e] = "stopping"
                            THEN Cap(age[e] + 1, Response) ELSE 0]
  /\ tick' = Cap(tick + 1, TickPeriod)
  /\ wrote' = IF loop = "sent" THEN Cap(wrote + 1, ReplyLimit) ELSE wrote
  /\ snap' = Aged(snap)
  /\ silence' = IF armed THEN Cap(silence + 1, Timeout) ELSE silence
  /\ lead' = IF lead > LeadMin THEN lead - 1 ELSE lead
  /\ packet' = IF packet = None THEN None ELSE [packet EXCEPT !.age = Cap(@ + 1, LeadMax)]
  /\ UNCHANGED <<run, stalled, beat, loop, estop, reply, wd, armed, pulse, cause, scanned>>

(* The wall clock is set; the code's durations use the monotonic one.      *)
(* Steps are bounded: none is taken once lead has saturated.               *)
ClockStep ==
  /\ armed => lead > LeadMin
  /\ \E d \in Steps :
       /\ lead - d <= LeadMax
       /\ packet # None => packet.age + d \in LeadMin .. LeadMax
       /\ lead' = IF ~armed \/ lead - d < LeadMin THEN LeadMin ELSE lead - d
       /\ packet' = IF packet = None THEN None ELSE [packet EXCEPT !.age = @ + d]
  /\ cause' = TRUE
  /\ UNCHANGED <<execVars, held, loopVars, estop, reply, wd, armed, silence, pulse, scanned>>

Executor(e) == Progress(e) \/ Capture(e)
Loop        == LoopTick \/ LoopSend \/ LoopReply \/ LoopTimeout \/ LoopSweep \/ LoopKill
Watchdog    == WdReceive \/ WdIdle

Next ==
  \/ \E e \in Execs : \/ Run(e) \/ Restart(e) \/ Beat(e) \/ Stall(e) \/ Leave(e) \/ Stop(e)
                      \/ Executor(e)
  \/ Lock \/ Unlock
  \/ Loop \/ LoopStop
  \/ Watchdog \/ WdCrash
  \/ Time \/ ClockStep

Spec == Init /\ [][Next]_vars

(***************************************************************************)
(* Time passes, the lock is released, what is due happens; an executor     *)
(* that did not stall beats; a node told to stop is killed and reaped.     *)
(* Goroutines that wait for Server.mu get it in the end (sync.Mutex is     *)
(* starvation-free); a TryLock may always come at the wrong time.          *)
(***************************************************************************)
Fairness ==
  /\ SF_vars(Time) /\ WF_vars(Unlock)
  /\ WF_vars(LoopTick) /\ WF_vars(LoopSend) /\ WF_vars(LoopReply) /\ WF_vars(LoopTimeout)
  /\ SF_vars(LoopSweep) /\ WF_vars(LoopKill)
  /\ WF_vars(WdReceive) /\ WF_vars(WdIdle)
  /\ \A e \in Execs : WF_vars(Beat(e)) /\ SF_vars(Capture(e)) /\ SF_vars(Progress(e))

FairSpec == Spec /\ Fairness

-----------------------------------------------------------------------------
(* Safety.                                                                 *)

(* main.rs: "Check the deadline before accepting a late packet: a trip is  *)
(* latched."  A silence of Timeout is never forgiven: until the watchdog   *)
(* exits nothing ends it, and no pulse is emitted in the meantime.         *)
LateIsFatal ==
  [][wd = "up" /\ Late => (Late' /\ pulse' = pulse) \/ wd' # "up"]_vars

(* The watchdog process is a dead-man switch: heartbeats late or replayed, *)
(* a clock that is set, a process that runs late or crashes never give the *)
(* relay an edge that the switch would not.                                *)
Switch == INSTANCE DeadManSwitch WITH
  line <- pulse,
  mode <- IF wd # "up" THEN "cut" ELSE IF Late THEN "missed" ELSE IF armed THEN "on" ELSE "off"

ImplementsSwitch == Switch!Spec

(* The pulses that hold the relay: one is emitted only within Timeout of a *)
(* healthy heartbeat that was fresh and newer than every one before it.    *)
PulseNeedsHeartbeat ==
  [][/\ pulse' # pulse => wd = "up" /\ (pulse' => armed' /\ silence' < Timeout)
     /\ silence' = 0 /\ silence > 0 =>
          packet # None /\ packet.healthy /\ packet.age <= Timeout /\ lead' > lead]_vars

(* safetyLoop reads the answer to the packet it sent, never an older one:  *)
(* between two ticks nothing is in flight in either direction.             *)
AnswersMatch == loop = "wait" => packet = None /\ reply = None

(* From the last recorded progress of a supervised executor to the last    *)
(* pulse: the pulses stop within Response, wherever the stall falls        *)
(* between beats, ticks and packets, unless the executor was stopped.  It  *)
(* takes a snapshot at every tick, with Server.mu free: LockLimit = 0.     *)
StallStopsPulses ==
  \A e \in Execs : run[e] = "running" /\ age[e] >= Response => wd # "up"

(* A trip has a cause: healthy executors, started, stopped and restarted   *)
(* at any moment, never make the chain latch E-Stop, with a snapshot at    *)
(* every tick (HealthConveyed shows what an old one does).                 *)
TripsHaveCause == estop \/ wd = "tripped" => cause

(* safety.go: "Reuse the last snapshot and keep aging it."  A datagram that *)
(* says healthy vouches for every executor its snapshot covers that is     *)
(* still supervised when it is written, however long other operations have *)
(* kept the lock from safetyLoop since the snapshot was taken.             *)
SnapshotConveyed ==
  [][loop = "send" /\ loop' = "sent" /\ packet.healthy =>
       \A e \in scanned : Live(e) => age[e] < ProgressLimit]_vars

(* DESIGN_DECISIONS.md: "Go requires every running native executor to have *)
(* progress newer than 40 ms and conveys that health bit to the            *)
(* independent monitor every 10 ms."  "Intentional shutdown removes the    *)
(* node from the liveness set before SIGTERM."  So a datagram that says    *)
(* healthy vouches for every executor supervised when it is written, and,  *)
(* unless there was a fault, one says unhealthy only because of such an    *)
(* executor, never of one that was told to stop.                           *)
HealthConveyed ==
  [][loop = "send" /\ loop' = "sent" =>
       IF packet.healthy THEN \A e \in Execs : Live(e) => age[e] < ProgressLimit
                         ELSE cause \/ \E e \in Execs : Live(e)]_vars

-----------------------------------------------------------------------------
(* Liveness.                                                               *)

(* A watchdog that tripped or died is noticed, by the failed write or by   *)
(* the lost reply, unless the service is shutting down.                    *)
WatchdogLossLatches == wd # "up" ~> estop \/ loop = "done"

(* A stalled executor is told to stop, or the service is shutting down,    *)
(* provided that from some time on Server.mu is not held for long: with a  *)
(* holder at every tick TryLock never succeeds and nothing is noticed.     *)
StallIsStopped ==
  <>[](held = None) =>
    \A e \in Execs : run[e] = "running" /\ stalled[e] ~> run[e] # "running" \/ loop = "done"
=============================================================================
