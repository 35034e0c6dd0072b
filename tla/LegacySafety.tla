---------------------------- MODULE LegacySafety ----------------------------
(***************************************************************************)
(* The in-process dead-man switch of the Python reference: SafetyMonitor   *)
(* and GpioSimulator (src/rosplus/safety.py), with the two programs that   *)
(* beat its heart: the loop of Application (server.py:25-37), and          *)
(* safety-demo (cli.py:34-42).                                             *)
(*                                                                         *)
(* Three threads share the flags without a lock, so each statement that    *)
(* touches them is an action.  Time is a tick of every clock; a thread     *)
(* that is not asleep acts before the next tick, and a sleep may last up   *)
(* to Late longer than it should.                                          *)
(***************************************************************************)
EXTENDS Naturals, Sequences

CONSTANTS
  Timeout,   \* SafetyMonitor.timeout.
  Period,    \* Sleep between two heartbeats.
  Poll,      \* Sleep between two checks.
  Late,      \* Bound: how much longer a sleep may last.
  Duration,  \* How long safety-demo beats.
  Grace      \* How much longer than Timeout it waits for the trip.

VARIABLES
  command,   \* "serve" or "safety-demo"
  running,   \* SafetyMonitor.running
  tripped,   \* SafetyMonitor.estop_triggered
  age,       \* now - last_heartbeat, up to Timeout + 1
  gpio,      \* GpioSimulator.state
  audit,     \* the records of its log: state and reason
  beater,    \* where the thread that calls heartbeat() is
  beating,   \* _heartbeat_running, or the demo is not over
  watch,     \* where _watch is
  main,      \* where the program is
  nap,       \* what is left of the sleep of each thread
  clock      \* what is left until the deadline of the demo

flags   == <<running, tripped, gpio, audit>>
threads == <<beater, beating, watch, main>>
times   == <<age, nap, clock>>
monitorVars == <<command, flags, threads, times>>

Record(state, reason) == Append(audit, <<state, reason>>)

MonitorInit ==
  /\ running = FALSE /\ tripped = FALSE
  /\ age = 0
  /\ gpio = "LOW" /\ audit = << <<"LOW", "INIT">> >>
  /\ beater = "off" /\ beating = FALSE /\ watch = "off" /\ main = "start"
  /\ nap = [t \in {"beater", "watch"} |-> 0]
  /\ clock = 0

(* SafetyMonitor.start(), before there is any other thread. *)
Arm ==
  /\ main = "start"
  /\ running' = TRUE /\ age' = 0
  /\ gpio' = "HIGH" /\ audit' = Record("HIGH", "ARMED")
  /\ watch' = "check" /\ beater' = "loop" /\ beating' = TRUE
  /\ main' = "beat"
  /\ clock' = Duration
  /\ UNCHANGED <<command, tripped, nap>>

-----------------------------------------------------------------------------
(* heartbeat(): the flags are tested, then the time is taken.              *)

BeatLoop ==
  /\ beater = "loop"
  /\ beater' = IF ~beating THEN "gone" ELSE IF running /\ ~tripped THEN "stamp" ELSE "rest"
  /\ UNCHANGED <<command, flags, beating, watch, main, times>>

BeatStamp ==
  /\ beater = "stamp"
  /\ age' = 0
  /\ beater' = "rest"
  /\ UNCHANGED <<command, flags, beating, watch, main, nap, clock>>

BeatRest ==
  /\ beater = "rest"
  /\ \E d \in Period..Period + Late : nap' = [nap EXCEPT !["beater"] = d]
  /\ beater' = "asleep"
  /\ UNCHANGED <<command, flags, beating, watch, main, age, clock>>

Wake ==
  /\ \/ beater = "asleep" /\ nap["beater"] = 0 /\ beater' = "loop" /\ UNCHANGED watch
     \/ watch = "asleep" /\ nap["watch"] = 0 /\ watch' = "check" /\ UNCHANGED beater
  /\ UNCHANGED <<command, flags, beating, main, times>>

-----------------------------------------------------------------------------
(* _watch(): the trip is written to the GPIO and to its log before         *)
(* estop_triggered tells anybody.                                          *)

WatchCheck ==
  /\ watch = "check"
  /\ watch' = IF running /\ ~tripped THEN "compare" ELSE "gone"
  /\ UNCHANGED <<command, flags, beater, beating, main, times>>

BugExpired == age >= Timeout                \* off by one
Expired    == age > Timeout

WatchCompare ==
  /\ watch = "compare"
  /\ IF Expired THEN watch' = "cut" /\ UNCHANGED nap
     ELSE /\ watch' = "asleep"
          /\ \E d \in Poll..Poll + Late : nap' = [nap EXCEPT !["watch"] = d]
  /\ UNCHANGED <<command, flags, beater, beating, main, age, clock>>

BugWatchCut ==                              \* the flag before the record
  /\ watch = "cut"
  /\ gpio' = "LOW" /\ tripped' = TRUE
  /\ watch' = "record"
  /\ UNCHANGED <<command, running, audit, beater, beating, main, times>>

WatchCut ==
  /\ watch = "cut"
  /\ gpio' = "LOW"
  /\ watch' = "record"
  /\ UNCHANGED <<command, running, tripped, audit, beater, beating, main, times>>

WatchRecord ==
  /\ watch = "record"
  /\ audit' = Record(gpio, "E_STOP")
  /\ watch' = "latch"
  /\ UNCHANGED <<command, running, tripped, gpio, beater, beating, main, times>>

WatchLatch ==
  /\ watch = "latch"
  /\ tripped' = TRUE
  /\ watch' = "gone"
  /\ UNCHANGED <<command, running, gpio, audit, beater, beating, main, times>>

-----------------------------------------------------------------------------
(* The program: the demo's deadline and the server's end are the moments   *)
(* when the heart stops; the monitor is stopped after that.                *)

HeartStops ==
  /\ main = "beat"
  /\ command = "safety-demo" => clock = 0
  /\ beating' = FALSE
  /\ main' = "silent"
  /\ UNCHANGED <<command, flags, beater, watch, times>>

HeartStopped ==
  /\ main = "silent" /\ beater = "gone"
  /\ IF command = "serve" THEN main' = "stop" /\ UNCHANGED clock
     ELSE main' = "await" /\ clock' = Timeout + Grace
  /\ UNCHANGED <<command, flags, beater, beating, watch, age, nap>>

Awaited ==
  /\ main = "await" /\ (tripped \/ clock = 0)
  /\ main' = "stop"
  /\ UNCHANGED <<command, flags, beater, beating, watch, times>>

(* stop(): the relay is LOW already when the switch has tripped, and then  *)
(* gpio.set() writes no record; the watch may trip between any two of its  *)
(* statements.                                                             *)
Disarm ==
  /\ main = "stop"
  /\ running' = FALSE
  /\ main' = "disarm"
  /\ UNCHANGED <<command, tripped, gpio, audit, beater, beating, watch, times>>

DisarmTest ==
  /\ main = "disarm"
  /\ main' = IF gpio # "LOW" THEN "lower" ELSE "join"
  /\ UNCHANGED <<command, flags, beater, beating, watch, times>>

DisarmCut ==
  /\ main = "lower"
  /\ gpio' = "LOW"
  /\ main' = "disarmed"
  /\ UNCHANGED <<command, running, tripped, audit, beater, beating, watch, times>>

DisarmRecord ==
  /\ main = "disarmed"
  /\ audit' = Record(gpio, "DISARMED")
  /\ main' = "join"
  /\ UNCHANGED <<command, running, tripped, gpio, beater, beating, watch, times>>

(* join(timeout=1): the watch has ended, or the second is over. *)
Joined ==
  /\ main = "join"
  /\ main' = "done"
  /\ UNCHANGED <<command, flags, beater, beating, watch, times>>

(* Nobody is late: the threads that could act sleep, or wait. *)
Quiet ==
  /\ beater \in {"gone", "asleep"} /\ watch \in {"gone", "asleep"}
  /\ \A t \in {"beater", "watch"} :
       (IF t = "beater" THEN beater ELSE watch) = "asleep" => nap[t] > 0
  /\ \/ main = "beat" /\ (command = "serve" \/ clock > 0)
     \/ main = "silent" /\ beater # "gone"
     \/ main = "await" /\ ~tripped /\ clock > 0
     \/ main = "join" /\ watch # "gone"

Less(x) == IF x = 0 THEN 0 ELSE x - 1

Tick ==
  /\ Quiet
  /\ age' = IF age > Timeout THEN age ELSE age + 1
  /\ nap' = [t \in DOMAIN nap |-> Less(nap[t])]
  /\ clock' = Less(clock)
  /\ UNCHANGED <<command, flags, threads>>

MonitorNext ==
  \/ Arm \/ BeatLoop \/ BeatStamp \/ BeatRest \/ Wake
  \/ WatchCheck \/ WatchCompare \/ WatchCut \/ WatchRecord \/ WatchLatch
  \/ HeartStops \/ HeartStopped \/ Awaited
  \/ Disarm \/ DisarmTest \/ DisarmCut \/ DisarmRecord \/ Joined \/ Tick

-----------------------------------------------------------------------------
(* Where main is in SafetyMonitor.stop(). *)
Stopping == {"stop", "disarm", "lower", "disarmed", "join"}

(* Who sees estop_triggered can rely on the relay and on its record in the *)
(* log, whatever start(), heartbeat() and stop() do meanwhile              *)
(* (safety.py:57-59).                                                      *)
EStopIsAudited ==
  tripped => (gpio = "LOW" /\ \E k \in 1..Len(audit) : audit[k] = <<"LOW", "E_STOP">>)

(* The switch trips if, and only if, the heart has stopped: never while a  *)
(* heart beats that is late by no more than Timeout - Period (Punctual in  *)
(* Turbo), never in a server, not even when it closes; and always before   *)
(* the demo gives up, which then exits with 0 (cli.py:40-42).              *)
TripsWhenSilent ==
  /\ (tripped \/ watch \in {"cut", "record", "latch"}) => command = "safety-demo" /\ ~beating
  /\ (command = "safety-demo" /\ main \in Stopping \union {"done"}) => tripped
=============================================================================
