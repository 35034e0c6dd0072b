----------------------------- MODULE TurboProofs -----------------------------
(* Proofs about Turbo: how and when the safety monitor trips, and what the *)
(* migration tool leaves on disk.                                          *)
EXTENDS Turbo, SequenceTheorems, TLAPS

-----------------------------------------------------------------------------
(* The safety monitor.                                                     *)

Levels  == {"LOW", "HIGH"}
Reasons == {"INIT", "ARMED", "E_STOP", "DISARMED"}
Audited == \E k \in 1..Len(audit) : audit[k] = <<"LOW", "E_STOP">>

(* The log only grows, the relay goes HIGH only before there is a watch,   *)
(* and the watch has cut and recorded by the time it latches.              *)
EStopInv ==
  /\ audit \in Seq(Levels \X Reasons) /\ gpio \in Levels
  /\ main = "start" => watch = "off" /\ ~tripped
  /\ tripped \/ watch \in {"record", "latch"} => gpio = "LOW"
  /\ tripped \/ watch = "latch" => Audited

LEMMA AuditGrows ==
  ASSUME audit \in Seq(Levels \X Reasons), NEW s \in Levels, NEW r \in Reasons,
         audit' = Record(s, r)
  PROVE  /\ audit' \in Seq(Levels \X Reasons)
         /\ Audited => Audited'
         /\ s = "LOW" /\ r = "E_STOP" => Audited'
<1> DEFINE e == <<s, r>>
<1>1. audit' = Append(audit, e) /\ e \in Levels \X Reasons
  BY DEF Record
<1> HIDE DEF e
<1>2. /\ audit' \in Seq(Levels \X Reasons) /\ Len(audit') = Len(audit) + 1
      /\ audit'[Len(audit) + 1] = e
      /\ \A k \in 1..Len(audit) : audit'[k] = audit[k]
      /\ Len(audit) \in Nat
  BY <1>1, AppendProperties, LenProperties
<1>3. ASSUME Audited PROVE Audited'
  <2>1. PICK k \in 1..Len(audit) : audit[k] = <<"LOW", "E_STOP">>
    BY <1>3 DEF Audited
  <2>2. k \in 1..Len(audit') /\ audit'[k] = audit[k]
    BY <1>2
  <2> QED
    BY <2>1, <2>2 DEF Audited
<1>4. ASSUME s = "LOW", r = "E_STOP" PROVE Audited'
  BY <1>2, <1>4 DEF Audited, e
<1> QED
  BY <1>2, <1>3, <1>4

LEMMA EStopInit == Init => EStopInv
<1> SUFFICES ASSUME MonitorInit PROVE EStopInv
  BY DEF Init
<1> DEFINE e == <<"LOW", "INIT">>
<1>1. e \in Levels \X Reasons
  BY DEF Levels, Reasons
<1>2. audit = <<e>>
  BY DEF MonitorInit
<1> HIDE DEF e
<1>3. audit \in Seq(Levels \X Reasons)
  BY <1>1, <1>2
<1> QED
  BY <1>3 DEF MonitorInit, EStopInv, Levels

LEMMA EStopStep == EStopInv /\ [Next]_vars => EStopInv'
<1> SUFFICES ASSUME EStopInv, [Next]_vars PROVE EStopInv'
  OBVIOUS
<1> USE DEF Levels, Reasons, flags, threads, times
<1>1. CASE Arm
  <2>1. audit' \in Seq(Levels \X Reasons)
    BY <1>1, AuditGrows DEF Arm, EStopInv
  <2> QED
    BY <1>1, <2>1 DEF Arm, EStopInv
<1>2. CASE WatchRecord
  <2>1. audit' \in Seq(Levels \X Reasons) /\ Audited'
    BY <1>2, AuditGrows DEF WatchRecord, EStopInv
  <2> QED
    BY <1>2, <2>1 DEF WatchRecord, EStopInv
<1>3. CASE DisarmRecord
  <2>1. audit' \in Seq(Levels \X Reasons) /\ (Audited => Audited')
    BY <1>3, AuditGrows DEF DisarmRecord, EStopInv
  <2> QED
    BY <1>3, <2>1 DEF DisarmRecord, EStopInv
<1>4. CASE UNCHANGED monitorVars
  BY <1>4 DEF monitorVars, EStopInv, Audited
<1>5. CASE WatchCut \/ WatchLatch
  BY <1>5 DEF WatchCut, WatchLatch, EStopInv, Audited
<1>6. CASE BeatLoop \/ BeatStamp \/ BeatRest \/ Wake \/ WatchCheck \/ WatchCompare
  BY <1>6 DEF BeatLoop, BeatStamp, BeatRest, Wake, WatchCheck, WatchCompare, EStopInv, Audited
<1>7. CASE HeartStops \/ HeartStopped \/ Awaited \/ Joined
  BY <1>7 DEF HeartStops, HeartStopped, Awaited, Joined, EStopInv, Audited
<1>8. CASE Disarm \/ DisarmTest \/ DisarmCut
  BY <1>8 DEF Disarm, DisarmTest, DisarmCut, EStopInv, Audited
<1>9. CASE Tick
  BY <1>9 DEF Tick, EStopInv, Audited
<1> QED
  BY <1>1, <1>2, <1>3, <1>4, <1>5, <1>6, <1>7, <1>8, <1>9 DEF Next, MonitorNext, vars

(* Whoever sees estop_triggered finds the relay LOW and the record of the  *)
(* trip in the log (safety.py:57-59), for any timing of the three threads. *)
THEOREM TripIsAudited == Spec => []EStopIsAudited
<1>1. EStopInv => EStopIsAudited
  BY DEF EStopInv, EStopIsAudited, Audited
<1> QED
  BY <1>1, EStopInit, EStopStep, PTL DEF Spec

-----------------------------------------------------------------------------
(* When the monitor trips.                                                 *)

Tripping == tripped \/ watch \in {"cut", "record", "latch"}

MonitorTypes ==
  /\ command \in {"serve", "safety-demo", "migrate"}
  /\ running \in BOOLEAN /\ tripped \in BOOLEAN /\ beating \in BOOLEAN
  /\ age \in Nat /\ clock \in Nat /\ nap \in [{"beater", "watch"} -> Nat]
  /\ beater \in {"off", "loop", "stamp", "rest", "asleep", "gone"}
  /\ watch \in {"off", "check", "compare", "asleep", "cut", "record", "latch", "gone"}
  /\ main \in {"start", "beat", "silent", "await", "done"} \union Stopping

(* The program: the heart beats while main does, and the monitor runs      *)
(* until it is stopped.                                                    *)
ProgramInv ==
  /\ main = "start" => beater = "off" /\ watch = "off" /\ ~tripped
  /\ main # "start" => beater # "off" /\ watch # "off"
  /\ beating <=> main = "beat"
  /\ running <=> main \in {"beat", "silent", "await", "stop"}
  /\ beating => beater # "gone"
  /\ main \in {"await", "done"} \union Stopping => beater = "gone"
  /\ command = "migrate" => main = "start"
  /\ main = "await" => command = "safety-demo"

(* The heart: as long as it beats, the sleep that is left keeps the age    *)
(* within the timeout; only when it is gone can the switch trip, and in a  *)
(* server no time passes between its end and that of the monitor.          *)
BeatInv ==
  /\ Tripping => beater = "gone" /\ command = "safety-demo"
  /\ beater \in {"loop", "stamp"} => age <= Timeout
  /\ beater = "rest" => age = 0
  /\ beater = "asleep" => age + nap["beater"] \in 1 .. Timeout
  /\ command = "serve" /\ (running \/ watch = "compare") => age <= Timeout

(* The watch ends with the trip, or with the monitor. *)
WatchInv ==
  /\ tripped => watch = "gone"
  /\ watch = "gone" => tripped \/ ~running
  /\ watch = "asleep" => nap["watch"] <= Grace

(* safety-demo: what is left of its wait covers the rest of the timeout,   *)
(* and the sleep of the watch after it.                                    *)
DemoInv ==
  command = "safety-demo" =>
    /\ beater = "loop" => age > 0 \/ (main = "beat" /\ clock > 0)
    /\ main = "silent" /\ beater = "gone" => age > 0
    /\ main = "await" /\ ~tripped =>
         /\ clock > 0
         /\ age > Timeout \/ age + clock > Timeout + Grace
         /\ watch = "asleep" => nap["watch"] < clock
    /\ main \in Stopping \union {"done"} => tripped

LEMMA MonitorTypesStep == ASSUME MonitorTypes, [Next]_vars PROVE MonitorTypes'
<1> USE TimesAssumption DEF flags, threads, times, Stopping
<1>1. CASE Arm
  BY <1>1 DEF Arm, Record, MonitorTypes
<1>2. CASE BeatLoop
  BY <1>2 DEF BeatLoop, MonitorTypes
<1>3. CASE BeatStamp
  BY <1>3 DEF BeatStamp, MonitorTypes
<1>4. CASE BeatRest
  BY <1>4 DEF BeatRest, MonitorTypes
<1>5. CASE Wake
  BY <1>5 DEF Wake, MonitorTypes
<1>6. CASE WatchCheck
  BY <1>6 DEF WatchCheck, MonitorTypes
<1>7. CASE WatchCompare
  BY <1>7 DEF WatchCompare, MonitorTypes
<1>8. CASE WatchCut
  BY <1>8 DEF WatchCut, MonitorTypes
<1>9. CASE WatchRecord
  BY <1>9 DEF WatchRecord, MonitorTypes
<1>10. CASE WatchLatch
  BY <1>10 DEF WatchLatch, MonitorTypes
<1>11. CASE HeartStops
  BY <1>11 DEF HeartStops, MonitorTypes
<1>12. CASE HeartStopped
  BY <1>12 DEF HeartStopped, MonitorTypes
<1>13. CASE Awaited
  BY <1>13 DEF Awaited, MonitorTypes
<1>14. CASE Disarm
  BY <1>14 DEF Disarm, MonitorTypes
<1>15. CASE DisarmTest
  BY <1>15 DEF DisarmTest, MonitorTypes
<1>16. CASE DisarmCut
  BY <1>16 DEF DisarmCut, MonitorTypes
<1>17. CASE DisarmRecord
  BY <1>17 DEF DisarmRecord, Record, MonitorTypes
<1>18. CASE Joined
  BY <1>18 DEF Joined, MonitorTypes
<1>19. CASE Tick
  BY <1>19 DEF Tick, Less, MonitorTypes
<1>20. CASE UNCHANGED monitorVars
  BY <1>20 DEF monitorVars, MonitorTypes
<1> QED
  BY <1>1, <1>2, <1>3, <1>4, <1>5, <1>6, <1>7, <1>8, <1>9, <1>10, <1>11, <1>12, <1>13, <1>14,
     <1>15, <1>16, <1>17, <1>18, <1>19, <1>20 DEF Next, MonitorNext, vars

LEMMA ProgramInvStep == ASSUME MonitorTypes, ProgramInv, [Next]_vars PROVE ProgramInv'
<1> USE DEF flags, threads, times, Stopping
<1>0. command = "migrate" => UNCHANGED monitorVars
  BY DEF Next, vars
<1>1. CASE Arm
  BY <1>0, <1>1 DEF monitorVars, Arm, ProgramInv
<1>2. CASE BeatLoop
  BY <1>2 DEF BeatLoop, ProgramInv
<1>3. CASE BeatStamp
  BY <1>3 DEF BeatStamp, ProgramInv
<1>4. CASE BeatRest
  BY <1>4 DEF BeatRest, ProgramInv
<1>5. CASE Wake
  BY <1>5 DEF Wake, ProgramInv
<1>6. CASE WatchCheck
  BY <1>6 DEF WatchCheck, ProgramInv
<1>7. CASE WatchCompare
  BY <1>7 DEF WatchCompare, ProgramInv
<1>8. CASE WatchCut
  BY <1>8 DEF WatchCut, ProgramInv
<1>9. CASE WatchRecord
  BY <1>9 DEF WatchRecord, ProgramInv
<1>10. CASE WatchLatch
  BY <1>10 DEF WatchLatch, ProgramInv
<1>11. CASE HeartStops
  BY <1>11 DEF HeartStops, ProgramInv
<1>12. CASE HeartStopped
  BY <1>12 DEF HeartStopped, ProgramInv, MonitorTypes
<1>13. CASE Awaited
  BY <1>13 DEF Awaited, ProgramInv
<1>14. CASE Disarm
  BY <1>14 DEF Disarm, ProgramInv
<1>15. CASE DisarmTest
  BY <1>15 DEF DisarmTest, ProgramInv
<1>16. CASE DisarmCut
  BY <1>16 DEF DisarmCut, ProgramInv
<1>17. CASE DisarmRecord
  BY <1>17 DEF DisarmRecord, ProgramInv
<1>18. CASE Joined
  BY <1>18 DEF Joined, ProgramInv
<1>19. CASE Tick
  BY <1>19 DEF Tick, ProgramInv
<1>20. CASE UNCHANGED monitorVars
  BY <1>20 DEF monitorVars, ProgramInv
<1> QED
  BY <1>1, <1>2, <1>3, <1>4, <1>5, <1>6, <1>7, <1>8, <1>9, <1>10, <1>11, <1>12, <1>13, <1>14,
     <1>15, <1>16, <1>17, <1>18, <1>19, <1>20 DEF Next, MonitorNext, vars

LEMMA BeatInvStep ==
  ASSUME Punctual, MonitorTypes, ProgramInv, BeatInv, [Next]_vars
  PROVE  BeatInv'
<1> USE TimesAssumption DEF Punctual, flags, threads, times, Stopping
<1>1. CASE Arm
  BY <1>1 DEF Arm, BeatInv, ProgramInv, Tripping
<1>2. CASE BeatLoop
  BY <1>2 DEF BeatLoop, BeatInv, ProgramInv, Tripping
<1>3. CASE BeatStamp
  BY <1>3 DEF BeatStamp, BeatInv, Tripping
<1>4. CASE BeatRest
  BY <1>4 DEF BeatRest, BeatInv, MonitorTypes, Tripping
<1>5. CASE Wake
  BY <1>5 DEF Wake, BeatInv, MonitorTypes, Tripping
<1>6. CASE WatchCheck
  BY <1>6 DEF WatchCheck, BeatInv, Tripping
<1>7. CASE WatchCompare
  <2>1. age > Timeout => beater = "gone" /\ command = "safety-demo"
    BY <1>7 DEF WatchCompare, BeatInv, MonitorTypes, ProgramInv
  <2>2. CASE Expired
    BY <1>7, <2>1, <2>2 DEF WatchCompare, Expired, BeatInv
  <2>3. CASE ~Expired
    <3>1. nap'["beater"] = nap["beater"] /\ watch' = "asleep"
      BY <1>7, <2>3 DEF WatchCompare, MonitorTypes
    <3> QED
      BY <1>7, <3>1 DEF WatchCompare, BeatInv, Tripping
  <2> QED
    BY <2>2, <2>3
<1>8. CASE WatchCut
  BY <1>8 DEF WatchCut, BeatInv, Tripping
<1>9. CASE WatchRecord
  BY <1>9 DEF WatchRecord, BeatInv, Tripping
<1>10. CASE WatchLatch
  BY <1>10 DEF WatchLatch, BeatInv, Tripping
<1>11. CASE HeartStops
  BY <1>11 DEF HeartStops, BeatInv, Tripping
<1>12. CASE HeartStopped
  BY <1>12 DEF HeartStopped, BeatInv, Tripping
<1>13. CASE Awaited
  BY <1>13 DEF Awaited, BeatInv, ProgramInv
<1>14. CASE Disarm
  BY <1>14 DEF Disarm, BeatInv, Tripping
<1>15. CASE DisarmTest
  BY <1>15 DEF DisarmTest, BeatInv, Tripping
<1>16. CASE DisarmCut
  BY <1>16 DEF DisarmCut, BeatInv, Tripping
<1>17. CASE DisarmRecord
  BY <1>17 DEF DisarmRecord, BeatInv, Tripping
<1>18. CASE Joined
  BY <1>18 DEF Joined, BeatInv, Tripping
<1>19. CASE Tick
  BY <1>19 DEF Tick, Quiet, Less, BeatInv, MonitorTypes, ProgramInv, Tripping
<1>20. CASE UNCHANGED monitorVars
  BY <1>20 DEF monitorVars, BeatInv, Tripping
<1> QED
  BY <1>1, <1>2, <1>3, <1>4, <1>5, <1>6, <1>7, <1>8, <1>9, <1>10, <1>11, <1>12, <1>13, <1>14,
     <1>15, <1>16, <1>17, <1>18, <1>19, <1>20 DEF Next, MonitorNext, vars

LEMMA WatchInvStep ==
  ASSUME Punctual, MonitorTypes, ProgramInv, WatchInv, [Next]_vars
  PROVE  WatchInv'
<1> USE TimesAssumption DEF Punctual, flags, threads, times, Stopping
<1>1. CASE Arm
  BY <1>1 DEF Arm, WatchInv, ProgramInv
<1>2. CASE BeatLoop
  BY <1>2 DEF BeatLoop, WatchInv
<1>3. CASE BeatStamp
  BY <1>3 DEF BeatStamp, WatchInv
<1>4. CASE BeatRest
  BY <1>4 DEF BeatRest, WatchInv
<1>5. CASE Wake
  BY <1>5 DEF Wake, WatchInv
<1>6. CASE WatchCheck
  BY <1>6 DEF WatchCheck, WatchInv
<1>7. CASE WatchCompare
  BY <1>7 DEF WatchCompare, WatchInv, MonitorTypes
<1>8. CASE WatchCut
  BY <1>8 DEF WatchCut, WatchInv
<1>9. CASE WatchRecord
  BY <1>9 DEF WatchRecord, WatchInv
<1>10. CASE WatchLatch
  BY <1>10 DEF WatchLatch, WatchInv
<1>11. CASE HeartStops
  BY <1>11 DEF HeartStops, WatchInv
<1>12. CASE HeartStopped
  BY <1>12 DEF HeartStopped, WatchInv
<1>13. CASE Awaited
  BY <1>13 DEF Awaited, WatchInv
<1>14. CASE Disarm
  BY <1>14 DEF Disarm, WatchInv
<1>15. CASE DisarmTest
  BY <1>15 DEF DisarmTest, WatchInv
<1>16. CASE DisarmCut
  BY <1>16 DEF DisarmCut, WatchInv
<1>17. CASE DisarmRecord
  BY <1>17 DEF DisarmRecord, WatchInv
<1>18. CASE Joined
  BY <1>18 DEF Joined, WatchInv
<1>19. CASE Tick
  BY <1>19 DEF Tick, Less, WatchInv, MonitorTypes
<1>20. CASE UNCHANGED monitorVars
  BY <1>20 DEF monitorVars, WatchInv
<1> QED
  BY <1>1, <1>2, <1>3, <1>4, <1>5, <1>6, <1>7, <1>8, <1>9, <1>10, <1>11, <1>12, <1>13, <1>14,
     <1>15, <1>16, <1>17, <1>18, <1>19, <1>20 DEF Next, MonitorNext, vars

LEMMA DemoInvStep ==
  ASSUME Punctual, Duration > 0,
         MonitorTypes, ProgramInv, BeatInv, WatchInv, DemoInv, [Next]_vars
  PROVE  DemoInv'
<1> USE TimesAssumption DEF Punctual, flags, threads, times, Stopping
<1>1. CASE Arm
  BY <1>1 DEF Arm, DemoInv
<1>2. CASE BeatLoop
  BY <1>2 DEF BeatLoop, DemoInv
<1>3. CASE BeatStamp
  BY <1>3 DEF BeatStamp, DemoInv, ProgramInv
<1>4. CASE BeatRest
  BY <1>4 DEF BeatRest, DemoInv
<1>5. CASE Wake
  BY <1>5 DEF Wake, DemoInv, MonitorTypes, BeatInv
<1>6. CASE WatchCheck
  BY <1>6 DEF WatchCheck, DemoInv
<1>7. CASE WatchCompare
  BY <1>7 DEF WatchCompare, Expired, DemoInv, MonitorTypes
<1>8. CASE WatchCut
  BY <1>8 DEF WatchCut, DemoInv
<1>9. CASE WatchRecord
  BY <1>9 DEF WatchRecord, DemoInv
<1>10. CASE WatchLatch
  BY <1>10 DEF WatchLatch, DemoInv
<1>11. CASE HeartStops
  BY <1>11 DEF HeartStops, DemoInv, ProgramInv
<1>12. CASE HeartStopped
  BY <1>12 DEF HeartStopped, DemoInv, MonitorTypes, WatchInv
<1>13. CASE Awaited
  BY <1>13 DEF Awaited, DemoInv
<1>14. CASE Disarm
  BY <1>14 DEF Disarm, DemoInv
<1>15. CASE DisarmTest
  BY <1>15 DEF DisarmTest, DemoInv
<1>16. CASE DisarmCut
  BY <1>16 DEF DisarmCut, DemoInv
<1>17. CASE DisarmRecord
  BY <1>17 DEF DisarmRecord, DemoInv
<1>18. CASE Joined
  BY <1>18 DEF Joined, DemoInv
<1>19. CASE Tick
  BY <1>19 DEF Tick, Quiet, Less, DemoInv, MonitorTypes, ProgramInv, WatchInv
<1>20. CASE UNCHANGED monitorVars
  BY <1>20 DEF monitorVars, DemoInv
<1> QED
  BY <1>1, <1>2, <1>3, <1>4, <1>5, <1>6, <1>7, <1>8, <1>9, <1>10, <1>11, <1>12, <1>13, <1>14,
     <1>15, <1>16, <1>17, <1>18, <1>19, <1>20 DEF Next, MonitorNext, vars

MonitorInv == MonitorTypes /\ ProgramInv /\ BeatInv /\ WatchInv /\ DemoInv

(* The switch trips if, and only if, the heart has stopped: never in a     *)
(* server, and before safety-demo gives up (cli.py:34-42), for every       *)
(* timeout, period and lateness with which no sleep is too late.  The demo *)
(* has to beat for some time: with --duration 0 it may be over as the last *)
(* sleep of the watch ends.                                                *)
THEOREM TripsOnlyWhenSilent ==
  ASSUME Punctual, Duration > 0
  PROVE  Spec => []TripsWhenSilent
<1>1. Init => MonitorInv
  <2> SUFFICES ASSUME command \in {"serve", "safety-demo", "migrate"}, MonitorInit PROVE MonitorInv
    BY DEF Init
  <2> USE DEF MonitorInit, Stopping
  <2>1. MonitorTypes
    BY DEF MonitorTypes
  <2>2. ProgramInv /\ WatchInv
    BY DEF ProgramInv, WatchInv
  <2>3. BeatInv /\ DemoInv
    BY DEF BeatInv, DemoInv, Tripping
  <2> QED
    BY <2>1, <2>2, <2>3 DEF MonitorInv
<1>2. MonitorInv /\ [Next]_vars => MonitorInv'
  BY MonitorTypesStep, ProgramInvStep, BeatInvStep, WatchInvStep, DemoInvStep DEF MonitorInv
<1>3. MonitorInv => TripsWhenSilent
  BY DEF MonitorInv, ProgramInv, BeatInv, DemoInv, TripsWhenSilent, Tripping, Stopping
<1> QED
  BY <1>1, <1>2, <1>3, PTL DEF Spec

-----------------------------------------------------------------------------
(* The migration tool.                                                     *)

(* Nothing is in the tree but what a run that listed these nodes writes,   *)
(* and of that all but the files at the given paths.                       *)
Within(nodes) == written \subseteq nodes /\ scaffold \subseteq TestsOf(nodes)
Holds(paths)  == paths \subseteq written \union scaffold

Described ==
  /\ Within(report.outputs) /\ Holds(report.outputs)
  /\ scaffold = {} \/ Holds(TestsOf(report.outputs))

(* While files are written there is no report, for the output was empty    *)
(* when this run began, and what is written so far is what it has listed.  *)
ReportInv ==
  /\ dry \in BOOLEAN /\ tests \in BOOLEAN
  /\ place \in {"source", "inside", "above", "apart"}
  /\ pc \in {"check", "scan", "write", "test", "exit"}
  /\ pc \in {"scan", "write", "test"} =>
       /\ report = None /\ place = "apart" /\ Within(outputs)
       /\ ~tests => scaffold = {}
  /\ pc = "check" => outputs = {}
  /\ pc = "scan" /\ dry => written = {} /\ scaffold = {}
  /\ pc = "scan" /\ ~dry => Holds(outputs) /\ (tests => Holds(TestsOf(outputs)))
  /\ pc = "write" =>
       /\ ~dry /\ file \in outputs /\ Holds(outputs \ {file})
       /\ tests => Holds(TestsOf(outputs) \ {layout[file]})
  /\ pc = "test" =>
       /\ ~dry /\ tests /\ file \in outputs
       /\ Holds(outputs) /\ Holds(TestsOf(outputs) \ {layout[file]})
  /\ report # None => Described
  /\ written # {} \/ scaffold # {} \/ report # None => place = "apart"

LEMMA ReportInit == Init => ReportInv
  BY DEF Init, MigrationInit, Unused, ReportInv, Described, Within

(* A file is passed over, or ends the program, or is listed. *)
LEMMA ScanCases ==
  ASSUME Scan
  PROVE  \/ pc' \in {"scan", "exit"} /\ outputs' = outputs
         \/ /\ outputs' = outputs \union {file}
            /\ (dry /\ pc' = "scan") \/ (~dry /\ pc' = "write" /\ file' = file)
<1>0. PICK c \in Contents :
      CASE "symlink" \in c ->
             manual' = TRUE /\ file' = file + 1 /\ UNCHANGED <<pc, outputs, code>>
        [] "symlink" \notin c /\ "unreadable" \in c ->
             pc' = "exit" /\ code' = 1 /\ UNCHANGED <<file, outputs, manual>>
        [] c \cap {"symlink", "unreadable"} = {} /\ "syntax" \in c ->
             manual' = TRUE /\ file' = file + 1 /\ UNCHANGED <<pc, outputs, code>>
        [] c \cap {"symlink", "unreadable", "syntax"} = {} /\ ~Detected(c) ->
             file' = file + 1 /\ UNCHANGED <<pc, outputs, manual, code>>
        [] OTHER ->
             /\ outputs' = outputs \union {file}
             /\ manual' = (manual \/ Warned(c))
             /\ IF dry THEN file' = file + 1 /\ UNCHANGED pc
                ELSE pc' = "write" /\ UNCHANGED file
             /\ UNCHANGED code
  BY DEF Scan
<1>1. pc = "scan"
  BY DEF Scan
<1>2. CASE "symlink" \in c
  BY <1>0, <1>1, <1>2
<1>3. CASE "symlink" \notin c /\ "unreadable" \in c
  BY <1>0, <1>1, <1>3
<1>4. CASE c \cap {"symlink", "unreadable"} = {} /\ "syntax" \in c
  BY <1>0, <1>1, <1>4
<1>5. CASE c \cap {"symlink", "unreadable", "syntax"} = {} /\ ~Detected(c)
  BY <1>0, <1>1, <1>5
<1>6. CASE c \cap {"symlink", "unreadable", "syntax"} = {} /\ Detected(c)
  BY <1>0, <1>1, <1>6
<1> QED
  BY <1>2, <1>3, <1>4, <1>5, <1>6

LEMMA ScanStep == ASSUME ReportInv, Scan PROVE ReportInv'
<1> USE DEF ReportInv, Within, Holds, TestsOf
<1>1. pc = "scan" /\ UNCHANGED <<dry, tests, place, layout, written, scaffold, report>>
  BY DEF Scan, choices
<1>2. CASE pc' \in {"scan", "exit"} /\ outputs' = outputs
  BY <1>1, <1>2
<1>3. CASE outputs' = outputs \union {file} /\ dry /\ pc' = "scan"
  BY <1>1, <1>3
<1>4. CASE outputs' = outputs \union {file} /\ ~dry /\ pc' = "write" /\ file' = file
  BY <1>1, <1>4
<1> QED
  BY <1>2, <1>3, <1>4, ScanCases

LEMMA ReportStep == ReportInv /\ [Next]_vars => ReportInv'
<1> SUFFICES ASSUME ReportInv, [Next]_vars PROVE ReportInv'
  OBVIOUS
<1> USE DEF ReportInv, Within, Holds, TestsOf, PutNode, PutTest, choices
<1>1. CASE Check
  BY <1>1 DEF Check, Accepted, Outside, Occupied, Described
<1>2. CASE Scan
  BY <1>2, ScanStep
<1>3. CASE Write
  BY <1>3 DEF Write
<1>4. CASE WriteTest
  BY <1>4 DEF WriteTest
<1>5. CASE WriteReport
  BY <1>5 DEF WriteReport, Described
<1>6. CASE Fail
  BY <1>6 DEF Fail
<1>7. CASE Restart
  BY <1>7 DEF Restart, Described
<1>8. CASE UNCHANGED migrationVars
  BY <1>8 DEF migrationVars, Described
<1> QED
  BY <1>1, <1>2, <1>3, <1>4, <1>5, <1>6, <1>7, <1>8 DEF Next, MigrationNext, vars

(* A report on disk describes the output tree, through any failures and    *)
(* any number of starts, for sources of any size (migration.py:96-120).    *)
THEOREM ReportsAreComplete == Spec => []ReportIsComplete
<1>1. ReportInv => ReportIsComplete
  BY DEF ReportInv, ReportIsComplete, Described, Within, Holds
<1> QED
  BY <1>1, ReportInit, ReportStep, PTL DEF Spec
=============================================================================
