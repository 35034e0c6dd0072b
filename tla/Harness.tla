------------------------------- MODULE Harness -------------------------------
(***************************************************************************)
(* The drivers that validate migrated nodes and measure DDS: the Python    *)
(* programs of scripts/ that start ROS processes, exchange messages with   *)
(* them, write a report and put an end to what they started; and the       *)
(* pipelines that run a driver on either side (ROS 1 and ROS 2, native and *)
(* stock) and compare the two reports.                                     *)
(*                                                                         *)
(* A driver is a straight line of steps, so it is given as a sequence, and *)
(* the actions say what a step may do.  Each line of a sequence stands for *)
(* a call of the script.  ROS itself is external: a message sent before    *)
(* the two ends have found each other is lost.                             *)
(***************************************************************************)
EXTENDS Naturals, Sequences, SequencesExt

CONSTANTS
  Tasks,     \* The tasks of this instance, a subset of AllTasks.
  MaxSent,   \* Bound: messages a source sends.
  Nothing

AllTasks == {"timer", "callback", "service", "custom", "cpp", "action", "tf",
             "bag", "capture", "dds", "check"}

ASSUME TasksAssumption == Tasks \subseteq AllTasks
ASSUME MaxSentAssumption == MaxSent \in Nat
ASSUME NothingAssumption == Nothing \notin Seq(Nat) /\ Nothing # "passed"

Roles == {"master", "node", "recorder", "player", "load", "sub", "pub"}

VARIABLES
  task,      \* what is being validated
  side,      \* 1: ROS 1 or native; 2: ROS 2 or stock rclpy
  step,      \* the step of the driver
  phase,     \* its body, the finally clause, its end, the end of all
  raised,    \* it ends with an exception
  proc,      \* the processes it starts
  listed,    \* its list of processes
  left,      \* finally: those still to be waited for
  link,      \* which ends have found each other
  sent,      \* messages the source has sent
  inbox,     \* on their way to the node
  outbox,    \* on their way to whoever collects the outputs
  got,       \* what was collected
  result,    \* the reports on disk
  verdict    \* of the comparison

driverVars == <<task, side, step, phase, raised, listed, left>>
msgVars    == <<link, sent, inbox, outbox, got>>
harnessVars == <<driverVars, proc, msgVars, result, verdict>>

-----------------------------------------------------------------------------
(* Steps.                                                                  *)

Start(p, L)  == [do |-> "start", who |-> p, list |-> L]   \* Popen, then the list
Step(d)      == [do |-> d, who |-> "node", n |-> 0]
Await(n)     == [do |-> "await", who |-> "node", n |-> n] \* n outputs or a deadline
Link(ends)   == [do |-> "link", who |-> "node", ends |-> ends]
Exited(p)    == [do |-> "exited", who |-> p]              \* wait(timeout), returncode
Stop(p)      == [do |-> "stop", who |-> p]                \* terminate(p), in the body

(* Publish one input and await its output, for each input. *)
Exchange(n) == [k \in 1..2*n |-> IF k % 2 = 1 THEN Step("publish") ELSE Await(k \div 2)]

(* How many outputs a driver wants.  Those of a capture (10) and of a      *)
(* benchmark (10000, --messages) are 2 here, its load one worker.          *)
Outputs(t) == CASE t = "timer" -> 5 [] t \in {"callback", "bag"} -> 3
                [] t \in {"cpp", "dds", "capture"} -> 2 [] OTHER -> 1

RosCore == <<Start("master", <<"master">>), Step("ready"), Step("init")>>
Node    == Start("node", <<"node">>)

ScenarioRos1(t) ==
  RosCore \o (CASE t = "timer"    -> <<Node, Await(5)>>
                [] t = "callback" -> <<Node, Link({"in", "out"})>> \o Exchange(3)
                [] t = "service"  -> <<Node, Step("find"), Step("call")>>)

ScenarioRos2(t) ==
  CASE t = "timer"    -> <<Node, Await(5)>>
    [] t = "callback" -> <<Node, Link({"in"})>> \o Exchange(3)
    [] t = "service"  -> <<Node, Step("find"), Step("ask")>>

StartRos1 == RosCore \o <<Node>>

PubSubRos1(t) == <<Link({"in", "out"})>> \o Exchange(Outputs(t))
PubSubRos2(t) == <<Link({"in"})>> \o Exchange(Outputs(t))

ActionRos1 == <<Step("find"), Step("ask")>>
ActionRos2 == <<Step("find"), Step("accept"), Step("ask")>>

TfRos1 == <<Await(1)>>
TfRos2 == <<Await(1)>>

CompatibilityMain(t, s) ==
  IF s = 1
    THEN StartRos1 \o CASE t \in {"custom", "cpp"} -> PubSubRos1(t)
                        [] t = "action" -> ActionRos1
                        [] t = "tf"     -> TfRos1
    ELSE <<Node>> \o CASE t \in {"custom", "cpp"} -> PubSubRos2(t)
                       [] t = "action" -> ActionRos2
                       [] t = "tf"     -> TfRos2

(* The node is not on the list before the recorder has been started. *)
BagReplay ==
  <<Start("node", <<>>), Start("recorder", <<"node", "recorder">>),
    Start("player", <<"player">>), Exited("player"), Stop("recorder"), Step("read")>>
BagRos1 == RosCore \o <<Step("prepare")>> \o BagReplay
BagRos2 == <<Step("prepare")>> \o BagReplay

(* capture_migration goes on without a master after a hundred attempts. *)
CaptureMain(s) ==
  (IF s = 1 THEN <<Start("master", <<"master">>), Step("try"), Step("init")>> ELSE <<>>)
    \o <<Node, Await(Outputs("capture"))>>

(* The load and the temporary directory come before the try statement. *)
DdsMain ==
  <<Start("load", <<"load">>), Step("prepare"),
    Start("sub", <<"sub">>), Start("pub", <<"pub">>),
    Exited("sub"), Exited("pub"), Step("read"), Exited("load")>>
Unguarded(t, k) == t = "dds" /\ k <= 2

CheckMain == <<Start("sub", <<"sub">>), Start("pub", <<"pub">>), Await(1)>>

Consecutive(g) == \A k \in 1..Len(g) : g[k] = g[1] + k - 1
Expected(t)    == [k \in 1..Outputs(t) |-> k]

(* Every driver ends with its report. *)
Plan(t, s) ==
  (CASE t \in {"timer", "callback", "service"} -> IF s = 1 THEN ScenarioRos1(t) ELSE ScenarioRos2(t)
     [] t \in {"custom", "cpp", "action", "tf"} -> CompatibilityMain(t, s)
     [] t = "bag"     -> IF s = 1 THEN BagRos1 ELSE BagRos2
     [] t = "capture" -> CaptureMain(s)
     [] t = "dds"     -> DdsMain
     [] t = "check"   -> CheckMain)
  \o <<Step("report")>>

(* The finally clauses: validate_recorded_bag, benchmark_dds and check_ros2 *)
(* wait in the order of the list, the others in the reverse order.         *)
Cleanup(t) == IF t \in {"bag", "dds", "check"} THEN listed ELSE Reverse(listed)

Now       == Plan(task, side)[step]
Alive(p)  == proc[p] = "alive"
Ended(p)  == proc[p] \in {"ok", "failed"}

(* The processes whose exit a waiting driver notices. *)
Watched(t) == CASE t = "check" -> {"sub", "pub"} [] Now.do = "ready" -> {"master"} [] OTHER -> {"node"}

HarnessInit ==
  /\ task \in Tasks /\ side = 1
  /\ step = 1 /\ phase = "body" /\ raised = FALSE
  /\ proc = [p \in Roles |-> "none"]
  /\ listed = <<>> /\ left = <<>>
  /\ link = {} /\ sent = 0 /\ inbox = <<>> /\ outbox = <<>> /\ got = <<>>
  /\ result = [s \in 1..2 |-> Nothing]
  /\ verdict = Nothing

(* The driver.                                                             *)

In(steps) == phase = "body" /\ Now.do \in steps

Go == step' = step + 1 /\ UNCHANGED <<task, side, phase, raised, listed, left>>

(* An exception: the finally clause, unless the try is still to come. *)
Raise ==
  /\ phase' = IF Unguarded(task, step) THEN "end" ELSE "term"
  /\ raised' = TRUE
  /\ UNCHANGED <<task, side, step, listed, left, proc, msgVars, result, verdict>>

Spawn ==
  /\ In({"start"})
  /\ proc' = [proc EXCEPT ![Now.who] = "alive"]
  /\ listed' = listed \o Now.list
  /\ step' = step + 1
  /\ UNCHANGED <<task, side, phase, raised, left, msgVars, result, verdict>>

(* What a step waits for; "try" goes on without it. *)
Reached ==
  CASE Now.do = "link"   -> Now.ends \subseteq link
    [] Now.do = "await"  -> Len(got) >= Now.n
    [] Now.do = "exited" -> proc[Now.who] = "ok"
    [] Now.do = "init"   -> Alive("master")
    [] Now.do \in {"find", "accept"} -> Alive("node")
    [] OTHER -> TRUE

WaitUntil ==
  /\ In({"ready", "try", "init", "link", "await", "find", "accept", "exited", "prepare", "read"})
  /\ Reached
  /\ Go
  /\ UNCHANGED <<proc, msgVars, result, verdict>>

(* The answer of a service or an action: "ask" has a limit, "call" none. *)
Call ==
  /\ In({"call", "ask"}) /\ Alive("node")
  /\ got' = Append(got, 1)
  /\ Go
  /\ UNCHANGED <<proc, link, sent, inbox, outbox, result, verdict>>

Publish ==
  /\ In({"publish"})
  /\ sent' = sent + 1
  /\ inbox' = IF "in" \in link /\ Alive("node") THEN Append(inbox, sent + 1) ELSE inbox
  /\ Go
  /\ UNCHANGED <<proc, link, outbox, got, result, verdict>>

(* terminate(recorder): SIGINT, and SIGKILL after five seconds. *)
StopRecorder ==
  /\ In({"stop"})
  /\ proc' = [proc EXCEPT ![Now.who] = IF Ended(Now.who) THEN @ ELSE "failed"]
  /\ Go
  /\ UNCHANGED <<msgVars, result, verdict>>

(* A deadline that passes, a Popen or a file that fails. *)
BugFallible ==                              \* while len(outputs) < index: no deadline
  {"start", "ready", "link", "find", "accept", "ask", "exited", "prepare", "read", "report"}

Fallible ==
  {"start", "ready", "link", "await", "find", "accept", "ask", "exited", "prepare", "read", "report"}

BugDeadline ==                              \* no test after the loop
  IF In({"await"}) THEN Go /\ UNCHANGED <<proc, msgVars, result, verdict>>
  ELSE In(Fallible) /\ Raise
Deadline == In(Fallible) /\ Raise

ChildExit ==
  /\ In({"ready", "link", "await", "call"})
  /\ \E p \in Watched(task) : Ended(p)
  /\ Raise

(* Ctrl-C reaches the driver, and only it, while it waits. *)
Interrupt ==
  /\ In({"ready", "try", "init", "link", "await", "find", "call", "ask", "exited"})
  /\ Raise

(* outputs[:n] *)
FirstOf(s, n) == SubSeq(s, 1, IF n < Len(s) THEN n ELSE Len(s))

(* A bag whose outputs are not the expected ones is reported all the same. *)
Report ==
  /\ In({"report"})
  /\ LET seen == CASE task \in {"timer", "callback", "capture"} -> FirstOf(got, Outputs(task))
                  [] task = "tf" -> <<1>>          \* a transform, not how often it came
                  [] OTHER -> got IN
       /\ result' = [result EXCEPT ![side] = seen]
       /\ raised' = (task = "bag" /\ seen # Expected(task))
  /\ phase' = "term"
  /\ UNCHANGED <<task, side, step, listed, left, proc, msgVars, verdict>>

(* finally: SIGTERM to all, which each may heed or not, then the waits. *)
SigTerm ==
  /\ phase = "term"
  /\ phase' = "wait"
  /\ left' = Cleanup(task)
  /\ UNCHANGED <<task, side, step, raised, listed, proc, msgVars, result, verdict>>

BugWaited == phase = "wait" /\ left # <<>> /\ proc[Head(left)] # "killed"  \* TimeoutExpired is passed over
Waited    == phase = "wait" /\ left # <<>> /\ Ended(Head(left))

WaitNext ==
  /\ Waited
  /\ left' = Tail(left)
  /\ UNCHANGED <<task, side, step, phase, raised, listed, proc, msgVars, result, verdict>>

KillLate ==
  /\ phase = "wait" /\ left # <<>> /\ Alive(Head(left))
  /\ proc' = [proc EXCEPT ![Head(left)] = "killed"]
  /\ UNCHANGED <<driverVars, msgVars, result, verdict>>

Finish ==
  /\ phase = "wait" /\ left = <<>>
  /\ phase' = "end"
  /\ UNCHANGED <<task, side, step, raised, listed, left, proc, msgVars, result, verdict>>

-----------------------------------------------------------------------------
(* The pipelines: the other side, then the comparison.  The first driver   *)
(* that fails ends it; Python waits for the children of multiprocessing.   *)

Abort ==
  /\ phase = "end" /\ (raised \/ task = "check") /\ ~Alive("load")
  /\ phase' = "done"
  /\ UNCHANGED <<task, side, step, raised, listed, left, proc, msgVars, result, verdict>>

OtherSide ==
  /\ phase = "end" /\ ~raised /\ side = 1 /\ task # "check"
  /\ side' = 2
  /\ step' = 1 /\ phase' = "body" /\ raised' = FALSE
  /\ proc' = [p \in Roles |-> "none"]
  /\ listed' = <<>> /\ left' = <<>>
  /\ link' = {} /\ sent' = 0 /\ inbox' = <<>> /\ outbox' = <<>> /\ got' = <<>>
  /\ UNCHANGED <<task, result, verdict>>

TimerBehaviorMatches(a, b) == Consecutive(a) /\ Consecutive(b) /\ Len(a) = 5 /\ Len(b) = 5

ValidationMatches(t) ==
  IF t = "timer" THEN TimerBehaviorMatches(result[1], result[2]) ELSE result[1] = result[2]

(* An action must have shown feedback, and the migration tool must have    *)
(* classified the sources as the corpus expects.                           *)
CompatibilityMatches(checks) == result[1] = result[2] /\ checks

(* benchmark_compare puts the two reports side by side. *)
Compare ==
  /\ phase = "end" /\ ~raised /\ side = 2
  /\ phase' = "done"
  /\ \E checks \in BOOLEAN :
       verdict' = CASE task \in {"timer", "callback", "service"} ->
                         IF ValidationMatches(task) THEN "passed" ELSE "failed"
                    [] task \in {"bag", "custom", "cpp", "action", "tf"} ->
                         IF CompatibilityMatches(checks) THEN "passed" ELSE "failed"
                    [] OTHER -> "passed"
  /\ UNCHANGED <<task, side, step, raised, listed, left, proc, msgVars, result>>

-----------------------------------------------------------------------------
(* Processes and messages, external.  What is sent in an order arrives in  *)
(* that order; a stream that outruns its history loses messages.           *)

Source(t) == CASE t = "bag" -> "player" [] t \in {"dds", "check"} -> "pub"
               [] t \in {"timer", "tf", "capture"} -> "node" [] OTHER -> Nothing
Limit(t)  == IF t \in {"bag", "dds"} THEN Outputs(t) ELSE MaxSent

(* rosbag play has played everything; the stock endpoints exit with an     *)
(* error unless they processed every message (stock_benchmark.py:58).      *)
Completed(p) ==
  CASE p \in {"player", "pub"} -> sent = Limit(task)
    [] p = "sub"  -> task = "dds" /\ got = Expected(task)
    [] p = "load" -> phase \in {"term", "wait"} \/ (In({"exited"}) /\ Now.who = "load")
    [] OTHER -> FALSE

Exit(p) ==
  /\ Alive(p)
  /\ \E code \in {"failed"} \union (IF Completed(p) THEN {"ok"} ELSE {}) :
       proc' = [proc EXCEPT ![p] = code]
  /\ UNCHANGED <<driverVars, msgVars, result, verdict>>

Dies(p) ==
  /\ proc[p] = "killed"
  /\ proc' = [proc EXCEPT ![p] = "failed"]
  /\ UNCHANGED <<driverVars, msgVars, result, verdict>>

Others == UNCHANGED <<driverVars, proc, result, verdict>>

Discover ==
  /\ phase = "body"
  /\ \E e \in {"in", "out"} \ link :
       /\ IF task \in {"dds", "check"} THEN Alive("sub") /\ Alive("pub") ELSE Alive("node")
       /\ task = "bag" => Alive(IF e = "in" THEN "player" ELSE "recorder")
       /\ link' = link \union {e}
  /\ UNCHANGED <<sent, inbox, outbox, got>> /\ Others

Delivered(box, m) == IF "out" \in link THEN Append(box, m) ELSE box

Emit ==
  /\ phase = "body" /\ Source(task) # Nothing /\ Alive(Source(task)) /\ sent < Limit(task)
  /\ sent' = sent + 1
  /\ IF task = "bag"
       THEN /\ inbox' = IF "in" \in link /\ Alive("node") THEN Append(inbox, sent + 1) ELSE inbox
            /\ UNCHANGED outbox
       ELSE outbox' = Delivered(outbox, sent + 1) /\ UNCHANGED inbox
  /\ UNCHANGED <<link, got>> /\ Others

Forward ==
  /\ phase = "body" /\ inbox # <<>> /\ Alive("node")
  /\ inbox' = Tail(inbox)
  /\ outbox' = Delivered(outbox, Head(inbox))
  /\ UNCHANGED <<link, sent, got>> /\ Others

Lose ==
  /\ phase = "body" /\ outbox # <<>> /\ task \in {"timer", "capture", "dds"}
  /\ outbox' = Tail(outbox)
  /\ UNCHANGED <<link, sent, inbox, got>> /\ Others

Collect ==
  /\ phase = "body" /\ outbox # <<>>
  /\ task = "bag" => Alive("recorder")
  /\ task \in {"dds", "check"} => Alive("sub")
  /\ outbox' = Tail(outbox)
  /\ got' = Append(got, Head(outbox))
  /\ UNCHANGED <<link, sent, inbox>> /\ Others

-----------------------------------------------------------------------------
Driver ==
  \/ Spawn \/ WaitUntil \/ Call \/ Publish \/ StopRecorder \/ Report
  \/ Deadline \/ ChildExit
  \/ SigTerm \/ WaitNext \/ KillLate \/ Finish
  \/ Abort \/ OtherSide \/ Compare

External ==
  \/ \E p \in Roles : Exit(p) \/ Dies(p)
  \/ Discover \/ Emit \/ Forward \/ Lose \/ Collect

HarnessNext == Driver \/ Interrupt \/ External

HarnessSpec == HarnessInit /\ [][HarnessNext]_harnessVars

(* A call that has no limit of its own: the service of ROS 1, getPid of a  *)
(* master that has yet to answer (a deadline passes only between two of    *)
(* those), and rospy.init_node while there is no master.                   *)
Unlimited ==
  \/ In({"call"}) /\ Alive("node")
  \/ In({"ready", "try"}) /\ Alive("master")
  \/ In({"init"}) /\ ~Alive("master")

(* The driver runs, its deadlines pass and a killed process dies; nobody   *)
(* promises an interrupt, nor that a call without a limit ever returns.    *)
Patient == ~Unlimited
Fairness ==
  /\ WF_harnessVars(Patient /\ Driver) /\ WF_harnessVars(ChildExit)
  /\ \A p \in Roles : WF_harnessVars(Dies(p))

-----------------------------------------------------------------------------
(* When a driver has ended no process it started is left, whatever failed  *)
(* and wherever it did.  Two windows are open: the node of a bag is on the *)
(* list only when the recorder has been started too                        *)
(* (validate_recorded_bag.py:60-62), and the load of benchmark_dds is      *)
(* started before the try (benchmark_dds.py:37-40).                        *)
NoSurvivors ==
  phase \in {"end", "done"} => \A p \in Roles : proc[p] \in {"alive", "killed"} =>
    \/ task = "bag" /\ p = "node" /\ proc["recorder"] = "none"
    \/ p = "load" /\ proc["sub"] = "none"

(* A comparison passes only on two reports that are complete: lost and     *)
(* late messages, nodes that exit, a discovery that is only half done make *)
(* a driver fail, never report a short behaviour that equals another short *)
(* one (compare_migration_validation.py:13, benchmark_dds.py:56).          *)
EquivalenceIsEarned ==
  verdict = "passed" => \A s \in 1..2 :
    /\ result[s] # Nothing /\ Len(result[s]) = Outputs(task)
    /\ task \in {"timer", "callback", "custom", "cpp", "bag", "dds"} => Consecutive(result[s])
    /\ task \in {"callback", "custom", "cpp", "bag", "dds"} => result[s] = Expected(task)

(* Every driver comes to an end, with all its deadlines, or it stays for   *)
(* ever in a call that has none (validate_migration_scenario.py:54,63,92,  *)
(* capture_migration.py:31,36), or in the exit of a benchmark that failed  *)
(* before its try, which waits for the load.                               *)
Stuck == Unlimited \/ (phase = "end" /\ raised /\ Alive("load"))

HarnessEnds == <>(phase = "done") \/ <>[]Stuck
=============================================================================
