---------------------------- MODULE HarnessProofs ----------------------------
(***************************************************************************)
(* Proofs about Harness: whatever fails, and wherever it does, a driver    *)
(* leaves no process behind but in its two windows; and a comparison that  *)
(* passes compared two complete reports.                                   *)
(*                                                                         *)
(* What the driver programs have in common is stated once, as Sound, and   *)
(* holds of each of them; the proofs that follow know nothing else of the  *)
(* programs, but that of the benchmark, which has facts of its own.        *)
(***************************************************************************)
EXTENDS Harness, TLAPS

-----------------------------------------------------------------------------
(* The programs of the drivers.                                            *)

LEMMA Wanted ==
  /\ Outputs("timer") = 5 /\ Outputs("callback") = 3 /\ Outputs("bag") = 3
  /\ Outputs("cpp") = 2 /\ Outputs("dds") = 2 /\ Outputs("capture") = 2
  /\ Outputs("service") = 1 /\ Outputs("custom") = 1 /\ Outputs("action") = 1
  /\ Outputs("tf") = 1 /\ Outputs("check") = 1
BY DEF Outputs

(* The tasks in which the driver sends inputs and waits for the outputs. *)
Replying == {"callback", "custom", "cpp"}

Starts(P, k, p) == P[k].do = "start" /\ P[k].who = p

(* The steps before k start p. *)
Started(P, k, p) == \E j \in 1..k-1 : Starts(P, j, p)

(* The report is the last step, and no other step is. *)
Reports(P) ==
  /\ Len(P) \in Nat /\ Len(P) >= 2
  /\ \A k \in 1..Len(P) : P[k].do = "report" <=> k = Len(P)

(* A process is listed when it is started, but for the node of a bag, which *)
(* is listed with its recorder.                                            *)
Lists(t, P) ==
  \A k \in 1..Len(P) :
    /\ P[k].do = "start" =>
         \/ \E p \in Roles \ {"recorder"} : P[k].who = p /\ P[k].list = <<p>>
         \/ t = "bag" /\ P[k].who = "node" /\ P[k].list = <<>> /\ ~Started(P, k, "recorder")
         \/ P[k].who = "recorder" /\ P[k].list = <<"node", "recorder">>
    /\ P[k].do = "stop" => P[k].who = "recorder" /\ Started(P, k, "recorder")

(* What comes before the report: the answer of a call, or the wait for all *)
(* the outputs.                                                            *)
Answers(t, P) ==
  /\ \A k \in 1..Len(P) :
       P[k].do \in {"call", "ask"} => t \in {"service", "action"} /\ k = Len(P) - 1
  /\ t \in {"service", "action"} => P[Len(P) - 1].do \in {"call", "ask"}
  /\ t \in Replying \union {"timer", "capture"} =>
       P[Len(P) - 1].do = "await" /\ P[Len(P) - 1].n = Outputs(t)

(* There are no more inputs than outputs, each before a wait of its own. *)
Publishes(t, P) ==
  \A k \in 1..Len(P) : P[k].do = "publish" =>
    t \in Replying /\ \E j \in 1..Outputs(t) : k = Len(P) - 2 * j

(* The benchmark: the load first, the reader third and once. *)
Benches(t, P) ==
  t = "dds" =>
    /\ Len(P) = 9 /\ P[5].do = "exited" /\ P[5].who = "sub"
    /\ \A k \in 1..9 : P[k].do = "start" =>
         (k = 1 /\ P[k].who = "load") \/ (k = 3 /\ P[k].who = "sub") \/ (k = 4 /\ P[k].who = "pub")
    /\ \A k \in 1..9 : P[k].do # "stop"

Sound(t, P) ==
  /\ Reports(P) /\ Lists(t, P) /\ Answers(t, P) /\ Publishes(t, P) /\ Benches(t, P)

LEMMA Timer1 ==
  ASSUME NEW P, P = (RosCore \o <<Node, Await(5)>>) \o <<Step("report")>>
  PROVE  Sound("timer", P)
BY Wanted
DEF Sound, Reports, Lists, Answers, Publishes, Benches, Replying, Starts, Started, Roles,
    Step, Start, RosCore, Node, Await

LEMMA Timer2 ==
  ASSUME NEW P, P = <<Node, Await(5)>> \o <<Step("report")>>
  PROVE  Sound("timer", P)
BY Wanted
DEF Sound, Reports, Lists, Answers, Publishes, Benches, Replying, Starts, Started, Roles,
    Step, Start, Node, Await

LEMMA Callback1 ==
  ASSUME NEW P, P = (RosCore \o (<<Node, Link({"in", "out"})>> \o Exchange(3)))
                      \o <<Step("report")>>
  PROVE  Sound("callback", P)
BY Wanted
DEF Sound, Reports, Lists, Answers, Publishes, Benches, Replying, Starts, Started, Roles,
    Step, Start, RosCore, Node, Await, Link, Exchange

LEMMA Callback2 ==
  ASSUME NEW P, P = (<<Node, Link({"in"})>> \o Exchange(3)) \o <<Step("report")>>
  PROVE  Sound("callback", P)
BY Wanted
DEF Sound, Reports, Lists, Answers, Publishes, Benches, Replying, Starts, Started, Roles,
    Step, Start, Node, Await, Link, Exchange

LEMMA Service1 ==
  ASSUME NEW P, P = (RosCore \o <<Node, Step("find"), Step("call")>>) \o <<Step("report")>>
  PROVE  Sound("service", P)
BY Wanted
DEF Sound, Reports, Lists, Answers, Publishes, Benches, Replying, Starts, Started, Roles,
    Step, Start, RosCore, Node

LEMMA Service2 ==
  ASSUME NEW P, P = <<Node, Step("find"), Step("ask")>> \o <<Step("report")>>
  PROVE  Sound("service", P)
BY Wanted
DEF Sound, Reports, Lists, Answers, Publishes, Benches, Replying, Starts, Started, Roles,
    Step, Start, Node

LEMMA Tf1 ==
  ASSUME NEW P, P = ((RosCore \o <<Node>>) \o TfRos1) \o <<Step("report")>>
  PROVE  Sound("tf", P)
BY Wanted
DEF Sound, Reports, Lists, Answers, Publishes, Benches, Replying, Starts, Started, Roles,
    Step, Start, RosCore, Node, TfRos1, Await

LEMMA Tf2 ==
  ASSUME NEW P, P = (<<Node>> \o TfRos2) \o <<Step("report")>>
  PROVE  Sound("tf", P)
BY Wanted
DEF Sound, Reports, Lists, Answers, Publishes, Benches, Replying, Starts, Started, Roles,
    Step, Start, Node, TfRos2, Await

LEMMA Action1 ==
  ASSUME NEW P, P = ((RosCore \o <<Node>>) \o ActionRos1) \o <<Step("report")>>
  PROVE  Sound("action", P)
BY Wanted
DEF Sound, Reports, Lists, Answers, Publishes, Benches, Replying, Starts, Started, Roles,
    Step, Start, RosCore, Node, ActionRos1

LEMMA Action2 ==
  ASSUME NEW P, P = (<<Node>> \o ActionRos2) \o <<Step("report")>>
  PROVE  Sound("action", P)
BY Wanted
DEF Sound, Reports, Lists, Answers, Publishes, Benches, Replying, Starts, Started, Roles,
    Step, Start, Node, ActionRos2

LEMMA Check1 ==
  ASSUME NEW P, P = CheckMain \o <<Step("report")>>
  PROVE  Sound("check", P)
BY Wanted
DEF Sound, Reports, Lists, Answers, Publishes, Benches, Replying, Starts, Started, Roles,
    Step, Start, CheckMain, Await

LEMMA Capture1 ==
  ASSUME NEW P, P = (<<Start("master", <<"master">>), Step("try"), Step("init")>>
                      \o <<Node, Await(2)>>)
                      \o <<Step("report")>>
  PROVE  Sound("capture", P)
BY Wanted
DEF Sound, Reports, Lists, Answers, Publishes, Benches, Replying, Starts, Started, Roles,
    Step, Start, Node, Await

LEMMA Capture2 ==
  ASSUME NEW P, P = <<Node, Await(2)>> \o <<Step("report")>>
  PROVE  Sound("capture", P)
BY Wanted
DEF Sound, Reports, Lists, Answers, Publishes, Benches, Replying, Starts, Started, Roles,
    Step, Start, Node, Await

LEMMA Custom1 ==
  ASSUME NEW P, P = ((RosCore \o <<Node>>) \o (<<Link({"in", "out"})>> \o Exchange(1)))
                      \o <<Step("report")>>
  PROVE  Sound("custom", P)
BY Wanted
DEF Sound, Reports, Lists, Answers, Publishes, Benches, Replying, Starts, Started, Roles,
    Step, Start, RosCore, Node, Await, Link, Exchange

LEMMA Custom2 ==
  ASSUME NEW P, P = (<<Node>> \o (<<Link({"in"})>> \o Exchange(1))) \o <<Step("report")>>
  PROVE  Sound("custom", P)
BY Wanted
DEF Sound, Reports, Lists, Answers, Publishes, Benches, Replying, Starts, Started, Roles,
    Step, Start, Node, Await, Link, Exchange

LEMMA Cpp1 ==
  ASSUME NEW P, P = ((RosCore \o <<Node>>) \o (<<Link({"in", "out"})>> \o Exchange(2)))
                      \o <<Step("report")>>
  PROVE  Sound("cpp", P)
BY Wanted
DEF Sound, Reports, Lists, Answers, Publishes, Benches, Replying, Starts, Started, Roles,
    Step, Start, RosCore, Node, Await, Link, Exchange

LEMMA Cpp2 ==
  ASSUME NEW P, P = (<<Node>> \o (<<Link({"in"})>> \o Exchange(2))) \o <<Step("report")>>
  PROVE  Sound("cpp", P)
BY Wanted
DEF Sound, Reports, Lists, Answers, Publishes, Benches, Replying, Starts, Started, Roles,
    Step, Start, Node, Await, Link, Exchange

LEMMA Bag1Steps ==
  ASSUME NEW P, P = BagRos1 \o <<Step("report")>>
  PROVE  /\ Len(P) = 11 /\ P[1] = Start("master", <<"master">>) /\ P[2] = Step("ready")
         /\ P[3] = Step("init") /\ P[4] = Step("prepare") /\ P[5] = Start("node", <<>>)
         /\ P[6] = Start("recorder", <<"node", "recorder">>)
         /\ P[7] = Start("player", <<"player">>) /\ P[8] = Exited("player")
         /\ P[9] = Stop("recorder") /\ P[10] = Step("read") /\ P[11] = Step("report")
BY DEF RosCore, BagRos1, BagReplay

LEMMA Bag1 ==
  ASSUME NEW P,
         /\ Len(P) = 11 /\ P[1] = Start("master", <<"master">>) /\ P[2] = Step("ready")
         /\ P[3] = Step("init") /\ P[4] = Step("prepare") /\ P[5] = Start("node", <<>>)
         /\ P[6] = Start("recorder", <<"node", "recorder">>)
         /\ P[7] = Start("player", <<"player">>) /\ P[8] = Exited("player")
         /\ P[9] = Stop("recorder") /\ P[10] = Step("read") /\ P[11] = Step("report")
  PROVE  Sound("bag", P)
<1> USE DEF Step, Start, Exited, Stop
<1>1. Reports(P)
  BY DEF Reports
<1>2. Lists("bag", P)
  BY DEF Lists, Started, Starts, Roles
<1>3. Answers("bag", P)
  BY DEF Answers, Replying
<1>4. Publishes("bag", P) /\ Benches("bag", P)
  BY DEF Publishes, Benches
<1> QED
  BY <1>1, <1>2, <1>3, <1>4 DEF Sound

LEMMA Bag2Steps ==
  ASSUME NEW P, P = BagRos2 \o <<Step("report")>>
  PROVE  /\ Len(P) = 8 /\ P[1] = Step("prepare") /\ P[2] = Start("node", <<>>)
         /\ P[3] = Start("recorder", <<"node", "recorder">>)
         /\ P[4] = Start("player", <<"player">>) /\ P[5] = Exited("player")
         /\ P[6] = Stop("recorder") /\ P[7] = Step("read") /\ P[8] = Step("report")
BY DEF BagRos2, BagReplay

LEMMA Bag2 ==
  ASSUME NEW P,
         /\ Len(P) = 8 /\ P[1] = Step("prepare") /\ P[2] = Start("node", <<>>)
         /\ P[3] = Start("recorder", <<"node", "recorder">>)
         /\ P[4] = Start("player", <<"player">>) /\ P[5] = Exited("player")
         /\ P[6] = Stop("recorder") /\ P[7] = Step("read") /\ P[8] = Step("report")
  PROVE  Sound("bag", P)
<1> USE DEF Step, Start, Exited, Stop
<1>1. Reports(P)
  BY DEF Reports
<1>2. Lists("bag", P)
  BY DEF Lists, Started, Starts, Roles
<1>3. Answers("bag", P)
  BY DEF Answers, Replying
<1>4. Publishes("bag", P) /\ Benches("bag", P)
  BY DEF Publishes, Benches
<1> QED
  BY <1>1, <1>2, <1>3, <1>4 DEF Sound

LEMMA Dds1 ==
  ASSUME NEW P, P = DdsMain \o <<Step("report")>>
  PROVE  Sound("dds", P)
BY Wanted
DEF Sound, Reports, Lists, Answers, Publishes, Benches, Replying, Starts, Started, Roles,
    Step, Start, Exited, DdsMain

(* Every program of every task, on either side. *)
LEMMA PlansAreSound == \A t \in AllTasks, s \in 1..2 : Sound(t, Plan(t, s))
<1> SUFFICES ASSUME NEW t \in AllTasks, NEW s \in 1..2 PROVE Sound(t, Plan(t, s))
  OBVIOUS
<1>1. CASE t = "timer"
  <2>1. CASE s = 1
    <3>1. Plan(t, s) = (RosCore \o <<Node, Await(5)>>) \o <<Step("report")>>
      BY <1>1, <2>1 DEF Plan, ScenarioRos1, ScenarioRos2
    <3> QED
      BY <1>1, <3>1, Timer1
  <2>2. CASE s = 2
    <3>1. Plan(t, s) = <<Node, Await(5)>> \o <<Step("report")>>
      BY <1>1, <2>2 DEF Plan, ScenarioRos1, ScenarioRos2
    <3> QED
      BY <1>1, <3>1, Timer2
  <2> QED
    BY <2>1, <2>2
<1>2. CASE t = "callback"
  <2>1. CASE s = 1
    <3>1. Plan(t, s) = (RosCore \o (<<Node, Link({"in", "out"})>> \o Exchange(3)))
                         \o <<Step("report")>>
      BY <1>2, <2>1 DEF Plan, ScenarioRos1, ScenarioRos2
    <3> QED
      BY <1>2, <3>1, Callback1
  <2>2. CASE s = 2
    <3>1. Plan(t, s) = (<<Node, Link({"in"})>> \o Exchange(3)) \o <<Step("report")>>
      BY <1>2, <2>2 DEF Plan, ScenarioRos1, ScenarioRos2
    <3> QED
      BY <1>2, <3>1, Callback2
  <2> QED
    BY <2>1, <2>2
<1>3. CASE t = "service"
  <2>1. CASE s = 1
    <3>1. Plan(t, s) = (RosCore \o <<Node, Step("find"), Step("call")>>) \o <<Step("report")>>
      BY <1>3, <2>1 DEF Plan, ScenarioRos1, ScenarioRos2
    <3> QED
      BY <1>3, <3>1, Service1
  <2>2. CASE s = 2
    <3>1. Plan(t, s) = <<Node, Step("find"), Step("ask")>> \o <<Step("report")>>
      BY <1>3, <2>2 DEF Plan, ScenarioRos1, ScenarioRos2
    <3> QED
      BY <1>3, <3>1, Service2
  <2> QED
    BY <2>1, <2>2
<1>4. CASE t = "tf"
  <2>1. CASE s = 1
    <3>1. Plan(t, s) = ((RosCore \o <<Node>>) \o TfRos1) \o <<Step("report")>>
      BY <1>4, <2>1 DEF Plan, CompatibilityMain, StartRos1
    <3> QED
      BY <1>4, <3>1, Tf1
  <2>2. CASE s = 2
    <3>1. Plan(t, s) = (<<Node>> \o TfRos2) \o <<Step("report")>>
      BY <1>4, <2>2 DEF Plan, CompatibilityMain, StartRos1
    <3> QED
      BY <1>4, <3>1, Tf2
  <2> QED
    BY <2>1, <2>2
<1>5. CASE t = "action"
  <2>1. CASE s = 1
    <3>1. Plan(t, s) = ((RosCore \o <<Node>>) \o ActionRos1) \o <<Step("report")>>
      BY <1>5, <2>1 DEF Plan, CompatibilityMain, StartRos1
    <3> QED
      BY <1>5, <3>1, Action1
  <2>2. CASE s = 2
    <3>1. Plan(t, s) = (<<Node>> \o ActionRos2) \o <<Step("report")>>
      BY <1>5, <2>2 DEF Plan, CompatibilityMain, StartRos1
    <3> QED
      BY <1>5, <3>1, Action2
  <2> QED
    BY <2>1, <2>2
<1>6. CASE t = "check"
  <2>1. Plan(t, s) = CheckMain \o <<Step("report")>>
    BY <1>6 DEF Plan
  <2> QED
    BY <1>6, <2>1, Check1
<1>7. CASE t = "capture"
  <2>1. CASE s = 1
    <3>1. Plan(t, s) = (<<Start("master", <<"master">>), Step("try"), Step("init")>>
                         \o <<Node, Await(2)>>)
                         \o <<Step("report")>>
      BY <1>7, <2>1, Wanted DEF Plan, CaptureMain
    <3> QED
      BY <1>7, <3>1, Capture1
  <2>2. CASE s = 2
    <3>1. Plan(t, s) = <<Node, Await(2)>> \o <<Step("report")>>
      BY <1>7, <2>2, Wanted DEF Plan, CaptureMain
    <3> QED
      BY <1>7, <3>1, Capture2
  <2> QED
    BY <2>1, <2>2
<1>8. CASE t = "custom"
  <2>1. CASE s = 1
    <3>1. Plan(t, s) = ((RosCore \o <<Node>>) \o (<<Link({"in", "out"})>> \o Exchange(1)))
                         \o <<Step("report")>>
      BY <1>8, <2>1, Wanted DEF Plan, CompatibilityMain, StartRos1, PubSubRos1, PubSubRos2
    <3> QED
      BY <1>8, <3>1, Custom1
  <2>2. CASE s = 2
    <3>1. Plan(t, s) = (<<Node>> \o (<<Link({"in"})>> \o Exchange(1))) \o <<Step("report")>>
      BY <1>8, <2>2, Wanted DEF Plan, CompatibilityMain, StartRos1, PubSubRos1, PubSubRos2
    <3> QED
      BY <1>8, <3>1, Custom2
  <2> QED
    BY <2>1, <2>2
<1>9. CASE t = "cpp"
  <2>1. CASE s = 1
    <3>1. Plan(t, s) = ((RosCore \o <<Node>>) \o (<<Link({"in", "out"})>> \o Exchange(2)))
                         \o <<Step("report")>>
      BY <1>9, <2>1, Wanted DEF Plan, CompatibilityMain, StartRos1, PubSubRos1, PubSubRos2
    <3> QED
      BY <1>9, <3>1, Cpp1
  <2>2. CASE s = 2
    <3>1. Plan(t, s) = (<<Node>> \o (<<Link({"in"})>> \o Exchange(2))) \o <<Step("report")>>
      BY <1>9, <2>2, Wanted DEF Plan, CompatibilityMain, StartRos1, PubSubRos1, PubSubRos2
    <3> QED
      BY <1>9, <3>1, Cpp2
  <2> QED
    BY <2>1, <2>2
<1>10. CASE t = "bag"
  <2>1. CASE s = 1
    <3>1. Plan(t, s) = BagRos1 \o <<Step("report")>>
      BY <1>10, <2>1 DEF Plan
    <3> QED
      BY <1>10, <3>1, Bag1Steps, Bag1
  <2>2. CASE s = 2
    <3>1. Plan(t, s) = BagRos2 \o <<Step("report")>>
      BY <1>10, <2>2 DEF Plan
    <3> QED
      BY <1>10, <3>1, Bag2Steps, Bag2
  <2> QED
    BY <2>1, <2>2
<1>11. CASE t = "dds"
  <2>1. Plan(t, s) = DdsMain \o <<Step("report")>>
    BY <1>11 DEF Plan
  <2> QED
    BY <1>11, <2>1, Dds1
<1> QED
  BY <1>1, <1>2, <1>3, <1>4, <1>5, <1>6, <1>7, <1>8, <1>9, <1>10, <1>11 DEF AllTasks

-----------------------------------------------------------------------------
(* Lists of processes.                                                     *)

LEMMA ListFacts ==
  ASSUME NEW s \in Seq(Roles)
  PROVE  /\ Reverse(s) \in Seq(Roles)
         /\ \A p \in Roles : Contains(Reverse(s), p) <=> Contains(s, p)
<1>1. Reverse(s) \in Seq(Roles) /\ Len(Reverse(s)) = Len(s)
  BY DEF Reverse
<1>2. ASSUME NEW p \in Roles, Contains(s, p) PROVE Contains(Reverse(s), p)
  <2>1. PICK i \in 1..Len(s) : s[i] = p
    BY <1>2 DEF Contains
  <2>2. Len(s) - i + 1 \in 1..Len(s) /\ Len(s) - (Len(s) - i + 1) + 1 = i
    BY <2>1
  <2>3. Reverse(s)[Len(s) - i + 1] = p
    BY <2>1, <2>2 DEF Reverse
  <2> QED
    BY <1>1, <2>2, <2>3 DEF Contains
<1>3. ASSUME NEW p \in Roles, Contains(Reverse(s), p) PROVE Contains(s, p)
  <2>1. PICK i \in 1..Len(s) : Reverse(s)[i] = p
    BY <1>1, <1>3 DEF Contains
  <2>2. s[Len(s) - i + 1] = p /\ Len(s) - i + 1 \in 1..Len(s)
    BY <2>1 DEF Reverse
  <2> QED
    BY <2>2 DEF Contains
<1> QED
  BY <1>1, <1>2, <1>3

LEMMA JoinFacts ==
  ASSUME NEW s \in Seq(Roles), NEW u \in Seq(Roles)
  PROVE  /\ s \o u \in Seq(Roles)
         /\ \A p \in Roles : Contains(s, p) \/ Contains(u, p) => Contains(s \o u, p)
<1>1. s \o u \in Seq(Roles) /\ Len(s \o u) = Len(s) + Len(u)
  OBVIOUS
<1>2. ASSUME NEW p \in Roles, Contains(s, p) PROVE Contains(s \o u, p)
  BY <1>1, <1>2 DEF Contains
<1>3. ASSUME NEW p \in Roles, Contains(u, p) PROVE Contains(s \o u, p)
  <2>1. PICK i \in 1..Len(u) : u[i] = p
    BY <1>3 DEF Contains
  <2>2. Len(s) + i \in 1..Len(s \o u) /\ (s \o u)[Len(s) + i] = p
    BY <1>1, <2>1
  <2> QED
    BY <2>2 DEF Contains
<1> QED
  BY <1>1, <1>2, <1>3

LEMMA TailFacts ==
  ASSUME NEW s \in Seq(Roles), s # <<>>
  PROVE  /\ Tail(s) \in Seq(Roles) /\ Head(s) \in Roles
         /\ \A p \in Roles : Contains(s, p) => p = Head(s) \/ Contains(Tail(s), p)
<1>1. Tail(s) \in Seq(Roles) /\ Head(s) = s[1] /\ Len(Tail(s)) = Len(s) - 1 /\ Len(s) > 0
  OBVIOUS
<1>2. ASSUME NEW p \in Roles, Contains(s, p), p # Head(s) PROVE Contains(Tail(s), p)
  <2>1. PICK i \in 1..Len(s) : s[i] = p
    BY <1>2 DEF Contains
  <2>2. i - 1 \in 1..Len(Tail(s)) /\ Tail(s)[i - 1] = p
    BY <1>1, <1>2, <2>1
  <2> QED
    BY <2>2 DEF Contains
<1> QED
  BY <1>1, <1>2

LEMMA ShortLists ==
  /\ \A p \in Roles : <<p>> \in Seq(Roles) /\ Contains(<<p>>, p)
  /\ <<>> \in Seq(Roles)
  /\ <<"node", "recorder">> \in Seq(Roles)
  /\ Contains(<<"node", "recorder">>, "node") /\ Contains(<<"node", "recorder">>, "recorder")
BY DEF Contains, Roles

-----------------------------------------------------------------------------
(* What a driver leaves behind.                                            *)

Program == Plan(task, side)

DriverTypes ==
  /\ task \in AllTasks /\ side \in 1..2
  /\ step \in 1..Len(Program)
  /\ phase \in {"body", "term", "wait", "end", "done"}
  /\ proc \in [Roles -> {"none", "alive", "ok", "failed", "killed"}]
  /\ listed \in Seq(Roles) /\ left \in Seq(Roles)

Running(p) == proc[p] \in {"alive", "killed"}

(* The two windows of NoSurvivors. *)
Unlisted(p)  == task = "bag" /\ p = "node" /\ proc["recorder"] = "none"
Untried(p)   == p = "load" /\ proc["sub"] = "none"

(* The processes are those the earlier steps have started, and one that    *)
(* runs is on the list until its exit has been waited for.                 *)
SurvivorInv ==
  /\ DriverTypes
  /\ \A p \in Roles : proc[p] # "none" <=> Started(Program, step, p)
  /\ phase \in {"body", "term"} =>
       \A p \in Roles : Running(p) => Contains(listed, p) \/ Unlisted(p)
  /\ phase = "wait" => \A p \in Roles : Running(p) => Contains(left, p) \/ Unlisted(p)
  /\ phase \in {"end", "done"} => \A p \in Roles : Running(p) => Unlisted(p) \/ Untried(p)

LEMMA ProgramIsSound == ASSUME DriverTypes PROVE Sound(task, Program) /\ Now = Program[step]
BY PlansAreSound DEF DriverTypes, Program, Now

(* The steps of the driver that only go on with the program. *)
LEMMA GoesOn ==
  ASSUME DriverTypes, WaitUntil \/ Call \/ Publish \/ StopRecorder \/ Spawn
  PROVE  /\ phase = "body" /\ phase' = "body" /\ Program' = Program /\ UNCHANGED <<task, side, left>>
         /\ step' = step + 1 /\ step' \in 1..Len(Program)
<1>1. Now.do # "report" /\ phase = "body"
  BY DEF WaitUntil, Call, Publish, StopRecorder, Spawn, In
<1>2. UNCHANGED <<task, side, phase, left>> /\ step' = step + 1
  BY DEF WaitUntil, Call, Publish, StopRecorder, Spawn, Go
<1>3. step < Len(Program)
  BY <1>1, ProgramIsSound DEF DriverTypes, Sound, Reports
<1> QED
  BY <1>1, <1>2, <1>3 DEF DriverTypes, Program

LEMMA SpawnStep == ASSUME SurvivorInv, Spawn PROVE SurvivorInv'
<1> DEFINE q == Now.who
<1> DEFINE L == Now.list
<1>1. DriverTypes /\ phase = "body" /\ Now.do = "start" /\ Lists(task, Program) /\ Now = Program[step]
  BY ProgramIsSound DEF SurvivorInv, Spawn, In, Sound
<1>2. /\ Program' = Program /\ UNCHANGED <<task, side, left>> /\ phase' = "body"
      /\ step' = step + 1 /\ step' \in 1..Len(Program)
  BY <1>1, GoesOn
<1>3. proc' = [proc EXCEPT ![q] = "alive"] /\ listed' = listed \o L
  BY DEF Spawn
<1>4. \/ q \in Roles \ {"recorder"} /\ L = <<q>>
      \/ task = "bag" /\ q = "node" /\ L = <<>> /\ ~Started(Program, step, "recorder")
      \/ q = "recorder" /\ L = <<"node", "recorder">>
  BY <1>1 DEF Lists, DriverTypes
<1> HIDE DEF q, L
<1>5. q \in Roles /\ L \in Seq(Roles)
  BY <1>4, ShortLists DEF Roles
<1>6. /\ listed' \in Seq(Roles)
      /\ \A p \in Roles : Contains(listed, p) \/ Contains(L, p) => Contains(listed', p)
  BY <1>1, <1>3, <1>5, JoinFacts DEF DriverTypes
<1>7. DriverTypes'
  BY <1>1, <1>2, <1>3, <1>5, <1>6 DEF DriverTypes
<1>8. ASSUME NEW p \in Roles PROVE proc'[p] # "none" <=> Started(Program, step + 1, p)
  <2>1. Started(Program, step + 1, p) <=> p = q \/ Started(Program, step, p)
    BY <1>1 DEF Started, Starts, DriverTypes, q
  <2>2. proc'[p] # "none" <=> p = q \/ proc[p] # "none"
    BY <1>1, <1>3 DEF DriverTypes
  <2> QED
    BY <2>1, <2>2 DEF SurvivorInv
<1>9. ASSUME NEW p \in Roles, Running(p)' PROVE Contains(listed', p) \/ Unlisted(p)'
  <2>1. CASE p = q
    <3>1. CASE q \in Roles \ {"recorder"} /\ L = <<q>>
      BY <1>6, <2>1, <3>1, ShortLists
    <3>2. CASE task = "bag" /\ q = "node" /\ ~Started(Program, step, "recorder")
      <4>1. proc["recorder"] = "none"
        BY <1>1, <3>2 DEF SurvivorInv, Roles
      <4>2. proc'["recorder"] = "none"
        BY <1>1, <1>3, <3>2, <4>1 DEF DriverTypes, Roles
      <4> QED
        BY <1>2, <2>1, <3>2, <4>2 DEF Unlisted
    <3>3. CASE q = "recorder" /\ L = <<"node", "recorder">>
      BY <1>6, <2>1, <3>3, ShortLists
    <3> QED
      BY <1>4, <3>1, <3>2, <3>3
  <2>2. CASE p # q
    <3>1. Contains(listed, p) \/ Unlisted(p)
      BY <1>1, <1>3, <1>9, <2>2 DEF SurvivorInv, DriverTypes, Running
    <3>2. CASE Contains(listed, p)
      BY <1>6, <3>2
    <3>3. CASE Unlisted(p) /\ q # "recorder"
      BY <1>1, <1>2, <1>3, <3>3 DEF Unlisted, DriverTypes, Roles
    <3>4. CASE Unlisted(p) /\ q = "recorder"
      BY <1>4, <1>6, <3>4, ShortLists DEF Unlisted
    <3> QED
      BY <3>1, <3>2, <3>3, <3>4
  <2> QED
    BY <2>1, <2>2
<1> QED
  BY <1>2, <1>7, <1>8, <1>9 DEF SurvivorInv

(* The processes change, but none is started and none begins to run. *)
LEMMA Weaker ==
  ASSUME SurvivorInv, DriverTypes', UNCHANGED <<task, side, step, phase, listed, left>>,
         \A p \in Roles : /\ (proc'[p] = "none" <=> proc[p] = "none")
                          /\ Running(p)' => Running(p)
  PROVE  SurvivorInv'
BY DEF SurvivorInv, DriverTypes, Program, Unlisted, Untried, Roles

LEMMA StopStep == ASSUME SurvivorInv, StopRecorder PROVE SurvivorInv'
<1>1. DriverTypes /\ phase = "body" /\ Now.do = "stop" /\ Lists(task, Program) /\ Now = Program[step]
  BY ProgramIsSound DEF SurvivorInv, StopRecorder, In, Sound
<1>2. /\ Program' = Program /\ UNCHANGED <<task, side, left>> /\ phase' = "body"
      /\ step' = step + 1 /\ step' \in 1..Len(Program)
  BY <1>1, GoesOn
<1>3. Now.who = "recorder" /\ Started(Program, step, "recorder")
  BY <1>1 DEF Lists, DriverTypes
<1>4. /\ listed' = listed
      /\ proc' = [proc EXCEPT !["recorder"] = IF Ended("recorder") THEN @ ELSE "failed"]
  BY <1>3 DEF StopRecorder, Go
<1>5. DriverTypes'
  BY <1>1, <1>2, <1>4 DEF DriverTypes
<1>6. \A p \in Roles : Started(Program, step + 1, p) <=> Started(Program, step, p)
  BY <1>1 DEF Started, Starts, DriverTypes
<1>7. \A p \in Roles : proc'[p] = "none" <=> proc[p] = "none"
  BY <1>1, <1>3, <1>4 DEF SurvivorInv, DriverTypes, Roles
<1>8. ASSUME NEW p \in Roles, Running(p)' PROVE Contains(listed', p) \/ Unlisted(p)'
  <2>1. Running(p)
    BY <1>1, <1>4, <1>8 DEF Running, Ended, DriverTypes
  <2>2. Contains(listed, p) \/ Unlisted(p)
    BY <1>1, <2>1 DEF SurvivorInv
  <2> QED
    BY <1>2, <1>4, <1>7, <2>2 DEF Unlisted, Roles
<1> QED
  BY <1>2, <1>5, <1>6, <1>7, <1>8 DEF SurvivorInv

(* Steps that leave the processes and the list alone. *)
LEMMA QuietSteps == ASSUME SurvivorInv, WaitUntil \/ Call \/ Publish PROVE SurvivorInv'
<1>1. DriverTypes /\ phase = "body" /\ Now.do # "start" /\ Now = Program[step]
  BY ProgramIsSound DEF SurvivorInv, WaitUntil, Call, Publish, In
<1>2. /\ Program' = Program /\ UNCHANGED <<task, side, left>> /\ phase' = "body"
      /\ step' = step + 1 /\ step' \in 1..Len(Program)
  BY <1>1, GoesOn
<1>3. UNCHANGED <<proc, listed>>
  BY DEF WaitUntil, Call, Publish, Go
<1>4. \A p \in Roles : Started(Program, step + 1, p) <=> Started(Program, step, p)
  BY <1>1 DEF Started, Starts, DriverTypes
<1> QED
  BY <1>1, <1>2, <1>3, <1>4 DEF SurvivorInv, DriverTypes, Running, Unlisted

(* Before its try statement the benchmark has started nothing but the load. *)
LEMMA RaiseStep ==
  ASSUME SurvivorInv, Raise, phase = "body"
  PROVE  SurvivorInv'
<1>1. DriverTypes' /\ Program' = Program /\ UNCHANGED <<task, side, step, listed, left, proc>>
  BY DEF SurvivorInv, Raise, DriverTypes, Program
<1>2. CASE ~Unguarded(task, step)
  BY <1>1, <1>2 DEF SurvivorInv, Raise, Running, Unlisted
<1>3. CASE Unguarded(task, step)
  <2>1. task = "dds" /\ step <= 2 /\ step \in Nat /\ Benches(task, Program)
    BY <1>3, ProgramIsSound DEF Unguarded, SurvivorInv, DriverTypes, Sound
  <2>2. \A p \in Roles : Started(Program, step, p) => p = "load"
    BY <2>1 DEF Started, Starts, Benches
  <2>3. phase' = "end"
    BY <1>3 DEF Raise
  <2> QED
    BY <1>1, <2>2, <2>3 DEF SurvivorInv, Running, Untried, Roles
<1> QED
  BY <1>2, <1>3

(* The end of the program, and its finally clause. *)
LEMMA ReportStep == ASSUME SurvivorInv, Report PROVE SurvivorInv'
<1>1. phase = "body" /\ phase' = "term" /\ UNCHANGED <<task, side, step, listed, left, proc>>
  BY DEF Report, In
<1> QED
  BY <1>1 DEF SurvivorInv, DriverTypes, Program, Running, Unlisted

LEMMA SigTermStep == ASSUME SurvivorInv, SigTerm PROVE SurvivorInv'
<1>1. /\ phase = "term" /\ phase' = "wait" /\ UNCHANGED <<task, side, step, listed, proc>>
      /\ left' = listed \/ left' = Reverse(listed)
  BY DEF SigTerm, Cleanup
<1>2. left' \in Seq(Roles) /\ \A p \in Roles : Contains(left', p) <=> Contains(listed, p)
  BY <1>1, ListFacts DEF SurvivorInv, DriverTypes
<1> QED
  BY <1>1, <1>2 DEF SurvivorInv, DriverTypes, Program, Running, Unlisted

LEMMA WaitStep == ASSUME SurvivorInv, WaitNext PROVE SurvivorInv'
<1>1. /\ phase = "wait" /\ left # <<>> /\ Ended(Head(left)) /\ left' = Tail(left)
      /\ UNCHANGED <<task, side, step, phase, listed, proc>>
  BY DEF WaitNext, Waited
<1>2. /\ left' \in Seq(Roles)
      /\ \A p \in Roles : Contains(left, p) => p = Head(left) \/ Contains(left', p)
  BY <1>1, TailFacts DEF SurvivorInv, DriverTypes
<1>3. ~Running(Head(left))
  BY <1>1 DEF Running, Ended
<1> QED
  BY <1>1, <1>2, <1>3 DEF SurvivorInv, DriverTypes, Program, Running, Unlisted

LEMMA FinishStep == ASSUME SurvivorInv, Finish PROVE SurvivorInv'
<1>1. /\ phase = "wait" /\ phase' = "end" /\ left = <<>>
      /\ UNCHANGED <<task, side, step, listed, left, proc>>
  BY DEF Finish
<1>2. \A p \in Roles : ~Contains(left, p)
  BY <1>1 DEF Contains
<1> QED
  BY <1>1, <1>2 DEF SurvivorInv, DriverTypes, Program, Running, Unlisted

LEMMA PipelineStep == ASSUME SurvivorInv, Abort \/ OtherSide \/ Compare PROVE SurvivorInv'
<1>1. CASE Abort \/ Compare
  <2>1. phase = "end" /\ phase' = "done" /\ UNCHANGED <<task, side, step, listed, left, proc>>
    BY <1>1 DEF Abort, Compare
  <2> QED
    BY <2>1 DEF SurvivorInv, DriverTypes, Program, Running, Unlisted, Untried
<1>2. CASE OtherSide
  <2>1. /\ task' = task /\ side' = 2 /\ step' = 1 /\ phase' = "body"
        /\ listed' = <<>> /\ left' = <<>> /\ proc' = [p \in Roles |-> "none"]
    BY <1>2 DEF OtherSide
  <2>2. task \in AllTasks /\ Sound(task, Plan(task, 2))
    BY PlansAreSound DEF SurvivorInv, DriverTypes
  <2>3. DriverTypes'
    BY <2>1, <2>2 DEF DriverTypes, Program, Sound, Reports
  <2>4. \A p \in Roles : ~Started(Program, step, p)'
    BY <2>1 DEF Started
  <2> QED
    BY <2>1, <2>3, <2>4 DEF SurvivorInv, Running
<1> QED
  BY <1>1, <1>2

LEMMA SurvivorStep == ASSUME SurvivorInv, [HarnessNext]_harnessVars PROVE SurvivorInv'
<1> USE DEF driverVars
<1>1. CASE Spawn \/ StopRecorder \/ WaitUntil \/ Call \/ Publish
  BY <1>1, SpawnStep, StopStep, QuietSteps
<1>2. CASE Deadline \/ ChildExit \/ Interrupt
  BY <1>2, RaiseStep DEF Deadline, ChildExit, Interrupt, In
<1>3. CASE Report \/ SigTerm \/ WaitNext \/ Finish \/ Abort \/ OtherSide \/ Compare
  BY <1>3, ReportStep, SigTermStep, WaitStep, FinishStep, PipelineStep
<1>4. CASE KillLate
  <2> DEFINE q == Head(left)
  <2>1. /\ proc[q] = "alive" /\ proc' = [proc EXCEPT ![q] = "killed"]
        /\ UNCHANGED <<task, side, step, phase, listed, left>>
    BY <1>4 DEF KillLate, Alive
  <2> HIDE DEF q
  <2>2. DriverTypes'
    BY <2>1 DEF SurvivorInv, DriverTypes, Program
  <2> QED
    BY <2>1, <2>2, Weaker DEF SurvivorInv, DriverTypes, Running
<1>5. CASE \E p \in Roles : Exit(p) \/ Dies(p)
  <2>1. PICK p \in Roles : Exit(p) \/ Dies(p)
    BY <1>5
  <2>2. /\ Running(p) /\ proc' \in {[proc EXCEPT ![p] = "failed"], [proc EXCEPT ![p] = "ok"]}
        /\ UNCHANGED <<task, side, step, phase, listed, left>>
    BY <2>1 DEF Exit, Dies, Alive, Running
  <2>3. DriverTypes'
    BY <2>2 DEF SurvivorInv, DriverTypes, Program
  <2> QED
    BY <2>2, <2>3, Weaker DEF SurvivorInv, DriverTypes, Running
<1>6. CASE Discover \/ Emit \/ Forward \/ Lose \/ Collect \/ UNCHANGED harnessVars
  <2>1. UNCHANGED <<proc, driverVars>>
    BY <1>6 DEF Discover, Emit, Forward, Lose, Collect, Others, harnessVars
  <2> QED
    BY <2>1, Weaker DEF SurvivorInv, DriverTypes, Program, Running
<1> QED
  BY <1>1, <1>2, <1>3, <1>4, <1>5, <1>6 DEF HarnessNext, Driver, External

LEMMA SurvivorStart == ASSUME HarnessInit PROVE SurvivorInv
<1>1. task \in AllTasks /\ side = 1 /\ step = 1 /\ phase = "body" /\ listed = <<>> /\ left = <<>>
  BY TasksAssumption DEF HarnessInit
<1>2. proc = [p \in Roles |-> "none"]
  BY DEF HarnessInit
<1>3. Sound(task, Plan(task, 1))
  BY <1>1, PlansAreSound
<1>4. DriverTypes
  BY <1>1, <1>2, <1>3 DEF DriverTypes, Program, Sound, Reports
<1>5. \A p \in Roles : ~Started(Program, step, p)
  BY <1>1 DEF Started
<1> QED
  BY <1>1, <1>2, <1>4, <1>5 DEF SurvivorInv, Running

(* When a driver has ended, by its report, a deadline, an interrupt or the *)
(* exit of a process, nothing it started runs on, but in the two windows   *)
(* (validate_recorded_bag.py:60-62, benchmark_dds.py:37-40).               *)
THEOREM NothingSurvives == HarnessSpec => []NoSurvivors
<1>1. SurvivorInv => NoSurvivors
  BY DEF SurvivorInv, NoSurvivors, Running, Unlisted, Untried
<1> QED
  BY <1>1, SurvivorStart, SurvivorStep, PTL DEF HarnessSpec

-----------------------------------------------------------------------------
(* What a passed comparison is worth.                                      *)

(* A report that is complete. *)
Good(t, r) ==
  /\ r \in Seq(Nat) /\ Len(r) = Outputs(t)
  /\ t \in Replying \union {"bag", "dds"} => r = Expected(t)

MessageTypes ==
  /\ sent \in Nat /\ inbox \in Seq(Nat) /\ outbox \in Seq(Nat) /\ got \in Seq(Nat)
  /\ result \in [1..2 -> Seq(Nat) \union {Nothing}]

(* The inputs of a driver that waits for each output: what is collected,   *)
(* then on its way out, then on its way in, are inputs 1..sent in order,   *)
(* some of which may be missing, so that the i-th of these L messages is   *)
(* one of i..sent-L+i.                                                     *)
Held == Len(got) + Len(outbox) + Len(inbox)

Spaced(box, n) ==
  \A i \in 1..Len(box) : n + i <= box[i] /\ box[i] <= sent - Held + n + i

FlowInv ==
  task \in Replying =>
    /\ Held <= sent
    /\ Spaced(got, 0) /\ Spaced(outbox, Len(got)) /\ Spaced(inbox, Len(got) + Len(outbox))

(* It has sent no more inputs than it has passed steps that do. *)
SentInv ==
  task \in Replying /\ phase = "body" =>
    sent = 0 \/ 2 * sent + Len(Program) <= step + 1 + 2 * Outputs(task)

(* What the driver has at its last step. *)
AwaitInv ==
  phase = "body" /\ step = Len(Program) /\ task \in Replying \union {"timer", "capture"} =>
    Len(got) >= Outputs(task)

AnswerInv ==
  task \in {"service", "action"} /\ phase = "body" =>
    /\ inbox = <<>> /\ outbox = <<>>
    /\ got = IF step = Len(Program) THEN <<1>> ELSE <<>>

BenchInv ==
  task = "dds" /\ phase = "body" =>
    /\ proc["sub"] = "ok" => got = Expected("dds")
    /\ step >= 6 => proc["sub"] = "ok"

(* An end without an exception comes with a report; the other side starts  *)
(* and the comparison is made after such an end.                           *)
ResultInv ==
  /\ task = "check" => side = 1
  /\ side = 2 => Good(task, result[1])
  /\ phase \in {"term", "wait", "end"} /\ task # "check" => raised \/ Good(task, result[side])
  /\ verdict = "passed" =>
       /\ phase = "done" /\ side = 2 /\ Good(task, result[2])
       /\ task = "timer" => Consecutive(result[1]) /\ Consecutive(result[2])

EarnedInv ==
  SurvivorInv /\ MessageTypes /\ FlowInv /\ SentInv /\ AwaitInv /\ AnswerInv /\ BenchInv /\ ResultInv

traffic == <<sent, inbox, outbox, got>>

(* What a step does, as far as messages and the program are concerned. *)
LEMMA Kinds ==
  ASSUME [HarnessNext]_harnessVars
  PROVE  \/ WaitUntil \/ Spawn \/ StopRecorder
         \/ Call \/ Publish \/ Emit \/ Forward \/ Lose \/ Collect
         \/ OtherSide
         \/ UNCHANGED <<task, side, traffic>> /\ phase' # "body"
         \/ UNCHANGED <<task, side, step, phase, traffic>>
<1> USE DEF msgVars, traffic
<1>1. CASE Deadline \/ ChildExit \/ Interrupt
  BY <1>1 DEF Deadline, ChildExit, Interrupt, Raise
<1>2. CASE Report \/ SigTerm \/ Finish \/ Abort \/ Compare
  BY <1>2 DEF Report, SigTerm, Finish, Abort, Compare
<1>3. CASE WaitNext \/ KillLate \/ Discover
  BY <1>3 DEF WaitNext, KillLate, Discover, Others, driverVars
<1>4. CASE (\E p \in Roles : Exit(p) \/ Dies(p)) \/ UNCHANGED harnessVars
  BY <1>4 DEF Exit, Dies, harnessVars, driverVars
<1> QED
  BY <1>1, <1>2, <1>3, <1>4 DEF HarnessNext, Driver, External

LEMMA SequenceFacts ==
  ASSUME NEW s \in Seq(Nat), NEW x \in Nat
  PROVE  /\ Append(s, x) \in Seq(Nat) /\ Len(Append(s, x)) = Len(s) + 1
         /\ \A i \in 1..Len(s) : Append(s, x)[i] = s[i]
         /\ Append(s, x)[Len(s) + 1] = x
         /\ s # <<>> => /\ Head(s) = s[1] /\ Head(s) \in Nat /\ Tail(s) \in Seq(Nat)
                        /\ Len(s) > 0 /\ Len(Tail(s)) = Len(s) - 1
                        /\ \A i \in 1..Len(Tail(s)) : Tail(s)[i] = s[i + 1]
OBVIOUS

LEMMA OutputsType == \A t \in AllTasks : Outputs(t) \in Nat /\ Outputs(t) >= 1
BY Wanted DEF AllTasks

LEMMA FirstFacts ==
  ASSUME NEW s \in Seq(Nat), NEW n \in Nat
  PROVE  /\ FirstOf(s, n) \in Seq(Nat)
         /\ Len(s) >= n => Len(FirstOf(s, n)) = n
         /\ Len(s) = n => FirstOf(s, n) = s
<1>1. CASE n < Len(s)
  BY <1>1 DEF FirstOf
<1>2. CASE n >= Len(s)
  <2>1. FirstOf(s, n) = SubSeq(s, 1, Len(s))
    BY <1>2 DEF FirstOf
  <2> QED
    BY <1>2, <2>1
<1> QED
  BY <1>1, <1>2

LEMMA MessageTypesStep == ASSUME SurvivorInv, MessageTypes, [HarnessNext]_harnessVars PROVE MessageTypes'
<1> USE DEF MessageTypes
<1>1. sent' \in Nat /\ inbox' \in Seq(Nat) /\ outbox' \in Seq(Nat) /\ got' \in Seq(Nat)
  <2>1. CASE WaitUntil \/ Spawn \/ StopRecorder
    BY <2>1 DEF WaitUntil, Spawn, StopRecorder, msgVars
  <2>2. CASE Call
    BY <2>2, SequenceFacts DEF Call
  <2>3. CASE Publish
    BY <2>3, SequenceFacts DEF Publish
  <2>4. CASE Emit
    <3>1. /\ sent' = sent + 1 /\ got' = got
          /\ inbox' = inbox \/ inbox' = Append(inbox, sent + 1)
          /\ outbox' = outbox \/ outbox' = Append(outbox, sent + 1)
      BY <2>4 DEF Emit, Delivered
    <3>2. Append(inbox, sent + 1) \in Seq(Nat) /\ Append(outbox, sent + 1) \in Seq(Nat)
      BY SequenceFacts
    <3>3. inbox' \in Seq(Nat) /\ outbox' \in Seq(Nat)
      BY <3>1, <3>2
    <3> QED
      BY <3>1, <3>3
  <2>5. CASE Forward
    BY <2>5, SequenceFacts DEF Forward, Delivered
  <2>6. CASE Lose \/ Collect
    BY <2>6, SequenceFacts DEF Lose, Collect
  <2>7. CASE OtherSide
    BY <2>7 DEF OtherSide
  <2>8. CASE UNCHANGED traffic
    BY <2>8 DEF traffic
  <2> QED
    BY <2>1, <2>2, <2>3, <2>4, <2>5, <2>6, <2>7, <2>8, Kinds
<1>2. result' \in [1..2 -> Seq(Nat) \union {Nothing}]
  <2>1. CASE Report
    <3>1. PICK seen : /\ seen = (CASE task \in {"timer", "callback", "capture"} -> FirstOf(got, Outputs(task))
                                   [] task = "tf" -> <<1>>
                                   [] OTHER -> got)
                      /\ result' = [result EXCEPT ![side] = seen]
      BY <2>1 DEF Report
    <3>2. FirstOf(got, Outputs(task)) \in Seq(Nat)
      BY FirstFacts, OutputsType DEF SurvivorInv, DriverTypes
    <3>3. <<1>> \in Seq(Nat)
      OBVIOUS
    <3>4. seen \in Seq(Nat)
      BY <3>1, <3>2, <3>3
    <3> QED
      BY <3>1, <3>4 DEF SurvivorInv, DriverTypes
  <2>2. CASE UNCHANGED result
    BY <2>2
  <2> QED
    BY <2>1, <2>2 DEF HarnessNext, Driver, External, harnessVars, Raise, Spawn, WaitUntil, Call, Publish,
      StopRecorder, Deadline, ChildExit, Interrupt, SigTerm, WaitNext, KillLate, Finish, Abort,
      OtherSide, Compare, Exit, Dies, Discover, Emit, Forward, Lose, Collect, Others
<1> QED
  BY <1>1, <1>2

(* The inputs of a replying driver. *)
LEMMA FlowStep == ASSUME SurvivorInv, MessageTypes, FlowInv, [HarnessNext]_harnessVars PROVE FlowInv'
<1> SUFFICES ASSUME task' \in Replying PROVE FlowInv'
  BY DEF FlowInv
<1> USE DEF Spaced, Held
<1>1. task' = task /\ task \in Replying /\ FlowInv
  BY DEF HarnessNext, Driver, External, harnessVars, driverVars, Raise, Spawn, WaitUntil, Call, Publish, Go,
      StopRecorder, Deadline, ChildExit, Interrupt, SigTerm, WaitNext, KillLate, Finish, Abort,
      OtherSide, Compare, Exit, Dies, Discover, Emit, Forward, Lose, Collect, Others, Report
<1>2. /\ Held <= sent
      /\ Spaced(got, 0) /\ Spaced(outbox, Len(got)) /\ Spaced(inbox, Len(got) + Len(outbox))
      /\ sent \in Nat /\ inbox \in Seq(Nat) /\ outbox \in Seq(Nat) /\ got \in Seq(Nat)
  BY <1>1 DEF FlowInv, MessageTypes
<1>3. CASE UNCHANGED traffic
  BY <1>2, <1>3 DEF traffic, FlowInv
<1>4. CASE WaitUntil \/ Spawn \/ StopRecorder
  BY <1>3, <1>4 DEF WaitUntil, Spawn, StopRecorder, msgVars, traffic
<1>5. CASE Call
  <2>1. FALSE
    BY <1>1, <1>5, ProgramIsSound DEF Call, In, SurvivorInv, DriverTypes, Sound, Answers, Replying
  <2> QED
    BY <2>1
<1>6. CASE Publish
  <2>1. sent' = sent + 1 /\ UNCHANGED <<got, outbox>>
    BY <1>6 DEF Publish
  <2>2. CASE inbox' = inbox
    BY <1>2, <2>1, <2>2 DEF FlowInv
  <2>3. CASE inbox' = Append(inbox, sent + 1)
    <3>1. Len(inbox') = Len(inbox) + 1 /\ Held' = Held + 1
      BY <1>2, <2>1, <2>3, SequenceFacts
    <3>2. Spaced(got, 0)' /\ Spaced(outbox, Len(got))'
      BY <1>2, <2>1, <3>1
    <3>3. Spaced(inbox, Len(got) + Len(outbox))'
      BY <1>2, <2>1, <2>3, <3>1, SequenceFacts
    <3> QED
      BY <1>2, <2>1, <3>1, <3>2, <3>3 DEF FlowInv
  <2> QED
    BY <1>6, <2>2, <2>3 DEF Publish
<1>7. CASE Emit \/ Lose
  <2>1. FALSE
    BY <1>1, <1>7 DEF Emit, Lose, Source, Replying
  <2> QED
    BY <2>1
<1>8. CASE Forward
  <2>1. sent' = sent /\ got' = got /\ inbox # <<>> /\ inbox' = Tail(inbox)
    BY <1>8 DEF Forward
  <2>2. CASE outbox' = outbox
    <3>1. Len(inbox') = Len(inbox) - 1 /\ Held' = Held - 1
      BY <1>2, <2>1, <2>2, SequenceFacts
    <3>2. Spaced(got, 0)'
      BY <1>2, <2>1, <3>1
    <3>3. Spaced(outbox, Len(got))'
      BY <1>2, <2>1, <2>2, <3>1
    <3>4. Spaced(inbox, Len(got) + Len(outbox))'
      BY <1>2, <2>1, <2>2, <3>1, SequenceFacts
    <3> QED
      BY <1>2, <2>1, <3>1, <3>2, <3>3, <3>4 DEF FlowInv
  <2>3. CASE outbox' = Append(outbox, Head(inbox))
    <3>1. Len(inbox') = Len(inbox) - 1 /\ Len(outbox') = Len(outbox) + 1 /\ Held' = Held
      BY <1>2, <2>1, <2>3, SequenceFacts
    <3>2. Spaced(got, 0)'
      BY <1>2, <2>1, <3>1
    <3>3. Spaced(outbox, Len(got))'
      BY <1>2, <2>1, <2>3, <3>1, SequenceFacts
    <3>4. Spaced(inbox, Len(got) + Len(outbox))'
      BY <1>2, <2>1, <2>3, <3>1, SequenceFacts
    <3> QED
      BY <1>2, <2>1, <3>1, <3>2, <3>3, <3>4 DEF FlowInv
  <2> QED
    BY <1>8, <2>2, <2>3 DEF Forward, Delivered
<1>9. CASE Collect
  <2>1. /\ sent' = sent /\ inbox' = inbox /\ outbox # <<>> /\ outbox' = Tail(outbox)
        /\ got' = Append(got, Head(outbox))
    BY <1>9 DEF Collect
  <2>2. Len(outbox') = Len(outbox) - 1 /\ Len(got') = Len(got) + 1 /\ Held' = Held
    BY <1>2, <2>1, SequenceFacts
  <2>3. Spaced(got, 0)'
    <3>1. Head(outbox) = outbox[1] /\ Head(outbox) \in Nat /\ 1 \in 1..Len(outbox)
      BY <1>2, <2>1, SequenceFacts
    <3>2. Len(got) + 1 <= Head(outbox) /\ Head(outbox) <= sent - Held + Len(got) + 1
      BY <1>2, <3>1
    <3>3. got'[Len(got) + 1] = Head(outbox) /\ \A i \in 1..Len(got) : got'[i] = got[i]
      BY <1>2, <2>1, <3>1, SequenceFacts
    <3> QED
      BY <1>2, <2>1, <2>2, <3>2, <3>3
  <2>4. Spaced(outbox, Len(got))'
    BY <1>2, <2>1, <2>2, SequenceFacts
  <2>5. Spaced(inbox, Len(got) + Len(outbox))'
    BY <1>2, <2>1, <2>2
  <2> QED
    BY <1>2, <2>1, <2>2, <2>3, <2>4, <2>5 DEF FlowInv
<1>10. CASE OtherSide
  BY <1>10 DEF OtherSide, FlowInv
<1> QED
  BY <1>3, <1>4, <1>5, <1>6, <1>7, <1>8, <1>9, <1>10, Kinds DEF traffic

LEMMA SentStep == ASSUME SurvivorInv, MessageTypes, SentInv, [HarnessNext]_harnessVars PROVE SentInv'
<1> SUFFICES ASSUME task' \in Replying, phase' = "body" PROVE SentInv'
  BY DEF SentInv
<1> DEFINE n == Outputs(task)
<1> DEFINE L == Len(Program)
<1>1. /\ task \in AllTasks /\ n \in Nat /\ L \in Nat /\ sent \in Nat /\ step \in Nat
      /\ Publishes(task, Program) /\ Answers(task, Program) /\ Now = Program[step] /\ step \in 1..L
  BY ProgramIsSound, OutputsType DEF SurvivorInv, DriverTypes, MessageTypes, Sound, Reports
<1> HIDE DEF n, L
<1>2. CASE WaitUntil \/ Spawn \/ StopRecorder
  <2>1. phase = "body" /\ Program' = Program /\ task' = task /\ step' = step + 1
    BY <1>2, GoesOn DEF SurvivorInv
  <2>2. sent' = sent
    BY <1>2 DEF WaitUntil, Spawn, StopRecorder, msgVars
  <2> QED
    BY <1>1, <2>1, <2>2 DEF SentInv, n, L
<1>3. CASE Call
  <2>1. FALSE
    BY <1>1, <1>3 DEF Call, In, Answers, Replying, Go, L
  <2> QED
    BY <2>1
<1>4. CASE Publish
  <2>1. phase = "body" /\ Program' = Program /\ task' = task /\ step' = step + 1
    BY <1>4, GoesOn DEF SurvivorInv
  <2>2. sent' = sent + 1 /\ Now.do = "publish"
    BY <1>4 DEF Publish, In
  <2>3. PICK j \in 1..n : step = L - 2 * j
    BY <1>1, <2>2 DEF Publishes, n, L
  <2>4. sent = 0 \/ 2 * sent + L <= step + 1 + 2 * n
    BY <2>1 DEF SentInv, n, L
  <2>5. 2 * (sent + 1) + L <= (step + 1) + 1 + 2 * n
    BY <1>1, <2>3, <2>4
  <2> QED
    BY <2>1, <2>2, <2>5 DEF SentInv, n, L
<1>5. CASE Emit \/ Lose
  <2>1. FALSE
    BY <1>5 DEF Emit, Lose, Others, driverVars, Source, Replying
  <2> QED
    BY <2>1
<1>6. CASE Forward \/ Collect \/ UNCHANGED <<task, side, step, phase, traffic>>
  <2>1. UNCHANGED <<task, side, step, phase, sent>>
    BY <1>6 DEF Forward, Collect, Others, driverVars, traffic
  <2> QED
    BY <2>1 DEF SentInv, Program
<1>7. CASE OtherSide
  BY <1>7 DEF OtherSide, SentInv
<1> QED
  BY <1>2, <1>3, <1>4, <1>5, <1>6, <1>7, Kinds

LEMMA AwaitStep == ASSUME SurvivorInv, MessageTypes, AwaitInv, [HarnessNext]_harnessVars PROVE AwaitInv'
<1> SUFFICES ASSUME phase' = "body", step' = Len(Program'), task' \in Replying \union {"timer", "capture"}
             PROVE  Len(got') >= Outputs(task')
  BY DEF AwaitInv
<1>1. /\ task \in AllTasks /\ side \in 1..2 /\ Now = Program[step] /\ step \in 1..Len(Program)
      /\ Answers(task, Program) /\ Len(Program) \in Nat
      /\ Len(got) \in Nat
  BY ProgramIsSound DEF SurvivorInv, DriverTypes, MessageTypes, Sound, Reports
<1>2. CASE WaitUntil \/ Spawn \/ StopRecorder \/ Call \/ Publish
  <2>1. phase = "body" /\ Program' = Program /\ task' = task /\ step = Len(Program) - 1
    BY <1>1, <1>2, GoesOn DEF SurvivorInv
  <2>2. Now.do = "await" /\ Now.n = Outputs(task)
    BY <1>1, <2>1 DEF Answers
  <2>3. WaitUntil
    BY <1>2, <2>2 DEF Spawn, StopRecorder, Call, Publish, In
  <2>4. Len(got) >= Now.n /\ got' = got
    BY <2>2, <2>3 DEF WaitUntil, Reached, msgVars
  <2> QED
    BY <2>1, <2>2, <2>4
<1>3. CASE Emit \/ Forward \/ Lose \/ Collect \/ UNCHANGED <<task, side, step, phase, traffic>>
  <2>1. UNCHANGED <<task, side, step, phase>> /\ Len(got') >= Len(got)
    <3>1. CASE Collect
      BY <3>1, SequenceFacts DEF Collect, Others, driverVars, MessageTypes
    <3>2. CASE UNCHANGED <<task, side, step, phase, got>>
      BY <1>1, <3>2
    <3> QED
      BY <1>3, <3>1, <3>2 DEF Emit, Forward, Lose, Others, driverVars, traffic
  <2>2. Len(got) >= Outputs(task)
    BY <2>1 DEF AwaitInv, Program
  <2> QED
    BY <1>1, <2>1, <2>2, OutputsType
<1>4. CASE OtherSide
  <2>1. step' = 1 /\ Program' = Plan(task, 2)
    BY <1>4 DEF OtherSide, Program
  <2>2. Sound(task, Plan(task, 2))
    BY <1>1, PlansAreSound
  <2>3. Sound(task, Program')
    BY <2>1, <2>2, Zenon
  <2>4. step' # Len(Program')
    BY <2>1, <2>3 DEF Sound, Reports
  <2> QED
    BY <2>4
<1> QED
  BY <1>2, <1>3, <1>4, Kinds

LEMMA AnswerStep == ASSUME SurvivorInv, MessageTypes, AnswerInv, [HarnessNext]_harnessVars PROVE AnswerInv'
<1> SUFFICES ASSUME phase' = "body", task' \in {"service", "action"} PROVE AnswerInv'
  BY DEF AnswerInv
<1>1. /\ task \in AllTasks /\ Now = Program[step] /\ step \in 1..Len(Program) /\ Len(Program) \in Nat
      /\ Answers(task, Program) /\ Publishes(task, Program) /\ Reports(Program)
  BY ProgramIsSound DEF SurvivorInv, DriverTypes, Sound, Reports
<1>2. CASE WaitUntil \/ Spawn \/ StopRecorder \/ Call
  <2>1. /\ phase = "body" /\ Program' = Program /\ task' = task /\ step' = step + 1
        /\ step' \in 1..Len(Program)
    BY <1>2, GoesOn DEF SurvivorInv
  <2>2. inbox = <<>> /\ outbox = <<>> /\ got = <<>> /\ UNCHANGED <<inbox, outbox>>
    <3>1. step # Len(Program) 
      BY <1>1, <2>1
    <3> QED
      BY <1>2, <2>1, <3>1 DEF AnswerInv, WaitUntil, Spawn, StopRecorder, Call, msgVars
  <2>3. CASE Call
    <3>1. step = Len(Program) - 1
      BY <1>1, <2>3 DEF Call, In, Answers
    <3>2. got' = <<1>>
      BY <2>2, <2>3 DEF Call
    <3> QED
      BY <1>1, <2>1, <2>2, <3>1, <3>2 DEF AnswerInv
  <2>4. CASE WaitUntil \/ Spawn \/ StopRecorder
    <3>1. step # Len(Program) - 1
      BY <1>1, <2>1, <2>4 DEF WaitUntil, Spawn, StopRecorder, In, Answers
    <3>2. got' = <<>>
      BY <2>2, <2>4 DEF WaitUntil, Spawn, StopRecorder, msgVars
    <3> QED
      BY <1>1, <2>1, <2>2, <3>1, <3>2 DEF AnswerInv
  <2> QED
    BY <1>2, <2>3, <2>4
<1>3. CASE Publish
  <2>1. FALSE
    BY <1>1, <1>3 DEF Publish, In, Publishes, Replying, Go
  <2> QED
    BY <2>1
<1>4. CASE Emit \/ Forward \/ Lose \/ Collect
  <2>1. UNCHANGED <<task, phase>>
    BY <1>4 DEF Emit, Forward, Lose, Collect, Others, driverVars
  <2>2. FALSE
    BY <1>4, <2>1 DEF AnswerInv, Emit, Source, Forward, Lose, Collect
  <2> QED
    BY <2>2
<1>5. CASE UNCHANGED <<task, side, step, phase, traffic>>
  BY <1>5 DEF AnswerInv, Program, traffic
<1>6. CASE OtherSide
  <2>1. step' = 1 /\ Program' = Plan(task, 2) /\ inbox' = <<>> /\ outbox' = <<>> /\ got' = <<>>
    BY <1>6 DEF OtherSide, Program
  <2>2. Sound(task, Plan(task, 2))
    BY <1>1, PlansAreSound
  <2> QED
    BY <2>1, <2>2 DEF Sound, Reports, AnswerInv
<1> QED
  BY <1>2, <1>3, <1>4, <1>5, <1>6, Kinds

LEMMA BenchStep == ASSUME SurvivorInv, BenchInv, [HarnessNext]_harnessVars PROVE BenchInv'
<1> SUFFICES ASSUME phase' = "body", task' = "dds" PROVE BenchInv'
  BY DEF BenchInv
<1>1. /\ task \in AllTasks /\ Now = Program[step] /\ step \in 1..Len(Program) /\ Len(Program) \in Nat
      /\ Answers(task, Program) /\ Benches(task, Program)
      /\ proc \in [Roles -> {"none", "alive", "ok", "failed", "killed"}] /\ "sub" \in Roles
  BY ProgramIsSound DEF SurvivorInv, DriverTypes, Sound, Reports, Roles
<1>2. CASE WaitUntil
  <2>1. phase = "body" /\ task' = task /\ step' = step + 1 /\ UNCHANGED <<got, proc>> /\ Reached
    BY <1>2, GoesOn DEF SurvivorInv, WaitUntil, msgVars
  <2>2. step = 5 => proc["sub"] = "ok"
    BY <1>1, <2>1 DEF Reached, Benches
  <2> QED
    BY <1>1, <2>1, <2>2 DEF BenchInv
<1>3. CASE Spawn
  <2>1. phase = "body" /\ task' = task /\ step' = step + 1 /\ got' = got
    BY <1>3, GoesOn DEF SurvivorInv, Spawn, msgVars
  <2>2. Now.do = "start" /\ proc' = [proc EXCEPT ![Now.who] = "alive"]
    BY <1>3 DEF Spawn, In
  <2>3. step <= 4
    <3>1. task = "dds" /\ Len(Program) = 9
      BY <1>1, <2>1 DEF Benches
    <3>2. step \in 1..9 /\ Program[step].do = "start"
      BY <1>1, <2>2, <3>1
    <3> QED
      BY <1>1, <3>1, <3>2 DEF Benches
  <2>4. Now.who = "sub" => proc'["sub"] = "alive"
    BY <1>1, <2>2
  <2>5. Now.who # "sub" => proc'["sub"] = proc["sub"]
    BY <1>1, <2>2
  <2> QED
    BY <1>1, <2>1, <2>3, <2>4, <2>5 DEF BenchInv
<1>4. CASE Call \/ StopRecorder \/ Publish
  BY <1>1, <1>4, ProgramIsSound
  DEF Call, StopRecorder, Publish, In, Go, Answers, Benches, SurvivorInv, Sound, Publishes, Replying
<1>5. CASE Emit \/ Forward \/ Lose \/ Collect
  <2>1. UNCHANGED <<task, phase, step, proc>> /\ (got' = got \/ proc["sub"] = "alive")
    BY <1>5 DEF Emit, Forward, Lose, Collect, Others, driverVars, Alive
  <2> QED
    BY <2>1 DEF BenchInv
<1>6. CASE OtherSide
  BY <1>6 DEF OtherSide, BenchInv, Roles
<1>7. CASE UNCHANGED <<task, side, step, phase, traffic>>
  <2>1. task = "dds" /\ phase = "body" /\ UNCHANGED <<step, got>>
    BY <1>7 DEF traffic
  <2>2. CASE \E p \in Roles : Exit(p)
    <3>1. PICK p \in Roles : Exit(p)
      BY <2>2
    <3>2. CASE p = "sub"
      <4>1. proc["sub"] = "alive" /\ (proc'["sub"] = "ok" => got = Expected("dds"))
        BY <1>1, <2>1, <3>1, <3>2 DEF Exit, Completed, Alive
      <4> QED
        BY <2>1, <4>1 DEF BenchInv
    <3>3. CASE p # "sub"
      BY <1>1, <2>1, <3>1, <3>3 DEF Exit, BenchInv
    <3> QED
      BY <3>2, <3>3
  <2>3. CASE \E p \in Roles : Dies(p)
    BY <1>1, <2>1, <2>3 DEF Dies, BenchInv
  <2>4. CASE UNCHANGED proc
    BY <2>1, <2>4 DEF BenchInv
  <2> QED
    BY <1>1, <1>7, <2>1, <2>2, <2>3, <2>4
    DEF HarnessNext, Driver, External, harnessVars, Raise, Spawn, WaitUntil, Call, Publish, Go,
      StopRecorder, Deadline, ChildExit, Interrupt, SigTerm, WaitNext, KillLate, Finish, Abort,
      OtherSide, Compare, Discover, Emit, Forward, Lose, Collect, Others, Report
<1> QED
  BY <1>2, <1>3, <1>4, <1>5, <1>6, <1>7, Kinds

(* Messages 1..n and no others: there is no room for a loss. *)
LEMMA Complete ==
  ASSUME SurvivorInv, MessageTypes, FlowInv, SentInv, AwaitInv,
         task \in Replying, phase = "body", step = Len(Program)
  PROVE  got = Expected(task)
<1> DEFINE n == Outputs(task)
<1>1. n \in Nat /\ step \in Nat
  BY ProgramIsSound, OutputsType DEF SurvivorInv, DriverTypes, Sound, Reports
<1>2. sent \in Nat /\ got \in Seq(Nat) /\ inbox \in Seq(Nat) /\ outbox \in Seq(Nat)
  BY DEF MessageTypes
<1>3. sent <= n
  BY <1>1, <1>2 DEF SentInv
<1>4. Len(got) >= n
  BY DEF AwaitInv
<1>5. Held <= sent /\ Len(got) <= Held /\ Held \in Nat
  BY <1>2 DEF FlowInv, Held
<1>6. Len(got) = n /\ Held = sent
  BY <1>1, <1>2, <1>3, <1>4, <1>5
<1>7. \A i \in 1..Len(got) : got[i] = i
  BY <1>2, <1>5, <1>6 DEF FlowInv, Spaced
<1> QED
  BY <1>2, <1>6, <1>7 DEF Expected

LEMMA ReportIsGood ==
  ASSUME EarnedInv, Report, task # "check"
  PROVE  raised' \/ Good(task, result'[side])
<1> SUFFICES ASSUME ~raised' PROVE Good(task, result'[side])
  OBVIOUS
<1>1. /\ task \in AllTasks /\ side \in 1..2 /\ phase = "body" /\ step = Len(Program) /\ Outputs(task) \in Nat
      /\ result \in [1..2 -> Seq(Nat) \union {Nothing}] /\ got \in Seq(Nat)
  BY ProgramIsSound, OutputsType
  DEF EarnedInv, SurvivorInv, DriverTypes, MessageTypes, Report, In, Sound, Reports
<1>2. PICK seen : /\ seen = (CASE task \in {"timer", "callback", "capture"} -> FirstOf(got, Outputs(task))
                               [] task = "tf" -> <<1>>
                               [] OTHER -> got)
                  /\ result' = [result EXCEPT ![side] = seen]
                  /\ raised' = (task = "bag" /\ seen # Expected(task))
  BY DEF Report
<1>3. result'[side] = seen
  BY <1>1, <1>2
<1>4. CASE task \in Replying
  <2>1. got = Expected(task)
    BY <1>1, <1>4, Complete DEF EarnedInv
  <2>2. Len(got) = Outputs(task)
    BY <1>1, <2>1 DEF Expected
  <2>3. seen = FirstOf(got, Outputs(task)) \/ seen = got
    <3>1. CASE task = "callback"
      BY <1>2, <3>1
    <3>2. CASE task \in {"custom", "cpp"}
      BY <1>2, <3>2
    <3> QED
      BY <1>4, <3>1, <3>2 DEF Replying
  <2>4. seen = got
    BY <1>1, <2>2, <2>3, FirstFacts
  <2> QED
    BY <1>1, <1>3, <2>1, <2>2, <2>4 DEF Good
<1>5. CASE task \in {"timer", "capture"}
  <2>1. seen = FirstOf(got, Outputs(task))
    BY <1>2, <1>5
  <2>2. Len(got) >= Outputs(task)
    BY <1>1, <1>5 DEF EarnedInv, AwaitInv
  <2> QED
    BY <1>1, <1>3, <1>5, <2>1, <2>2, FirstFacts DEF Good, Replying
<1>6. CASE task \in {"service", "action"}
  <2>1. got = <<1>> /\ Outputs(task) = 1
    BY <1>1, <1>6, Wanted DEF EarnedInv, AnswerInv
  <2>2. seen = got
    BY <1>2, <1>6
  <2> QED
    BY <1>3, <1>6, <2>1, <2>2 DEF Good, Replying
<1>7. CASE task = "tf"
  <2>1. seen = <<1>>
    BY <1>2, <1>7
  <2> QED
    BY <1>3, <1>7, <2>1, Wanted DEF Good, Replying
<1>8. CASE task = "bag"
  <2>1. seen = Expected(task)
    BY <1>2, <1>8
  <2> QED
    BY <1>1, <1>3, <2>1 DEF Good, Expected
<1>9. CASE task = "dds"
  <2>1. Len(Program) = 9
    BY <1>9, ProgramIsSound DEF EarnedInv, SurvivorInv, Sound, Benches
  <2>2. got = Expected(task)
    BY <1>1, <1>9, <2>1 DEF EarnedInv, BenchInv
  <2>3. seen = got
    BY <1>2, <1>9
  <2> QED
    BY <1>1, <1>3, <2>2, <2>3 DEF Good, Expected
<1> QED
  BY <1>1, <1>4, <1>5, <1>6, <1>7, <1>8, <1>9 DEF AllTasks, Replying

LEMMA ResultStep == ASSUME EarnedInv, [HarnessNext]_harnessVars PROVE ResultInv'
<1>1. /\ ResultInv /\ side \in 1..2 /\ phase \in {"body", "term", "wait", "end", "done"}
      /\ result \in [1..2 -> Seq(Nat) \union {Nothing}]
  BY DEF EarnedInv, SurvivorInv, DriverTypes, MessageTypes
<1>2. CASE Report
  <2>1. UNCHANGED <<task, side, verdict>> /\ phase = "body" /\ phase' = "term"
    BY <1>2 DEF Report, In
  <2>2. side = 2 => result'[1] = result[1]
    BY <1>1, <1>2 DEF Report
  <2> QED
    BY <1>1, <1>2, <2>1, <2>2, ReportIsGood DEF ResultInv
<1>3. CASE OtherSide
  <2>1. /\ task' = task /\ side' = 2 /\ phase' = "body" /\ UNCHANGED <<result, verdict>>
        /\ phase = "end" /\ side = 1 /\ task # "check" /\ ~raised
    BY <1>3 DEF OtherSide
  <2> QED
    BY <1>1, <2>1 DEF ResultInv
<1>4. CASE Compare
  <2>1. /\ UNCHANGED <<task, side, result>> /\ phase' = "done"
        /\ phase = "end" /\ side = 2 /\ ~raised
    BY <1>4 DEF Compare
  <2>2. Good(task, result[1]) /\ Good(task, result[2])
    BY <1>1, <2>1 DEF ResultInv
  <2>3. ASSUME task = "timer", verdict' = "passed"
        PROVE  Consecutive(result[1]) /\ Consecutive(result[2])
    <3>1. verdict' = IF ValidationMatches(task) THEN "passed" ELSE "failed"
      BY <1>4, <2>3 DEF Compare
    <3>2. ValidationMatches(task)
      BY <2>3, <3>1
    <3> QED
      BY <2>3, <3>2 DEF ValidationMatches, TimerBehaviorMatches
  <2> QED
    BY <1>1, <2>1, <2>2, <2>3 DEF ResultInv
<1>5. CASE Deadline \/ ChildExit \/ Interrupt
  <2>1. UNCHANGED <<task, side, result, verdict>> /\ phase = "body" /\ raised'
    BY <1>5 DEF Deadline, ChildExit, Interrupt, Raise, In
  <2> QED
    BY <1>1, <2>1 DEF ResultInv
<1>6. CASE SigTerm \/ Finish
  <2>1. UNCHANGED <<task, side, raised, result, verdict>> /\ phase \in {"term", "wait"}
    BY <1>6 DEF SigTerm, Finish
  <2> QED
    BY <1>1, <2>1 DEF ResultInv
<1>7. CASE Abort
  <2>1. UNCHANGED <<task, side, raised, result, verdict>> /\ phase = "end" /\ phase' = "done"
    BY <1>7 DEF Abort
  <2> QED
    BY <1>1, <2>1 DEF ResultInv
<1>8. CASE UNCHANGED <<task, side, phase, raised, result, verdict>>
  BY <1>1, <1>8 DEF ResultInv
<1> QED
  BY <1>2, <1>3, <1>4, <1>5, <1>6, <1>7, <1>8
  DEF HarnessNext, Driver, External, harnessVars, driverVars, Spawn, WaitUntil, Call, Publish, Go, StopRecorder,
      WaitNext, KillLate, Exit, Dies, Discover, Emit, Forward, Lose, Collect, Others

(* A comparison passes only on two complete reports, whatever is lost,     *)
(* late or interrupted (compare_migration_validation.py:13,                *)
(* benchmark_dds.py:56).                                                   *)
THEOREM PassesAreEarned == HarnessSpec => []EquivalenceIsEarned
<1>1. HarnessInit => EarnedInv
  <2> SUFFICES ASSUME HarnessInit PROVE EarnedInv
    OBVIOUS
  <2>1. /\ side = 1 /\ step = 1 /\ phase = "body" /\ proc = [p \in Roles |-> "none"]
        /\ sent = 0 /\ inbox = <<>> /\ outbox = <<>> /\ got = <<>>
        /\ result = [s \in 1..2 |-> Nothing] /\ verdict = Nothing
    BY DEF HarnessInit
  <2>2. SurvivorInv
    BY SurvivorStart
  <2>3. Len(Program) >= 2 /\ Len(Program) \in Nat
    BY <2>2, ProgramIsSound DEF SurvivorInv, Sound, Reports
  <2>4. MessageTypes
    BY <2>1 DEF MessageTypes
  <2>5. FlowInv /\ SentInv
    BY <2>1 DEF FlowInv, SentInv, Held, Spaced
  <2>6. AwaitInv /\ AnswerInv
    <3>1. step # Len(Program)
      BY <2>1, <2>3
    <3> QED
      BY <2>1, <3>1 DEF AwaitInv, AnswerInv
  <2>7. BenchInv
    BY <2>1 DEF BenchInv, Roles
  <2>8. ResultInv
    BY <2>1, NothingAssumption DEF ResultInv
  <2> QED
    BY <2>2, <2>4, <2>5, <2>6, <2>7, <2>8 DEF EarnedInv
<1>2. EarnedInv /\ [HarnessNext]_harnessVars => EarnedInv'
  BY SurvivorStep, MessageTypesStep, FlowStep, SentStep, AwaitStep, AnswerStep, BenchStep, ResultStep
  DEF EarnedInv
<1>3. ASSUME EarnedInv PROVE EquivalenceIsEarned
  <2> SUFFICES ASSUME verdict = "passed", NEW s \in 1..2
        PROVE  /\ result[s] # Nothing /\ Len(result[s]) = Outputs(task)
               /\ task \in {"timer", "callback", "custom", "cpp", "bag", "dds"} => Consecutive(result[s])
               /\ task \in {"callback", "custom", "cpp", "bag", "dds"} => result[s] = Expected(task)
    BY DEF EquivalenceIsEarned
  <2>2. task \in AllTasks /\ Good(task, result[s])
    BY <1>3 DEF EarnedInv, ResultInv, SurvivorInv, DriverTypes
  <2>3. result[s] # Nothing /\ Len(result[s]) = Outputs(task)
    BY <2>2, NothingAssumption DEF Good
  <2>4. task \in {"callback", "custom", "cpp", "bag", "dds"} => result[s] = Expected(task)
    BY <2>2 DEF Good, Replying
  <2>5. Consecutive(Expected(task))
    BY <2>2, OutputsType DEF Consecutive, Expected
  <2>6. task = "timer" => Consecutive(result[s])
    BY <1>3 DEF EarnedInv, ResultInv
  <2> QED
    BY <2>3, <2>4, <2>5, <2>6
<1> QED
  BY <1>1, <1>2, <1>3, PTL DEF HarnessSpec
=============================================================================
