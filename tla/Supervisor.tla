----------------------------- MODULE Supervisor -----------------------------
(***************************************************************************)
(* The Go control plane of ROSPlus: workspaces, the nodes run in them, and *)
(* the goroutines that start, watch, restart and stop those nodes          *)
(* (pkg/server/process.go, the handlers of server.go, the sweep that       *)
(* follows an E-Stop in safety.go).                                        *)
(*                                                                         *)
(* Every section of the code that runs under Server.mu is one action, so   *)
(* that mutex does not appear; Workspace.BuildMu is held across blocking   *)
(* calls and is the variable buildMu.  A goroutine is a thread with a      *)
(* program counter; the function Server.stop, called by four of them, is   *)
(* the part of a thread's state made of todo, cur and phase.               *)
(***************************************************************************)
EXTENDS Naturals, FiniteSets

CONSTANTS
  Workspaces,    \* Workspace objects; a UUID is never used twice.
  Names,         \* Node names: the keys of Workspace.Nodes.
  Nodes,         \* Node objects; one is used by each accepted run.
  Clients,       \* HTTP handler goroutines.
  Loop,          \* The goroutine of safetyLoop.
  Closer,        \* The goroutine that calls Server.Close.
  Requests,      \* RunRequests that pass validation (mode, restart, max).
  MaxRestarts,   \* The largest max_restarts accepted (100 in the code).
  Safety,        \* Whether StartSafety was called: Server.safety # nil.
  None           \* Go's nil.

Modes    == {"native", "legacy"}
Policies == {"never", "on-failure", "always"}
Gens     == 1 .. (MaxRestarts + 1)       \* Generations: successful starts.
Threads  == Clients \union {Loop, Closer}
Sweepers == {Loop, Closer}

ASSUME MaxRestartsAssumption == MaxRestarts \in Nat
ASSUME RequestsAssumption ==
  Requests \subseteq [mode: Modes, restart: Policies, max: 0 .. MaxRestarts]
ASSUME SafetyAssumption == Safety \in BOOLEAN
ASSUME ThreadAssumption ==
  Loop \notin Clients /\ Closer \notin Clients /\ Loop # Closer
ASSUME NoneAssumption ==
  None \notin Workspaces \union Names \union Nodes \union Threads \union Requests

VARIABLES
  \* Server and Workspace
  made,      \* workspaces created so far
  items,     \* Server.items
  closing,   \* Server.closing
  table,     \* Workspace.Nodes: table[w][name]
  wstatus,   \* Workspace.Status
  building,  \* Workspace.Building
  buildMu,   \* holder of Workspace.BuildMu
  \* Node
  home,      \* the workspace the node was run in
  name,      \* Node.Name
  req,       \* Node.request
  status,    \* Node.Status
  stopping,  \* Node.stopping
  restarts,  \* Node.Restarts
  gen,       \* the generation Node.cmd belongs to
  closes,    \* how many times Node.done was closed; closing it twice panics
  \* one child process and one capture goroutine per generation
  proc, waiter,
  \* Safety
  estop,
  \* threads
  pc, ws, sweep, todo, cur, phase

wsVars     == <<made, items, closing, table, wstatus, building, buildMu>>
nodeVars   == <<home, name, req, status, stopping, restarts, gen, closes>>
runVars    == <<proc, waiter>>
stopVars   == <<todo, cur, phase>>
threadVars == <<pc, ws, sweep, todo, cur, phase>>
vars       == <<wsVars, nodeVars, runVars, estop, threadVars>>

-----------------------------------------------------------------------------
Active(n)  == status[n] \in {"running", "starting"}
Ended(n)   == status[n] \in {"stopped", "error"}
NodesOf(w) == {table[w][k] : k \in Names} \ {None}
Alive(n)   == \E g \in Gens : proc[<<n, g>>] \in {"alive", "killed"}

WorkspaceTypes ==
  /\ made \in SUBSET Workspaces /\ items \in SUBSET Workspaces
  /\ closing \in BOOLEAN /\ estop \in BOOLEAN
  /\ table \in [Workspaces -> [Names -> Nodes \union {None}]]
  /\ wstatus \in [Workspaces -> {"idle", "building", "running", "error"}]
  /\ building \in [Workspaces -> BOOLEAN]
  /\ buildMu \in [Workspaces -> Clients \union {None}]

NodeTypes ==
  /\ home \in [Nodes -> Workspaces \union {None}]
  /\ name \in [Nodes -> Names \union {None}]
  /\ req \in [Nodes -> Requests \union {None}]
  /\ status \in [Nodes -> {"absent", "starting", "running", "stopped", "error"}]
  /\ stopping \in [Nodes -> BOOLEAN]
  /\ restarts \in [Nodes -> 0 .. MaxRestarts]
  /\ gen \in [Nodes -> 0 .. (MaxRestarts + 1)]
  /\ closes \in [Nodes -> Nat]
  /\ proc \in [Nodes \X Gens -> {"none", "alive", "killed", "ok", "failed"}]
  /\ waiter \in [Nodes \X Gens -> {"none", "capture", "restart", "gone"}]

Labels == {"idle", "run", "stop", "stopping", "delete", "deleting", "build", "building",
           "watch", "tripped", "sweep", "sweeping", "swept", "halted",
           "open", "draining", "closed"}

ThreadTypes ==
  /\ pc \in [Threads -> Labels]
  /\ ws \in [Threads -> Workspaces \union {None}]
  /\ sweep \in [Threads -> SUBSET Workspaces]
  /\ todo \in [Threads -> SUBSET Nodes]
  /\ cur \in [Threads -> Nodes \union {None}]
  /\ phase \in [Threads -> {"term", "kill"}]

TypeOK == WorkspaceTypes /\ NodeTypes /\ ThreadTypes

(* New() registers the workspaces found on disk, without nodes. *)
Init ==
  /\ items \in SUBSET Workspaces /\ made = items
  /\ closing = FALSE /\ estop = FALSE
  /\ table = [w \in Workspaces |-> [k \in Names |-> None]]
  /\ wstatus = [w \in Workspaces |-> "idle"]
  /\ building = [w \in Workspaces |-> FALSE]
  /\ buildMu = [w \in Workspaces |-> None]
  /\ home = [n \in Nodes |-> None]
  /\ name = [n \in Nodes |-> None]
  /\ req = [n \in Nodes |-> None]
  /\ status = [n \in Nodes |-> "absent"]
  /\ stopping = [n \in Nodes |-> FALSE]
  /\ restarts = [n \in Nodes |-> 0]
  /\ gen = [n \in Nodes |-> 0]
  /\ closes = [n \in Nodes |-> 0]
  /\ proc = [r \in Nodes \X Gens |-> "none"]
  /\ waiter = [r \in Nodes \X Gens |-> "none"]
  /\ pc = [t \in Threads |-> IF t \in Clients THEN "idle"
                             ELSE IF t = Closer THEN "open"
                             ELSE IF Safety THEN "watch" ELSE "halted"]
  /\ ws = [t \in Threads |-> None]
  /\ sweep = [t \in Threads |-> {}]
  /\ todo = [t \in Threads |-> {}]
  /\ cur = [t \in Threads |-> None]
  /\ phase = [t \in Threads |-> "term"]

-----------------------------------------------------------------------------
(* HTTP handlers: the lookup in Server.items, then the operation.  Where a *)
(* definition is preceded by one whose name starts with Bug, the latter is *)
(* a plausible mistake in the same code, which the properties must notice. *)

BugBuildMuFree(w) == TRUE                        \* the lock is forgotten
BuildMuFree(w)    == buildMu[w] = None

BugBuildMuUnlock(w) == UNCHANGED buildMu         \* a return without unlocking
BuildMuUnlock(w)    == buildMu' = [buildMu EXCEPT ![w] = None]

Receive(c, op) ==
  /\ pc[c] = "idle"
  /\ \E w \in items : ws' = [ws EXCEPT ![c] = w]
  /\ pc' = [pc EXCEPT ![c] = op]
  /\ UNCHANGED <<wsVars, nodeVars, runVars, estop, sweep, stopVars>>

Answer(c) == pc' = [pc EXCEPT ![c] = "idle"] /\ ws' = [ws EXCEPT ![c] = None]

Create(c) ==
  /\ pc[c] = "idle"
  /\ ~closing
  /\ \E w \in Workspaces \ made : made' = made \union {w} /\ items' = items \union {w}
  /\ UNCHANGED <<closing, table, wstatus, building, buildMu, nodeVars, runVars,
                 estop, threadVars>>

(* The effects of start() on a node of workspace w, when nothing fails. *)
Start(n, w) ==
  /\ gen' = [gen EXCEPT ![n] = gen[n] + 1]
  /\ proc' = [proc EXCEPT ![<<n, gen[n] + 1>>] = "alive"]
  /\ status' = [status EXCEPT ![n] = "running"]
  /\ wstatus' = [wstatus EXCEPT ![w] = "running"]

(* A request is refused for an invalid field, a target that cannot be      *)
(* started, or one of the guards of RunAccepted: nothing changes.          *)
RunRefused(c) ==
  /\ pc[c] = "run" /\ BuildMuFree(ws[c])
  /\ Answer(c)
  /\ UNCHANGED <<wsVars, nodeVars, runVars, estop, sweep, stopVars>>

(* The node of this name, if any, is neither running nor starting. *)
BugNameFree(w, k) == table[w][k] # None => status[table[w][k]] # "running"
NameFree(w, k)    == table[w][k] # None => ~Active(table[w][k])

BugAdmits(w, k)     == ~closing /\ w \in items /\ NameFree(w, k)
BugAdmitsGone(w, k) == ~estop /\ ~closing /\ NameFree(w, k)
Admits(w, k)        == ~estop /\ ~closing /\ w \in items /\ NameFree(w, k)

RunAccepted(c, n, k, r) ==
  LET w == ws[c] IN
  /\ pc[c] = "run" /\ BuildMuFree(w)
  /\ status[n] = "absent"
  /\ Admits(w, k)
  /\ home' = [home EXCEPT ![n] = w]
  /\ name' = [name EXCEPT ![n] = k]
  /\ req' = [req EXCEPT ![n] = r]
  /\ Start(n, w)
  /\ waiter' = [waiter EXCEPT ![<<n, gen[n] + 1>>] = "capture"]
  /\ table' = [table EXCEPT ![w][k] = n]
  /\ Answer(c)
  /\ UNCHANGED <<made, items, closing, building, buildMu, stopping, restarts,
                 closes, estop, sweep, stopVars>>

-----------------------------------------------------------------------------
(* capture(): one goroutine per generation.                                *)

(* The child leaves and its output reaches end of file. *)
ProcessExit(n, g) ==
  /\ proc[<<n, g>>] = "alive"
  /\ \E outcome \in {"ok", "failed"} : proc' = [proc EXCEPT ![<<n, g>>] = outcome]
  /\ UNCHANGED <<wsVars, nodeVars, waiter, estop, threadVars>>

(* SIGKILL takes effect. *)
ProcessDies(n, g) ==
  /\ proc[<<n, g>>] = "killed"
  /\ proc' = [proc EXCEPT ![<<n, g>>] = "failed"]
  /\ UNCHANGED <<wsVars, nodeVars, waiter, estop, threadVars>>

NativeFailure(n, g) == req[n].mode = "native" /\ proc[<<n, g>>] = "failed" /\ ~stopping[n]

BugRestarts(n, g) ==          \* a native failure is an exit like any other
  /\ ~stopping[n] /\ ~closing
  /\ restarts[n] < req[n].max
  /\ \/ req[n].restart = "always"
     \/ req[n].restart = "on-failure" /\ proc[<<n, g>>] = "failed"

BugRestartsOnce(n, g) ==      \* one restart too many
  /\ ~NativeFailure(n, g) /\ ~stopping[n] /\ ~closing
  /\ restarts[n] <= req[n].max
  /\ \/ req[n].restart = "always"
     \/ req[n].restart = "on-failure" /\ proc[<<n, g>>] = "failed"

Restarts(n, g) ==
  /\ ~NativeFailure(n, g) /\ ~stopping[n] /\ ~closing
  /\ restarts[n] < req[n].max
  /\ \/ req[n].restart = "always"
     \/ req[n].restart = "on-failure" /\ proc[<<n, g>>] = "failed"

(* The end of capture: the generation is the node's last. *)
Finish(n, g) ==
  LET w    == home[n]
      last == IF proc[<<n, g>>] = "failed" /\ ~stopping[n] THEN "error" ELSE "stopped"
  IN
  /\ status' = [status EXCEPT ![n] = last]
  /\ wstatus' = [wstatus EXCEPT ![w] =
                   IF \E m \in NodesOf(w) \ {n} : Active(m) THEN wstatus[w]
                   ELSE IF last = "error" THEN "error" ELSE "idle"]
  /\ closes' = [closes EXCEPT ![n] = @ + 1]
  /\ waiter' = [waiter EXCEPT ![<<n, g>>] = "gone"]

CaptureExit(n, g) ==
  /\ waiter[<<n, g>>] = "capture" /\ proc[<<n, g>>] \in {"ok", "failed"}
  /\ estop' = (estop \/ (Safety /\ NativeFailure(n, g)))
  /\ \/ /\ Restarts(n, g)
        /\ restarts' = [restarts EXCEPT ![n] = @ + 1]
        /\ status' = [status EXCEPT ![n] = "starting"]
        /\ waiter' = [waiter EXCEPT ![<<n, g>>] = "restart"]
        /\ UNCHANGED <<wstatus, closes>>
     \/ /\ ~Restarts(n, g)
        /\ Finish(n, g)
        /\ UNCHANGED restarts
  /\ UNCHANGED <<made, items, closing, table, building, buildMu, home, name, req,
                 stopping, gen, proc, threadVars>>

(* The node was stopped, or the server closed, during the sleep. *)
BugOvertaken(n) == closing
BugOvertakenByClose(n) == stopping[n]
Overtaken(n)    == stopping[n] \/ closing

(* The waiter of the new generation replaces that of the old one, which    *)
(* returns without touching the node.                                      *)
BugRelieve(n, g) == waiter' = [waiter EXCEPT ![<<n, gen[n] + 1>>] = "capture"]
Relieve(n, g)    ==
  waiter' = [waiter EXCEPT ![<<n, g>>] = "gone", ![<<n, gen[n] + 1>>] = "capture"]

(* After the 100 ms sleep: the restart, unless it was overtaken or fails. *)
RestartWake(n, g) ==
  /\ waiter[<<n, g>>] = "restart"
  /\ \/ /\ ~Overtaken(n)
        /\ Start(n, home[n])
        /\ Relieve(n, g)
        /\ UNCHANGED closes
     \/ /\ Finish(n, g)
        /\ UNCHANGED <<gen, proc>>
  /\ UNCHANGED <<made, items, closing, table, building, buildMu, home, name, req,
                 stopping, restarts, estop, threadVars>>

-----------------------------------------------------------------------------
(* Server.stop, as a part of the thread t that calls it.                   *)

(* Wait for the nodes of S one after the other, in map iteration order. *)
WaitFor(t, S) ==
  /\ todo' = [todo EXCEPT ![t] = S]
  /\ \E n \in S \union {None} : (n = None <=> S = {}) /\ cur' = [cur EXCEPT ![t] = n]
  /\ phase' = [phase EXCEPT ![t] = "term"]

(* Under Server.mu: mark and SIGTERM every active node called k, or all of *)
(* them.  A process may always leave by itself, so SIGTERM has no effect   *)
(* of its own here, and a process may ignore it.                           *)
BugVictims(w, ks) == {n \in NodesOf(w) : status[n] = "running" /\ name[n] \in ks}
Victims(w, ks)    == {n \in NodesOf(w) : Active(n) /\ name[n] \in ks}

Mark(t, w, ks) ==
  /\ stopping' = [n \in Nodes |-> stopping[n] \/ n \in Victims(w, ks)]
  /\ WaitFor(t, Victims(w, ks))

NodeDone(t) ==
  /\ cur[t] # None /\ closes[cur[t]] > 0
  /\ WaitFor(t, todo[t] \ {cur[t]})
  /\ UNCHANGED <<wsVars, nodeVars, runVars, estop, pc, ws, sweep>>

(* The two-second timer: SIGKILL to the group of Node.cmd. *)
BugTermTimeout(t) == FALSE
TermTimeout(t) ==
  LET n == cur[t] IN
  /\ n # None /\ phase[t] = "term"
  /\ phase' = [phase EXCEPT ![t] = "kill"]
  /\ proc' = [proc EXCEPT ![<<n, gen[n]>>] = IF @ = "alive" THEN "killed" ELSE @]
  /\ UNCHANGED <<wsVars, nodeVars, waiter, estop, pc, ws, sweep, todo, cur>>

(* The one-second timer: give up on this node and count it as stopped. *)
KillTimeout(t) ==
  /\ cur[t] # None /\ phase[t] = "kill"
  /\ WaitFor(t, todo[t] \ {cur[t]})
  /\ UNCHANGED <<wsVars, nodeVars, runVars, estop, pc, ws, sweep>>

StopMark(c) ==
  /\ pc[c] = "stop"
  /\ \E ks \in {{k} : k \in Names} \union {Names} : Mark(c, ws[c], ks)
  /\ pc' = [pc EXCEPT ![c] = "stopping"]
  /\ UNCHANGED <<wsVars, home, name, req, status, restarts, gen, closes, runVars,
                 estop, ws, sweep>>

StopReturn(c) ==
  /\ pc[c] = "stopping" /\ cur[c] = None
  /\ Answer(c)
  /\ UNCHANGED <<wsVars, nodeVars, runVars, estop, sweep, stopVars>>

-----------------------------------------------------------------------------
(* DELETE of a workspace and POST build: both hold BuildMu.                *)

DeleteMark(c) ==
  /\ pc[c] = "delete" /\ BuildMuFree(ws[c])
  /\ buildMu' = [buildMu EXCEPT ![ws[c]] = c]
  /\ Mark(c, ws[c], Names)
  /\ pc' = [pc EXCEPT ![c] = "deleting"]
  /\ UNCHANGED <<made, items, closing, table, wstatus, building, home, name, req,
                 status, restarts, gen, closes, runVars, estop, ws, sweep>>

(* RemoveAll may fail, and then the workspace stays registered. *)
DeleteRemove(c) ==
  /\ pc[c] = "deleting" /\ cur[c] = None
  /\ items' \in {items, items \ {ws[c]}}
  /\ BuildMuUnlock(ws[c])
  /\ Answer(c)
  /\ UNCHANGED <<made, closing, table, wstatus, building, nodeVars, runVars, estop,
                 sweep, stopVars>>

BuildBegin(c) ==
  /\ pc[c] = "build" /\ BuildMuFree(ws[c])
  /\ ws[c] \in items /\ ~closing
  /\ buildMu' = [buildMu EXCEPT ![ws[c]] = c]
  /\ building' = [building EXCEPT ![ws[c]] = TRUE]
  /\ wstatus' = [wstatus EXCEPT ![ws[c]] = "building"]
  /\ pc' = [pc EXCEPT ![c] = "building"]
  /\ UNCHANGED <<made, items, closing, table, nodeVars, runVars, estop, ws, sweep,
                 stopVars>>

BuildRefused(c) ==
  /\ pc[c] = "build" /\ BuildMuFree(ws[c])
  /\ ws[c] \notin items \/ closing
  /\ Answer(c)
  /\ UNCHANGED <<wsVars, nodeVars, runVars, estop, sweep, stopVars>>

BugStatusAfterBuild(w) == "idle"
StatusAfterBuild(w)    ==
  IF \E n \in NodesOf(w) : status[n] = "running" THEN "running" ELSE "idle"

(* The commands ran, or one failed; the deferred function sets the status. *)
BuildEnd(c) ==
  LET w == ws[c] IN
  /\ pc[c] = "building"
  /\ building' = [building EXCEPT ![w] = FALSE]
  /\ wstatus' = [wstatus EXCEPT ![w] = StatusAfterBuild(w)]
  /\ BuildMuUnlock(w)
  /\ Answer(c)
  /\ UNCHANGED <<made, items, closing, table, nodeVars, runVars, estop, sweep,
                 stopVars>>

-----------------------------------------------------------------------------
(* safetyLoop and Close.  Why a tick latches E-Stop is the subject of      *)
(* module SafetyChain; here any tick may.                                  *)

SafetyTick ==
  /\ pc[Loop] = "watch"
  /\ \E bad \in BOOLEAN : estop' = (estop \/ bad)
  /\ pc' = [pc EXCEPT ![Loop] = IF estop' THEN "tripped" ELSE "watch"]
  /\ UNCHANGED <<wsVars, nodeVars, runVars, ws, sweep, stopVars>>

SafetySnapshot ==
  /\ pc[Loop] = "tripped"
  /\ sweep' = [sweep EXCEPT ![Loop] = items]
  /\ pc' = [pc EXCEPT ![Loop] = "sweep"]
  /\ UNCHANGED <<wsVars, nodeVars, runVars, estop, ws, stopVars>>

(* The select took the stop channel, which Close closed. *)
SafetyHalt ==
  /\ pc[Loop] = "watch" /\ pc[Closer] # "open"
  /\ pc' = [pc EXCEPT ![Loop] = "halted"]
  /\ UNCHANGED <<wsVars, nodeVars, runVars, estop, ws, sweep, stopVars>>

(* main() calls Close on a signal and again when the HTTP server returns. *)
CloseBegin ==
  /\ pc[Closer] \in {"open", "closed"}
  /\ pc' = [pc EXCEPT ![Closer] = "draining"]
  /\ UNCHANGED <<wsVars, nodeVars, runVars, estop, ws, sweep, stopVars>>

(* The loop has ended (or there is none): refuse requests, snapshot items. *)
CloseAdmission ==
  /\ pc[Closer] = "draining" /\ pc[Loop] \in {"swept", "halted"}
  /\ closing' = TRUE
  /\ sweep' = [sweep EXCEPT ![Closer] = items]
  /\ pc' = [pc EXCEPT ![Closer] = "sweep"]
  /\ UNCHANGED <<made, items, table, wstatus, building, buildMu, nodeVars, runVars,
                 estop, ws, stopVars>>

SweepMark(t) ==
  /\ pc[t] = "sweep"
  /\ \E w \in sweep[t] :
       Mark(t, w, Names) /\ sweep' = [sweep EXCEPT ![t] = sweep[t] \ {w}]
  /\ pc' = [pc EXCEPT ![t] = "sweeping"]
  /\ UNCHANGED <<wsVars, home, name, req, status, restarts, gen, closes, runVars,
                 estop, ws>>

SweepReturn(t) ==
  /\ pc[t] = "sweeping" /\ cur[t] = None
  /\ pc' = [pc EXCEPT ![t] = "sweep"]
  /\ UNCHANGED <<wsVars, nodeVars, runVars, estop, ws, sweep, stopVars>>

SweepEnd(t) ==
  /\ pc[t] = "sweep" /\ sweep[t] = {}
  /\ pc' = [pc EXCEPT ![t] = IF t = Loop THEN "swept" ELSE "closed"]
  /\ UNCHANGED <<wsVars, nodeVars, runVars, estop, ws, sweep, stopVars>>

-----------------------------------------------------------------------------
Stopping(t) == NodeDone(t) \/ TermTimeout(t) \/ KillTimeout(t)

Handler(c) ==
  \/ RunRefused(c)
  \/ \E n \in Nodes, k \in Names, r \in Requests : RunAccepted(c, n, k, r)
  \/ StopMark(c) \/ StopReturn(c)
  \/ DeleteMark(c) \/ DeleteRemove(c)
  \/ BuildBegin(c) \/ BuildRefused(c) \/ BuildEnd(c)

Sweeping(t) == SweepMark(t) \/ SweepReturn(t) \/ SweepEnd(t)

Capture(n, g) == CaptureExit(n, g) \/ RestartWake(n, g)

Next ==
  \/ \E c \in Clients :
       \/ \E op \in {"run", "stop", "delete", "build"} : Receive(c, op)
       \/ Create(c)
       \/ Handler(c)
  \/ \E n \in Nodes, g \in Gens : ProcessExit(n, g) \/ ProcessDies(n, g) \/ Capture(n, g)
  \/ \E t \in Threads : Stopping(t)
  \/ \E t \in Sweepers : Sweeping(t)
  \/ SafetyTick \/ SafetySnapshot \/ SafetyHalt
  \/ CloseBegin \/ CloseAdmission

Spec == Init /\ [][Next]_vars

(***************************************************************************)
(* Fairness.  A goroutine that can run eventually runs, timers fire, a     *)
(* killed process dies; a tick is only obliged to notice a latched E-Stop, *)
(* never to latch one.  Handlers that wait for BuildMu need strong        *)
(* fairness: sync.Mutex hands the lock over after a millisecond of waiting *)
(* (starvation mode).  Requests, Create, Close and a voluntary exit of a   *)
(* process are never obliged to happen.                                    *)
(***************************************************************************)
Fairness ==
  /\ \A c \in Clients : SF_vars(Handler(c))
  /\ \A n \in Nodes, g \in Gens : WF_vars(ProcessDies(n, g)) /\ WF_vars(Capture(n, g))
  /\ \A t \in Threads : WF_vars(Stopping(t))
  /\ \A t \in Sweepers : WF_vars(Sweeping(t))
  /\ WF_vars(SafetyTick /\ estop) /\ WF_vars(SafetySnapshot) /\ WF_vars(SafetyHalt)
  /\ WF_vars(CloseAdmission)

FairSpec == Spec /\ Fairness

-----------------------------------------------------------------------------
(* Safety.                                                                 *)

(* start(): "Each generation has exactly one waiter."  An active node is   *)
(* watched by the one goroutine of its current generation, an ended one by *)
(* none, and no child outlives its waiter.                                 *)
OneWaiter ==
  \A n \in Nodes :
    LET W == {g \in Gens : waiter[<<n, g>>] \in {"capture", "restart"}} IN
    /\ W = IF Active(n) THEN {gen[n]} ELSE {}
    /\ \A g \in Gens : proc[<<n, g>>] \in {"alive", "killed"} => waiter[<<n, g>>] = "capture"

(* capture() closes Node.done exactly when the node ends, and never twice: *)
(* a second close would panic the whole service, and a node that ended     *)
(* without it would make stop() wait for its timers.                       *)
DoneClosedOnce == \A n \in Nodes : closes[n] = IF Ended(n) THEN 1 ELSE 0

(* run(): duplicates are rejected.  Two processes of one name never live   *)
(* in a workspace together, not even around a restart.                     *)
OneProcessPerName ==
  \A m, n \in Nodes :
    m # n /\ Alive(m) /\ Alive(n) => home[m] # home[n] \/ name[m] # name[n]

(* Workspace.Status, written by start, capture and build, agrees with the  *)
(* nodes: "building" only during a build, "running" when a node runs and   *)
(* no build does, and only when some node is running or about to.          *)
StatusFaithful ==
  \A w \in Workspaces :
    /\ wstatus[w] = "building" => building[w]
    /\ ~building[w] /\ (\E n \in NodesOf(w) : status[n] = "running")
         => wstatus[w] = "running"
    /\ wstatus[w] = "running" => \E n \in NodesOf(w) : Active(n)

(* BuildMu: a build keeps its workspace, and no DELETE is between its stop *)
(* and its RemoveAll while the build's commands run there.                 *)
BuildUndisturbed ==
  \A w \in Workspaces :
    building[w] => /\ w \in items
                   /\ ~ \E c \in Clients : pc[c] = "deleting" /\ ws[c] = w

(* The sweep of an E-Stop, and that of Close, reach every node: when one   *)
(* is over, each node still active has been told to stop, wherever it was  *)
(* started meanwhile and whichever node was asleep before a restart.       *)
SweepComplete ==
  \A t \in Sweepers :
    pc[t] \in {"swept", "closed"} => \A n \in Nodes : Active(n) => stopping[n]

(* stop() reads Node.cmd outside Server.mu when its timer fires.  That is  *)
(* sound because a node told to stop never gets another generation.        *)
StoppingFreezesGeneration ==
  [][\A n \in Nodes : stopping[n] => gen'[n] = gen[n] /\ stopping'[n]]_vars

(* No process is started in a workspace that was deleted (its directory is *)
(* gone), nor once Close has set closing, by a run or by a restart.        *)
StartsAdmitted ==
  [][\A n \in Nodes : gen'[n] # gen[n] => home'[n] \in items /\ ~closing]_vars

(* capture() decides to restart, sleeps, and starts: what is started is    *)
(* within the budget, the policy allows it for the way the last generation *)
(* ended, and a native executor that failed is never started again.        *)
RestartPolicyKept ==
  [][\A n \in Nodes :
       gen[n] > 0 /\ gen'[n] # gen[n] =>
         /\ gen'[n] = gen[n] + 1 /\ gen[n] <= req[n].max
         /\ proc[<<n, gen[n]>>] \in {"ok", "failed"}
         /\ req[n].restart # "never"
         /\ req[n].restart = "on-failure" => proc[<<n, gen[n]>>] = "failed"
         /\ req[n].mode = "native" => proc[<<n, gen[n]>>] = "ok"]_vars

(* The service as a client sees it: for each name, the status and restarts *)
(* that GET shows of the node last run under it, the request it was run    *)
(* with, and whether it was told to stop.  The goroutines of run, capture, *)
(* stop, DELETE, safetyLoop and Close together keep the promises of module *)
(* NodeService: a name is one node at a time, which no goroutine of an     *)
(* earlier one touches, and none of them brings back what another ended.   *)
Shown(w, k) ==
  LET n == table[w][k] IN
  IF n = None THEN [status |-> "absent", restarts |-> 0, asked |-> FALSE, order |-> None]
  ELSE [status |-> status[n], restarts |-> restarts[n], asked |-> stopping[n], order |-> req[n]]

Service == INSTANCE NodeService WITH
  known  <- made,
  listed <- items,
  mode   <- IF closing THEN "closed" ELSE IF estop THEN "tripped" ELSE "open",
  shown  <- [p \in Workspaces \X Names |-> Shown(p[1], p[2])]

ImplementsService == Service!Spec

(* openapi.yaml, DELETE: "Stops all running nodes before deleting the      *)
(* workspace."  It does not hold: stop() gives up after three seconds.     *)
DeletedWorkspacesAreStopped ==
  \A n \in Nodes : Alive(n) => home[n] \in items

-----------------------------------------------------------------------------
(* Liveness.                                                               *)

Quiet == \A n \in Nodes : ~Active(n)

(* A latched E-Stop ends every supervised process group and nothing runs   *)
(* afterwards, whichever of the loop and Close gets to it.                 *)
EStopQuiesces == estop ~> []Quiet

(* Close returns, however the safety loop and the handlers interleave with *)
(* it.                                                                     *)
CloseReturns == pc[Closer] = "draining" ~> (pc[Closer] = "closed")

(* Every request is answered: BuildMu, the stop timers and the children    *)
(* never hold up a handler forever.                                        *)
RequestsAnswered == \A c \in Clients : pc[c] # "idle" ~> pc[c] = "idle"
=============================================================================
