------------------------------ MODULE Reference ------------------------------
(***************************************************************************)
(* The Python reference of the control plane: WorkspaceManager,            *)
(* ProcessManager and the handlers of its threaded HTTP server             *)
(* (src/rosplus/workspace.py, process.py, server.py, models.py).           *)
(*                                                                         *)
(* Each request runs in a thread of its own, and each process has a thread *)
(* that captures its output.  The two managers lock different locks, and   *)
(* most of the code takes none of them, so a thread may be preempted       *)
(* between any two statements that touch shared state: each is an action.  *)
(***************************************************************************)
EXTENDS Naturals, FiniteSets

CONSTANTS
  Idents,    \* UUIDs of workspaces.
  Names,     \* Names of nodes: the stem of the target.
  Procs,     \* Popen objects.
  Clients,   \* Threads that handle requests.
  None

NodeRecord == [status: {"running", "stopped", "error"}, pid: Procs]

ASSUME NoneAssumption ==
  /\ None \notin Idents \union Names \union Procs \union Clients
  /\ None \notin Idents \X Names /\ None \notin NodeRecord

VARIABLES
  made,        \* UUIDs drawn so far
  items,       \* WorkspaceManager._items
  dir,         \* the directory of the workspace on disk
  status,      \* Workspace.status
  build_lock,  \* Workspace.build_lock
  nodes,       \* Workspace.nodes: NodeRecord.status and pid
  processes,   \* ProcessManager.processes
  store,       \* the holder of WorkspaceManager._lock
  table,       \* the holder of ProcessManager._lock
  proc,        \* what a process does
  slot,        \* the workspace and the name it was started for
  capture,     \* where its capture thread is
  pc, op, ws,  \* where a handler is, its request, the workspace
  name, todo,  \* stop() and run(): the node at hand, those to come
  mine,        \* its local proc
  owed         \* stop(): the processes that were registered when it began

wsVars     == <<made, items, dir>>
stateVars  == <<status, nodes>>
lockVars   == <<store, table>>
procVars   == <<proc, slot>>
threadVars == <<pc, op, ws, name, todo, mine, owed>>
vars == <<wsVars, stateVars, build_lock, processes, lockVars, procVars, capture, threadVars>>

Dead(p)    == proc[p] \in {"ok", "failed"}
Running(i) == {n \in Names : nodes[i][n] # None /\ nodes[i][n].status = "running"}

Labels == {"idle", "lookup", "spawn", "record", "announce", "register", "stopping", "term", "kill",
           "mark", "settle", "delete", "rmtree", "forget", "write", "take", "building", "compile", "unlock"}

TypeOK ==
  /\ made \in SUBSET Idents /\ items \in SUBSET made
  /\ dir \in [Idents -> {"none", "whole", "part"}]
  /\ status \in [Idents -> {"idle", "building", "running", "error"}]
  /\ build_lock \in [Idents -> BOOLEAN]
  /\ nodes \in [Idents -> [Names -> NodeRecord \union {None}]]
  /\ processes \in [Idents -> [Names -> Procs \union {None}]]
  /\ store \in Clients \union {None} /\ table \in Clients \union {None}
  /\ proc \in [Procs -> {"none", "alive", "killed", "ok", "failed"}]
  /\ slot \in [Procs -> (Idents \X Names) \union {None}]
  /\ capture \in [Procs -> {"none", "start", "read", "scan", "settle", "gone", "broken"}]
  /\ pc \in [Clients -> Labels]
  /\ op \in [Clients -> {"run", "stop", "delete", "build", "put", None}]
  /\ ws \in [Clients -> Idents \union {None}]
  /\ name \in [Clients -> Names \union {None}]
  /\ todo \in [Clients -> SUBSET Names]
  /\ mine \in [Clients -> Procs \union {None}]
  /\ owed \in [Clients -> SUBSET Procs]

Init ==
  /\ made = {} /\ items = {}
  /\ dir = [i \in Idents |-> "none"]
  /\ status = [i \in Idents |-> "idle"]
  /\ build_lock = [i \in Idents |-> FALSE]
  /\ nodes = [i \in Idents |-> [n \in Names |-> None]]
  /\ processes = [i \in Idents |-> [n \in Names |-> None]]
  /\ store = None /\ table = None
  /\ proc = [p \in Procs |-> "none"]
  /\ slot = [p \in Procs |-> None]
  /\ capture = [p \in Procs |-> "none"]
  /\ pc = [c \in Clients |-> "idle"]
  /\ op = [c \in Clients |-> None]
  /\ ws = [c \in Clients |-> None]
  /\ name = [c \in Clients |-> None]
  /\ todo = [c \in Clients |-> {}]
  /\ mine = [c \in Clients |-> None]
  /\ owed = [c \in Clients |-> {}]

-----------------------------------------------------------------------------
(* dispatch: the request names a workspace that exists.  A handler ends    *)
(* with an answer, or with an exception dispatch does not catch (OSError,  *)
(* TimeoutExpired), which closes the connection: to the rest of the system *)
(* the two are the same.                                                   *)

Goto(c, label) == pc' = [pc EXCEPT ![c] = label]

Answer(c) ==
  /\ Goto(c, "idle")
  /\ op' = [op EXCEPT ![c] = None]
  /\ ws' = [ws EXCEPT ![c] = None]
  /\ name' = [name EXCEPT ![c] = None]
  /\ todo' = [todo EXCEPT ![c] = {}]
  /\ mine' = [mine EXCEPT ![c] = None]
  /\ owed' = [owed EXCEPT ![c] = {}]

Receive(c, o) ==
  /\ pc[c] = "idle"
  /\ \E i \in items : ws' = [ws EXCEPT ![c] = i]
  /\ op' = [op EXCEPT ![c] = o]
  /\ Goto(c, "lookup")
  /\ UNCHANGED <<wsVars, stateVars, build_lock, processes, lockVars, procVars, capture,
                 name, todo, mine, owed>>

(* The method looks the workspace up again: it may be gone by now.  So may *)
(* a target, and any argument may be refused, before anything has changed. *)
Refuse(c) ==
  /\ pc[c] = "lookup"
  /\ ws[c] \notin items \/ op[c] \in {"run", "put"} \/ (op[c] = "build" /\ build_lock[ws[c]])
  /\ Answer(c)
  /\ UNCHANGED <<wsVars, stateVars, build_lock, processes, lockVars, procVars, capture>>

(* WorkspaceManager.create, under its lock, with a name that is free.  A   *)
(* file that cannot be written leaves what was made of the directory.      *)
Create(c) ==
  /\ pc[c] = "idle" /\ store = None
  /\ \E i \in Idents \ made :
       /\ made' = made \union {i}
       /\ \/ items' = items \union {i} /\ dir' = [dir EXCEPT ![i] = "whole"]
          \/ items' = items /\ dir' = [dir EXCEPT ![i] = "part"]
  /\ UNCHANGED <<stateVars, build_lock, processes, lockVars, procVars, capture, threadVars>>

-----------------------------------------------------------------------------
(* ProcessManager.run.                                                     *)

RunLookup(c) ==
  /\ pc[c] = "lookup" /\ op[c] = "run" /\ ws[c] \in items /\ dir[ws[c]] # "none"
  /\ \E n \in Names : name' = [name EXCEPT ![c] = n]
  /\ Goto(c, "spawn")
  /\ UNCHANGED <<wsVars, stateVars, build_lock, processes, lockVars, procVars, capture,
                 op, ws, todo, mine, owed>>

(* existing is None, or poll() says that it has ended. *)
BugVacant(i, n) == TRUE                     \* the poll happens outside the lock
Vacant(i, n)    == processes[i][n] # None => Dead(processes[i][n])

(* Popen fails when its working directory is gone. *)
RunSpawn(c, p) ==
  /\ pc[c] = "spawn" /\ table = None
  /\ Vacant(ws[c], name[c]) /\ dir[ws[c]] # "none"
  /\ proc[p] = "none"
  /\ table' = c
  /\ proc' = [proc EXCEPT ![p] = "alive"]
  /\ slot' = [slot EXCEPT ![p] = <<ws[c], name[c]>>]
  /\ mine' = [mine EXCEPT ![c] = p]
  /\ Goto(c, "record")
  /\ UNCHANGED <<wsVars, stateVars, build_lock, processes, store, capture,
                 op, ws, name, todo, owed>>

RunRefused(c) ==
  /\ pc[c] = "spawn" /\ table = None
  /\ Answer(c)
  /\ UNCHANGED <<wsVars, stateVars, build_lock, processes, lockVars, procVars, capture>>

RunRecord(c) ==
  /\ pc[c] = "record"
  /\ nodes' = [nodes EXCEPT ![ws[c]][name[c]] = [status |-> "running", pid |-> mine[c]]]
  /\ Goto(c, "announce")
  /\ UNCHANGED <<wsVars, status, build_lock, processes, lockVars, procVars, capture,
                 op, ws, name, todo, mine, owed>>

RunAnnounce(c) ==
  /\ pc[c] = "announce"
  /\ status' = [status EXCEPT ![ws[c]] = "running"]
  /\ Goto(c, "register")
  /\ UNCHANGED <<wsVars, nodes, build_lock, processes, lockVars, procVars, capture,
                 op, ws, name, todo, mine, owed>>

RunRegister(c) ==
  /\ pc[c] = "register"
  /\ processes' = [processes EXCEPT ![ws[c]][name[c]] = mine[c]]
  /\ capture' = [capture EXCEPT ![mine[c]] = "start"]
  /\ table' = None
  /\ Answer(c)
  /\ UNCHANGED <<wsVars, stateVars, build_lock, store, procVars>>

-----------------------------------------------------------------------------
(* Processes, and ProcessManager._capture: it ends early, with an          *)
(* exception, when the workspace is gone before it begins.                 *)

Exit(p) ==
  /\ proc[p] = "alive"
  /\ \E code \in {"ok", "failed"} : proc' = [proc EXCEPT ![p] = code]
  /\ UNCHANGED <<wsVars, stateVars, build_lock, processes, lockVars, slot, capture, threadVars>>

Dies(p) ==
  /\ proc[p] = "killed"
  /\ proc' = [proc EXCEPT ![p] = "failed"]
  /\ UNCHANGED <<wsVars, stateVars, build_lock, processes, lockVars, slot, capture, threadVars>>

CaptureStart(p) ==
  /\ capture[p] = "start"
  /\ capture' = [capture EXCEPT ![p] = IF slot[p][1] \in items THEN "read" ELSE "gone"]
  /\ UNCHANGED <<wsVars, stateVars, build_lock, processes, lockVars, procVars, threadVars>>

(* The pipe is read as text: bytes that are not UTF-8 raise in the thread. *)
CaptureBreak(p) ==
  /\ capture[p] = "read"
  /\ capture' = [capture EXCEPT ![p] = "broken"]
  /\ UNCHANGED <<wsVars, stateVars, build_lock, processes, lockVars, procVars, threadVars>>

Outcome(p) == IF proc[p] = "ok" THEN "stopped" ELSE "error"

(* The record is found by its name: a newer run may own it by now. *)
BugMark(i, n, s) == UNCHANGED nodes                   \* the record is left as it was
Mark(i, n, s)    == nodes' = [nodes EXCEPT ![i][n].status = s]

CaptureMark(p) ==
  /\ capture[p] = "read" /\ Dead(p)
  /\ Mark(slot[p][1], slot[p][2], Outcome(p))
  /\ capture' = [capture EXCEPT ![p] = "scan"]
  /\ UNCHANGED <<wsVars, status, build_lock, processes, lockVars, procVars, threadVars>>

CaptureScan(p) ==
  /\ capture[p] = "scan"
  /\ capture' = [capture EXCEPT ![p] = IF Running(slot[p][1]) = {} THEN "settle" ELSE "gone"]
  /\ UNCHANGED <<wsVars, stateVars, build_lock, processes, lockVars, procVars, threadVars>>

BugCaptureSettle(p) ==                               \* only a failure is settled
  /\ capture[p] = "settle"
  /\ status' = [status EXCEPT ![slot[p][1]] = IF proc[p] = "ok" THEN @ ELSE "error"]
  /\ capture' = [capture EXCEPT ![p] = "gone"]
  /\ UNCHANGED <<wsVars, nodes, build_lock, processes, lockVars, procVars, threadVars>>

CaptureSettle(p) ==
  /\ capture[p] = "settle"
  /\ status' = [status EXCEPT ![slot[p][1]] = IF proc[p] = "ok" THEN "idle" ELSE "error"]
  /\ capture' = [capture EXCEPT ![p] = "gone"]
  /\ UNCHANGED <<wsVars, nodes, build_lock, processes, lockVars, procVars, threadVars>>

-----------------------------------------------------------------------------
(* ProcessManager.stop, for POST stop and for DELETE.                      *)

StopBegin(c) ==
  /\ pc[c] = "lookup" /\ op[c] \in {"stop", "delete"} /\ ws[c] \in items
  /\ \E S \in {{n} : n \in IF op[c] = "stop" THEN Names ELSE {}}
              \union {{n \in Names : nodes[ws[c]][n] # None}} :
       /\ todo' = [todo EXCEPT ![c] = S]
       /\ owed' = [owed EXCEPT ![c] = {processes[ws[c]][n] : n \in S} \ {None}]
  /\ Goto(c, "stopping")
  /\ UNCHANGED <<wsVars, stateVars, build_lock, processes, lockVars, procVars, capture,
                 op, ws, name, mine>>

(* The next name: nothing to do, or terminate() and wait(timeout=2).  Any  *)
(* process may leave by itself, and one may ignore SIGTERM.                *)
StopNext(c, n) ==
  LET p == processes[ws[c]][n] IN
  /\ pc[c] = "stopping" /\ n \in todo[c]
  /\ todo' = [todo EXCEPT ![c] = @ \ {n}]
  /\ IF p = None \/ Dead(p)
       THEN UNCHANGED <<pc, name, mine>>
       ELSE /\ Goto(c, "term")
            /\ name' = [name EXCEPT ![c] = n]
            /\ mine' = [mine EXCEPT ![c] = p]
  /\ UNCHANGED <<wsVars, stateVars, build_lock, processes, lockVars, procVars, capture,
                 op, ws, owed>>

StopWaited(c) ==
  /\ pc[c] \in {"term", "kill"} /\ Dead(mine[c])
  /\ Goto(c, "mark")
  /\ UNCHANGED <<wsVars, stateVars, build_lock, processes, lockVars, procVars, capture,
                 op, ws, name, todo, mine, owed>>

TermTimeout(c) ==
  /\ pc[c] = "term" /\ ~Dead(mine[c])
  /\ proc' = [proc EXCEPT ![mine[c]] = "killed"]
  /\ Goto(c, "kill")
  /\ UNCHANGED <<wsVars, stateVars, build_lock, processes, lockVars, slot, capture,
                 op, ws, name, todo, mine, owed>>

(* wait(timeout=1) raises: nothing is reported, and nothing deleted. *)
BugGiveUp(c) == Goto(c, "mark") /\ UNCHANGED <<op, ws, name, todo, mine, owed>>
GiveUp(c)    == Answer(c)

KillTimeout(c) ==
  /\ pc[c] = "kill" /\ ~Dead(mine[c])
  /\ GiveUp(c)
  /\ UNCHANGED <<wsVars, stateVars, build_lock, processes, lockVars, procVars, capture>>

StopMark(c) ==
  /\ pc[c] = "mark"
  /\ Mark(ws[c], name[c], "stopped")
  /\ mine' = [mine EXCEPT ![c] = None]
  /\ name' = [name EXCEPT ![c] = None]
  /\ Goto(c, "stopping")
  /\ UNCHANGED <<wsVars, status, build_lock, processes, lockVars, procVars, capture,
                 op, ws, todo, owed>>

(* stop() returns to its caller. *)
Return(c) ==
  IF op[c] = "stop" THEN Answer(c)
  ELSE Goto(c, "delete") /\ UNCHANGED <<op, ws, name, todo, mine, owed>>

StopScan(c) ==
  /\ pc[c] = "stopping" /\ todo[c] = {}
  /\ IF Running(ws[c]) = {}
       THEN Goto(c, "settle") /\ UNCHANGED <<op, ws, name, todo, mine, owed>>
       ELSE Return(c)
  /\ UNCHANGED <<wsVars, stateVars, build_lock, processes, lockVars, procVars, capture>>

StopSettle(c) ==
  /\ pc[c] = "settle"
  /\ status' = [status EXCEPT ![ws[c]] = "idle"]
  /\ Return(c)
  /\ UNCHANGED <<wsVars, nodes, build_lock, processes, lockVars, procVars, capture>>

-----------------------------------------------------------------------------
(* WorkspaceManager.delete and write_file, ProcessManager.build.           *)

DeleteCheck(c) ==
  /\ pc[c] = "delete" /\ store = None
  /\ IF ws[c] \in items /\ Running(ws[c]) = {}
       THEN /\ store' = c
            /\ Goto(c, "rmtree")
            /\ UNCHANGED <<op, ws, name, todo, mine, owed>>
       ELSE Answer(c) /\ UNCHANGED store
  /\ UNCHANGED <<wsVars, stateVars, build_lock, processes, table, procVars, capture>>

(* rmtree fails, among other reasons, when a file appears meanwhile. *)
DeleteTree(c) ==
  /\ pc[c] = "rmtree"
  /\ \/ /\ dir' = [dir EXCEPT ![ws[c]] = "none"]
        /\ Goto(c, "forget")
        /\ UNCHANGED <<store, op, ws, name, todo, mine, owed>>
     \/ /\ dir' = [dir EXCEPT ![ws[c]] = "part"]
        /\ store' = None
        /\ Answer(c)
  /\ UNCHANGED <<made, items, stateVars, build_lock, processes, table, procVars, capture>>

DeleteForget(c) ==
  /\ pc[c] = "forget"
  /\ items' = items \ {ws[c]}
  /\ store' = None
  /\ Answer(c)
  /\ UNCHANGED <<made, dir, stateVars, build_lock, processes, table, procVars, capture>>

PutLookup(c) ==
  /\ pc[c] = "lookup" /\ op[c] = "put" /\ ws[c] \in items
  /\ Goto(c, "write")
  /\ UNCHANGED <<wsVars, stateVars, build_lock, processes, lockVars, procVars, capture,
                 op, ws, name, todo, mine, owed>>

(* mkdir(parents=True) makes a directory that a DELETE removed once more. *)
PutWrite(c) ==
  /\ pc[c] = "write"
  /\ dir' = [dir EXCEPT ![ws[c]] = IF @ = "none" THEN "part" ELSE @]
  /\ Answer(c)
  /\ UNCHANGED <<made, items, stateVars, build_lock, processes, lockVars, procVars, capture>>

(* The lock is a flag, tested here and taken in the next step. *)
BuildLookup(c) ==
  /\ pc[c] = "lookup" /\ op[c] = "build" /\ ws[c] \in items /\ ~build_lock[ws[c]]
  /\ Goto(c, "take")
  /\ UNCHANGED <<wsVars, stateVars, build_lock, processes, lockVars, procVars, capture,
                 op, ws, name, todo, mine, owed>>

BuildTake(c) ==
  /\ pc[c] = "take"
  /\ build_lock' = [build_lock EXCEPT ![ws[c]] = TRUE]
  /\ Goto(c, "building")
  /\ UNCHANGED <<wsVars, stateVars, processes, lockVars, procVars, capture,
                 op, ws, name, todo, mine, owed>>

BuildAnnounce(c) ==
  /\ pc[c] = "building"
  /\ status' = [status EXCEPT ![ws[c]] = "building"]
  /\ Goto(c, "compile")
  /\ UNCHANGED <<wsVars, nodes, build_lock, processes, lockVars, procVars, capture,
                 op, ws, name, todo, mine, owed>>

BugBuildSettle(c) ==                        \* the lock is freed after the try
  /\ pc[c] = "compile"
  /\ \/ /\ \E s \in {"idle", "error"} : status' = [status EXCEPT ![ws[c]] = s]
        /\ Goto(c, "unlock") /\ UNCHANGED <<op, ws, name, todo, mine, owed>>
     \/ UNCHANGED status /\ Answer(c)
  /\ UNCHANGED <<wsVars, nodes, build_lock, processes, lockVars, procVars, capture>>

(* A file that vanishes raises OSError, and then the status is not set;    *)
(* the finally clause runs whatever the files did.                         *)
BuildSettle(c) ==
  /\ pc[c] = "compile"
  /\ status' \in {status} \union {[status EXCEPT ![ws[c]] = s] : s \in {"idle", "error"}}
  /\ Goto(c, "unlock")
  /\ UNCHANGED <<wsVars, nodes, build_lock, processes, lockVars, procVars, capture,
                 op, ws, name, todo, mine, owed>>

BuildUnlock(c) ==
  /\ pc[c] = "unlock"
  /\ build_lock' = [build_lock EXCEPT ![ws[c]] = FALSE]
  /\ Answer(c)
  /\ UNCHANGED <<wsVars, stateVars, processes, lockVars, procVars, capture>>

-----------------------------------------------------------------------------
Handler(c) ==
  \/ Refuse(c)
  \/ RunLookup(c) \/ (\E p \in Procs : RunSpawn(c, p)) \/ RunRefused(c)
  \/ RunRecord(c) \/ RunAnnounce(c) \/ RunRegister(c)
  \/ StopBegin(c) \/ (\E n \in Names : StopNext(c, n)) \/ StopWaited(c)
  \/ TermTimeout(c) \/ KillTimeout(c) \/ StopMark(c) \/ StopScan(c) \/ StopSettle(c)
  \/ DeleteCheck(c) \/ DeleteTree(c) \/ DeleteForget(c)
  \/ PutLookup(c) \/ PutWrite(c)
  \/ BuildLookup(c) \/ BuildTake(c) \/ BuildAnnounce(c) \/ BuildSettle(c) \/ BuildUnlock(c)

Capture(p) ==
  CaptureStart(p) \/ CaptureBreak(p) \/ CaptureMark(p) \/ CaptureScan(p) \/ CaptureSettle(p)

Next ==
  \/ \E c \in Clients :
       \/ \E o \in {"run", "stop", "delete", "build", "put"} : Receive(c, o)
       \/ Create(c)
       \/ Handler(c)
  \/ \E p \in Procs : Exit(p) \/ Dies(p) \/ Capture(p)

Spec == Init /\ [][Next]_vars

-----------------------------------------------------------------------------
(* The workspaces stop() and run() work on. *)
At(c, i, labels) == ws[c] = i /\ pc[c] \in labels

(* A live process is the one registered for its node, so that /stop and    *)
(* DELETE can reach it, or run() is still about to register it: two runs   *)
(* of a name, a run during a stop or an exit never hide one               *)
(* (process.py:62-71).                                                     *)
LiveIsTracked ==
  \A p \in Procs : proc[p] \in {"alive", "killed"} =>
    LET i == slot[p][1]  n == slot[p][2] IN
    \/ processes[i][n] = p
    \/ \E c \in Clients : At(c, i, {"record", "announce", "register"}) /\ mine[c] = p

(* When stop() returns, every process that was registered for the names it *)
(* was asked to stop has ended: so no DELETE removes the directory of a    *)
(* process that was there when it began (process.py:93-107,                *)
(* server.py:81), even if the process ignores SIGTERM.                     *)
StopIsThorough ==
  \A c \in Clients :
    pc[c] \in {"settle", "delete", "rmtree", "forget"} => \A p \in owed[c] : Dead(p)

(* A record that says "running" is that of a process that runs, or of one  *)
(* whose end its capture thread is still to record: a node that is gone    *)
(* does not keep its workspace from being deleted (workspace.py:71), unless *)
(* its output could not be read as text.                                   *)
RunningIsOwned ==
  \A i \in items, n \in Names : (nodes[i][n] # None /\ nodes[i][n].status = "running") =>
    LET p == nodes[i][n].pid IN
    \/ ~Dead(p) \/ capture[p] \in {"start", "read", "broken"}
    \/ \E c \in Clients : At(c, i, {"announce", "register"}) /\ mine[c] = p

(* A workspace that says "running" has a record that says so too, or       *)
(* somebody who will look again: a thread that captures, a run() or a      *)
(* stop() under way.  The last one out sets the status, whatever the       *)
(* interleaving of its scan with other exits (process.py:85-86,105-106);   *)
(* only a capture that broke on the output leaves it as it was.            *)
StatusHasReason ==
  \A i \in items : status[i] = "running" =>
    \/ Running(i) # {}
    \/ \E p \in Procs : slot[p] # None /\ slot[p][1] = i /\ capture[p] # "gone"
    \/ \E c \in Clients : At(c, i, {"announce", "register", "mark", "stopping", "settle"})

(* A build lock has a builder: neither a failed compilation nor a file     *)
(* that vanishes under the scan leaves the workspace unbuildable           *)
(* (process.py:32-47).                                                     *)
LockHasBuilder ==
  \A i \in Idents : build_lock[i] => \E c \in Clients : At(c, i, {"building", "compile", "unlock"})
=============================================================================
