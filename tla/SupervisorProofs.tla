-------------------------- MODULE SupervisorProofs --------------------------
(***************************************************************************)
(* Proofs about the supervisor, for every number of workspaces, names,     *)
(* nodes, clients and restarts.  The inductive invariant IInv adds to the  *)
(* type invariant what each goroutine relies on:                           *)
(*   NodeInv   the life of a node and of its generations,                  *)
(*   TableInv  every active node is found under its name,                  *)
(*   LockInv   who holds BuildMu and what the holder has achieved,         *)
(*   SweepInv  how far a sweep has come.                                   *)
(***************************************************************************)
EXTENDS Supervisor, TLAPS

Handling == {"run", "stop", "stopping", "delete", "deleting", "build", "building"}

GenOK(n, g) ==
  /\ waiter[<<n, g>>] = "capture" => g = gen[n] /\ status[n] = "running"
  /\ waiter[<<n, g>>] = "restart" => g = gen[n] /\ status[n] = "starting"
  /\ proc[<<n, g>>] \in {"alive", "killed"} => waiter[<<n, g>>] = "capture"

NodeOK(n) ==
  /\ status[n] = "absent" => gen[n] = 0 /\ ~stopping[n]
  /\ status[n] # "absent" =>
       home[n] \in Workspaces /\ name[n] \in Names /\ req[n] \in Requests
  /\ gen[n] <= restarts[n] + 1
  /\ status[n] = "starting" => gen[n] <= restarts[n]
  /\ Active(n) => gen[n] \in Gens
  /\ status[n] = "running" => waiter[<<n, gen[n]>>] = "capture"
  /\ status[n] = "starting" => waiter[<<n, gen[n]>>] = "restart"
  /\ closes[n] = IF Ended(n) THEN 1 ELSE 0
  /\ \A g \in Gens : GenOK(n, g)

NodeInv == \A n \in Nodes : NodeOK(n)

TableInv ==
  /\ \A w \in Workspaces, k \in Names :
       table[w][k] # None =>
         /\ status[table[w][k]] # "absent"
         /\ home[table[w][k]] = w /\ name[table[w][k]] = k
  /\ \A n \in Nodes : Active(n) => table[home[n]][name[n]] = n

ClientOK(c) ==
  /\ pc[c] \in Handling \union {"idle"}
  /\ pc[c] \in Handling => ws[c] \in Workspaces
  /\ pc[c] \in {"deleting", "building"} => buildMu[ws[c]] = c
  /\ pc[c] = "deleting" => \A n \in Nodes : Active(n) /\ home[n] = ws[c] => stopping[n]

BuildOK(w) ==
  building[w] => /\ w \in items /\ buildMu[w] \in Clients
                 /\ pc[buildMu[w]] = "building" /\ ws[buildMu[w]] = w

LockInv ==
  /\ \A c \in Clients : ClientOK(c)
  /\ \A w \in Workspaces : BuildOK(w)
  /\ \A n \in Nodes : Active(n) /\ ~stopping[n] => home[n] \in items

SweeperOK(t) ==
  /\ pc[t] \in {"sweep", "sweeping", "swept", "closed"} =>
       \A n \in Nodes : Active(n) /\ ~stopping[n] => home[n] \in sweep[t]
  /\ pc[t] \in {"swept", "closed"} => sweep[t] = {}

SweepInv ==
  /\ pc[Loop] \in {"watch", "tripped", "sweep", "sweeping", "swept", "halted"}
  /\ pc[Closer] \in {"open", "draining", "sweep", "sweeping", "closed"}
  /\ pc[Loop] \in {"tripped", "sweep", "sweeping", "swept"} => estop
  /\ pc[Closer] \in {"sweep", "sweeping", "closed"} => closing
  /\ \A t \in Sweepers : SweeperOK(t)

IInv == TypeOK /\ NodeInv /\ TableInv /\ LockInv /\ SweepInv

-----------------------------------------------------------------------------
(* Reading IInv.                                                           *)

LEMMA ThreadFacts ==
  ASSUME NEW c \in Clients
  PROVE  c \in Threads /\ c \notin Sweepers
BY ThreadAssumption DEF Threads, Sweepers

LEMMA InitIInv == Init => IInv
<1> SUFFICES ASSUME Init PROVE IInv
  OBVIOUS
<1> USE MaxRestartsAssumption, SafetyAssumption, ThreadAssumption, NoneAssumption
<1>1. TypeOK
  <2>1. WorkspaceTypes
    BY DEF Init, WorkspaceTypes
  <2>2. NodeTypes
    BY DEF Init, NodeTypes
  <2>3. ThreadTypes
    BY DEF Init, ThreadTypes, Labels
  <2> QED
    BY <2>1, <2>2, <2>3 DEF TypeOK
<1>2. NodeInv
  <2> SUFFICES ASSUME NEW n \in Nodes PROVE NodeOK(n)
    BY DEF NodeInv
  <2>1. \A g \in Gens : GenOK(n, g)
    BY DEF Init, GenOK
  <2> QED
    BY <2>1 DEF Init, NodeOK, Active, Ended
<1>3. TableInv
  BY DEF Init, TableInv, Active
<1>4. LockInv
  BY DEF Init, LockInv, ClientOK, BuildOK, Active, Handling, Threads
<1>5. SweepInv
  BY DEF Init, SweepInv, SweeperOK, Active, Threads, Sweepers
<1> QED
  BY <1>1, <1>2, <1>3, <1>4, <1>5 DEF IInv

-----------------------------------------------------------------------------
(* Types.                                                                  *)

(* The calling thread's share of a stop keeps its types. *)
LEMMA WaitForType ==
  ASSUME TypeOK, NEW t \in Threads, NEW S \in SUBSET Nodes, WaitFor(t, S)
  PROVE  /\ todo' \in [Threads -> SUBSET Nodes]
         /\ cur' \in [Threads -> Nodes \union {None}]
         /\ phase' \in [Threads -> {"term", "kill"}]
BY DEF TypeOK, ThreadTypes, WaitFor

LEMMA MarkType ==
  ASSUME TypeOK, NEW t \in Threads, NEW w \in Workspaces, NEW ks, Mark(t, w, ks)
  PROVE  /\ stopping' \in [Nodes -> BOOLEAN]
         /\ todo' \in [Threads -> SUBSET Nodes]
         /\ cur' \in [Threads -> Nodes \union {None}]
         /\ phase' \in [Threads -> {"term", "kill"}]
<1>1. Victims(w, ks) \in SUBSET Nodes
  BY DEF TypeOK, WorkspaceTypes, Victims, NodesOf
<1>2. stopping' \in [Nodes -> BOOLEAN]
  BY DEF Mark, TypeOK, NodeTypes
<1> QED
  BY <1>1, <1>2, WaitForType DEF Mark

LEMMA TypeStep == ASSUME IInv, [Next]_vars PROVE TypeOK'
<1> USE DEF IInv, TypeOK
<1>1. ASSUME NEW c \in Clients, NEW op \in {"run", "stop", "delete", "build"},
             Receive(c, op)
      PROVE  TypeOK'
  BY <1>1, ThreadFacts DEF Receive, WorkspaceTypes, NodeTypes, ThreadTypes, Labels,
     wsVars, nodeVars, runVars, stopVars
<1>2. ASSUME NEW c \in Clients, Create(c) PROVE TypeOK'
  BY <1>2 DEF Create, WorkspaceTypes, NodeTypes, ThreadTypes,
     nodeVars, runVars, threadVars
<1>3. ASSUME NEW c \in Clients, Handler(c) PROVE TypeOK'
  <2> c \in Threads
    BY ThreadFacts
  <2>1. CASE RunRefused(c)
    BY <2>1 DEF RunRefused, Answer, WorkspaceTypes, NodeTypes, ThreadTypes, Labels,
       wsVars, nodeVars, runVars, stopVars
  <2>2. ASSUME NEW n \in Nodes, NEW k \in Names, NEW r \in Requests,
               RunAccepted(c, n, k, r)
        PROVE  TypeOK'
    <3>1. ws[c] \in Workspaces /\ gen[n] = 0
      BY <2>2 DEF RunAccepted, LockInv, ClientOK, NodeInv, NodeOK, Handling
    <3>2. <<n, gen[n] + 1>> \in Nodes \X Gens /\ gen[n] + 1 \in 0 .. (MaxRestarts + 1)
      BY <3>1, MaxRestartsAssumption DEF Gens
    <3>3. WorkspaceTypes'
      BY <2>2, <3>1 DEF RunAccepted, Start, WorkspaceTypes
    <3>4. NodeTypes'
      BY <2>2, <3>1, <3>2 DEF RunAccepted, Start, NodeTypes
    <3>5. ThreadTypes'
      BY <2>2 DEF RunAccepted, Answer, ThreadTypes, Labels, stopVars
    <3> QED
      BY <3>3, <3>4, <3>5
  <2>3. CASE StopMark(c)
    <3>1. PICK ks \in {{k} : k \in Names} \union {Names} : Mark(c, ws[c], ks)
      BY <2>3 DEF StopMark
    <3>2. ws[c] \in Workspaces
      BY <2>3 DEF StopMark, LockInv, ClientOK, Handling
    <3> QED
      BY <2>3, <3>1, <3>2, MarkType DEF StopMark, WorkspaceTypes, NodeTypes, ThreadTypes, Labels,
         wsVars, runVars
  <2>4. CASE StopReturn(c)
    BY <2>4 DEF StopReturn, Answer, WorkspaceTypes, NodeTypes, ThreadTypes, Labels,
       wsVars, nodeVars, runVars, stopVars
  <2>5. CASE DeleteMark(c)
    <3>2. ws[c] \in Workspaces
      BY <2>5 DEF DeleteMark, LockInv, ClientOK, Handling
    <3> QED
      BY <2>5, <3>2, MarkType DEF DeleteMark, WorkspaceTypes, NodeTypes, ThreadTypes, Labels,
         wsVars, runVars
  <2>6. CASE DeleteRemove(c)
    BY <2>6 DEF DeleteRemove, BuildMuUnlock, Answer, WorkspaceTypes, NodeTypes,
       ThreadTypes, Labels, nodeVars, runVars, stopVars
  <2>7. CASE BuildBegin(c)
    BY <2>7 DEF BuildBegin, WorkspaceTypes, NodeTypes, ThreadTypes, Labels, nodeVars,
       runVars, stopVars
  <2>8. CASE BuildRefused(c)
    BY <2>8 DEF BuildRefused, Answer, WorkspaceTypes, NodeTypes, ThreadTypes, Labels,
       wsVars, nodeVars, runVars, stopVars
  <2>9. CASE BuildEnd(c)
    BY <2>9 DEF BuildEnd, StatusAfterBuild, BuildMuUnlock, Answer, WorkspaceTypes,
       NodeTypes, ThreadTypes, Labels, nodeVars, runVars, stopVars
  <2> QED
    BY <1>3, <2>1, <2>2, <2>3, <2>4, <2>5, <2>6, <2>7, <2>8, <2>9 DEF Handler
<1>4. ASSUME NEW n \in Nodes, NEW g \in Gens, ProcessExit(n, g) \/ ProcessDies(n, g)
      PROVE  TypeOK'
  <2>1. PICK outcome \in {"ok", "failed"} :
          proc' = [proc EXCEPT ![<<n, g>>] = outcome]
    BY <1>4 DEF ProcessExit, ProcessDies
  <2>2. proc' \in [Nodes \X Gens -> {"none", "alive", "killed", "ok", "failed"}]
    BY <2>1 DEF NodeTypes
  <2>3. UNCHANGED <<wsVars, nodeVars, waiter, estop, threadVars>>
    BY <1>4 DEF ProcessExit, ProcessDies
  <2> QED
    BY <2>2, <2>3 DEF WorkspaceTypes, NodeTypes, ThreadTypes, wsVars, nodeVars, threadVars
<1>5. ASSUME NEW n \in Nodes, NEW g \in Gens, Finish(n, g)
      PROVE  /\ status' \in [Nodes -> {"absent", "starting", "running", "stopped", "error"}]
             /\ wstatus' \in [Workspaces -> {"idle", "building", "running", "error"}]
             /\ closes' \in [Nodes -> Nat]
             /\ waiter' \in [Nodes \X Gens -> {"none", "capture", "restart", "gone"}]
  <2> DEFINE last == IF proc[<<n, g>>] = "failed" /\ ~stopping[n]
                     THEN "error" ELSE "stopped"
             wlast == IF \E m \in NodesOf(home[n]) \ {n} : Active(m) THEN wstatus[home[n]]
                      ELSE IF last = "error" THEN "error" ELSE "idle"
  <2>1. /\ status' = [status EXCEPT ![n] = last]
        /\ wstatus' = [wstatus EXCEPT ![home[n]] = wlast]
        /\ closes' = [closes EXCEPT ![n] = closes[n] + 1]
        /\ waiter' = [waiter EXCEPT ![<<n, g>>] = "gone"]
    BY <1>5 DEF Finish
  <2>2. /\ last \in {"error", "stopped"}
        /\ home[n] \in Workspaces => wlast \in {"idle", "building", "running", "error"}
    BY DEF WorkspaceTypes
  <2> HIDE DEF last, wlast
  <2>3. wstatus' \in [Workspaces -> {"idle", "building", "running", "error"}]
    BY <2>1, <2>2 DEF WorkspaceTypes
  <2> QED
    BY <2>1, <2>2, <2>3 DEF NodeTypes
<1>6. ASSUME NEW n \in Nodes, NEW g \in Gens, CaptureExit(n, g) PROVE TypeOK'
  <2>1. NodeOK(n) /\ status[n] = "running"
    BY <1>6 DEF CaptureExit, NodeInv, NodeOK, GenOK
  <2>2. CASE Restarts(n, g)
    <3>1. restarts[n] + 1 \in 0 .. MaxRestarts
      BY <2>1, <2>2, RequestsAssumption, MaxRestartsAssumption
         DEF Restarts, NodeOK, NodeTypes
    <3>2. /\ estop' = (estop \/ (Safety /\ NativeFailure(n, g)))
          /\ restarts' = [restarts EXCEPT ![n] = restarts[n] + 1]
          /\ status' = [status EXCEPT ![n] = "starting"]
          /\ waiter' = [waiter EXCEPT ![<<n, g>>] = "restart"]
          /\ UNCHANGED <<wstatus, closes>>
          /\ UNCHANGED <<made, items, closing, table, building, buildMu, home, name,
                         req, stopping, gen, proc, threadVars>>
      BY <1>6, <2>2 DEF CaptureExit
    <3>3. estop' \in BOOLEAN
      BY <3>2, Zenon
    <3>4. WorkspaceTypes'
      BY <3>2, <3>3 DEF WorkspaceTypes
    <3>5. NodeTypes'
      BY <3>1, <3>2 DEF NodeTypes
    <3>6. ThreadTypes'
      BY <3>2 DEF ThreadTypes, threadVars
    <3> QED
      BY <3>4, <3>5, <3>6
  <2>3. CASE ~Restarts(n, g)
    BY <1>5, <1>6, <2>3, SafetyAssumption DEF CaptureExit, WorkspaceTypes, NodeTypes,
       ThreadTypes, threadVars
  <2> QED
    BY <2>2, <2>3
<1>7. ASSUME NEW n \in Nodes, NEW g \in Gens, RestartWake(n, g) PROVE TypeOK'
  <2>1. /\ status[n] = "starting" /\ home[n] \in Workspaces
        /\ gen[n] + 1 \in Gens /\ gen[n] + 1 \in 0 .. (MaxRestarts + 1)
    <3>1. NodeOK(n) /\ status[n] = "starting"
      BY <1>7 DEF RestartWake, NodeInv, NodeOK, GenOK
    <3> QED
      BY <3>1, MaxRestartsAssumption DEF NodeOK, NodeTypes, Gens
  <2>2. CASE ~Overtaken(n) /\ Start(n, home[n]) /\ Relieve(n, g) /\ UNCHANGED closes
    <3>1. <<n, gen[n] + 1>> \in Nodes \X Gens
      BY <2>1
    <3>2. WorkspaceTypes'
      BY <1>7, <2>1, <2>2 DEF RestartWake, Start, WorkspaceTypes
    <3>3. NodeTypes'
      BY <1>7, <2>1, <2>2, <3>1 DEF RestartWake, Start, Relieve, NodeTypes
    <3>4. ThreadTypes'
      BY <1>7 DEF RestartWake, ThreadTypes, threadVars
    <3> QED
      BY <3>2, <3>3, <3>4
  <2>3. CASE Finish(n, g) /\ UNCHANGED <<gen, proc>>
    BY <1>5, <1>7, <2>3 DEF RestartWake, WorkspaceTypes, NodeTypes, ThreadTypes, threadVars
  <2> QED
    BY <1>7, <2>2, <2>3 DEF RestartWake
<1>8. ASSUME NEW t \in Threads, Stopping(t) PROVE TypeOK'
  <2>1. CASE NodeDone(t) \/ KillTimeout(t)
    <3>1. todo[t] \ {cur[t]} \in SUBSET Nodes
      BY DEF ThreadTypes
    <3> QED
      BY <2>1, <3>1, WaitForType DEF NodeDone, KillTimeout, WorkspaceTypes, NodeTypes,
         ThreadTypes, wsVars, nodeVars, runVars
  <2>2. CASE TermTimeout(t)
    BY <2>2 DEF TermTimeout, WorkspaceTypes, NodeTypes, ThreadTypes, wsVars, nodeVars
  <2> QED
    BY <1>8, <2>1, <2>2 DEF Stopping
<1>9. ASSUME NEW t \in Sweepers, Sweeping(t) PROVE TypeOK'
  <2>1. t \in Threads
    BY DEF Sweepers, Threads
  <2>2. CASE SweepMark(t)
    <3>1. PICK w \in sweep[t] :
            Mark(t, w, Names) /\ sweep' = [sweep EXCEPT ![t] = sweep[t] \ {w}]
      BY <2>2 DEF SweepMark
    <3>2. w \in Workspaces
      BY <2>1 DEF ThreadTypes
    <3> QED
      BY <2>1, <2>2, <3>1, <3>2, MarkType DEF SweepMark, WorkspaceTypes, NodeTypes,
         ThreadTypes, Labels, wsVars, runVars
  <2>3. CASE SweepReturn(t) \/ SweepEnd(t)
    <3>1. PICK l \in Labels : pc' = [pc EXCEPT ![t] = l]
      BY <2>3 DEF SweepReturn, SweepEnd, Labels
    <3>2. UNCHANGED <<wsVars, nodeVars, runVars, estop, ws, sweep, stopVars>>
      BY <2>3 DEF SweepReturn, SweepEnd
    <3> QED
      BY <2>1, <3>1, <3>2 DEF WorkspaceTypes, NodeTypes, ThreadTypes, wsVars, nodeVars,
         runVars, stopVars
  <2> QED
    BY <1>9, <2>2, <2>3 DEF Sweeping
<1>10. CASE SafetyTick \/ SafetySnapshot \/ SafetyHalt
  <2>1. Loop \in Threads
    BY DEF Threads
  <2>2. PICK l \in Labels : pc' = [pc EXCEPT ![Loop] = l]
    BY <1>10 DEF SafetyTick, SafetySnapshot, SafetyHalt, Labels
  <2>3. estop' \in BOOLEAN
    BY <1>10, Zenon DEF SafetyTick, SafetySnapshot, SafetyHalt, WorkspaceTypes
  <2>4. sweep' \in [Threads -> SUBSET Workspaces]
    BY <1>10, <2>1 DEF SafetyTick, SafetySnapshot, SafetyHalt, WorkspaceTypes, ThreadTypes
  <2>5. UNCHANGED <<wsVars, nodeVars, runVars, ws, stopVars>>
    BY <1>10 DEF SafetyTick, SafetySnapshot, SafetyHalt
  <2> QED
    BY <2>1, <2>2, <2>3, <2>4, <2>5 DEF WorkspaceTypes, NodeTypes, ThreadTypes, wsVars,
       nodeVars, runVars, stopVars
<1>11. CASE CloseBegin \/ CloseAdmission
  <2>1. Closer \in Threads
    BY DEF Threads
  <2>2. PICK l \in Labels : pc' = [pc EXCEPT ![Closer] = l]
    BY <1>11 DEF CloseBegin, CloseAdmission, Labels
  <2>3. /\ closing' \in BOOLEAN
        /\ sweep' \in [Threads -> SUBSET Workspaces]
    BY <1>11, <2>1 DEF CloseBegin, CloseAdmission, WorkspaceTypes, ThreadTypes, wsVars
  <2>4. UNCHANGED <<made, items, table, wstatus, building, buildMu, nodeVars, runVars,
                    estop, ws, stopVars>>
    BY <1>11 DEF CloseBegin, CloseAdmission, wsVars
  <2> QED
    BY <2>1, <2>2, <2>3, <2>4 DEF WorkspaceTypes, NodeTypes, ThreadTypes,
       nodeVars, runVars, stopVars
<1>12. CASE UNCHANGED vars
  BY <1>12 DEF vars, wsVars, nodeVars, runVars, threadVars, WorkspaceTypes, NodeTypes,
     ThreadTypes
<1> QED
  BY <1>1, <1>2, <1>3, <1>4, <1>6, <1>7, <1>8, <1>9, <1>10, <1>11, <1>12
     DEF Next, Capture

-----------------------------------------------------------------------------
(* The life of a node.                                                     *)

(* Marking only sets Node.stopping, and only of active nodes. *)
LEMMA MarkNodes ==
  ASSUME IInv, NEW t \in Threads, NEW w \in Workspaces, NEW ks, Mark(t, w, ks),
         UNCHANGED <<home, name, req, status, restarts, gen, closes, runVars>>
  PROVE  NodeInv'
<1> SUFFICES ASSUME NEW n \in Nodes PROVE NodeOK(n)'
  BY DEF NodeInv
<1>1. NodeOK(n)
  BY DEF IInv, NodeInv
<1>2. stopping'[n] => stopping[n] \/ Active(n)
  BY DEF Mark, Victims, IInv, TypeOK, NodeTypes
<1>3. \A g \in Gens : GenOK(n, g)'
  BY <1>1 DEF NodeOK, GenOK, runVars
<1> QED
  BY <1>1, <1>2, <1>3 DEF NodeOK, Active, Ended, runVars

(* A step of a child process: an exit, or a signal that kills it. *)
LEMMA ProcNodes ==
  ASSUME IInv, UNCHANGED <<nodeVars, waiter>>,
         \A n \in Nodes, g \in Gens :
           proc'[<<n, g>>] \in {"alive", "killed"} => proc[<<n, g>>] \in {"alive", "killed"}
  PROVE  NodeInv'
<1> SUFFICES ASSUME NEW n \in Nodes PROVE NodeOK(n)'
  BY DEF NodeInv
<1>1. NodeOK(n)
  BY DEF IInv, NodeInv
<1>2. \A g \in Gens : GenOK(n, g)'
  BY <1>1 DEF NodeOK, GenOK, nodeVars
<1> QED
  BY <1>1, <1>2 DEF NodeOK, Active, Ended, nodeVars

(* Start gives the node a generation, and only that node. *)
LEMMA StartNodes ==
  ASSUME IInv, NEW n \in Nodes, NEW w \in Workspaces, Start(n, w), UNCHANGED closes,
         status[n] \in {"absent", "starting"},
         gen[n] + 1 <= restarts'[n] + 1,
         home'[n] \in Workspaces, name'[n] \in Names, req'[n] \in Requests,
         \A g \in Gens : waiter'[<<n, g>>] = IF g = gen[n] + 1 THEN "capture"
                         ELSE IF waiter[<<n, g>>] = "restart" THEN "gone"
                         ELSE waiter[<<n, g>>],
         \A m \in Nodes \ {n} :
           /\ home'[m] = home[m] /\ name'[m] = name[m] /\ req'[m] = req[m]
           /\ stopping'[m] = stopping[m] /\ restarts'[m] = restarts[m]
           /\ \A g \in Gens : waiter'[<<m, g>>] = waiter[<<m, g>>],
         gen[n] + 1 \in Gens
  PROVE  NodeInv'
<1> SUFFICES ASSUME NEW m \in Nodes PROVE NodeOK(m)'
  BY DEF NodeInv
<1>1. NodeOK(m) /\ TypeOK
  BY DEF IInv, NodeInv
<1>2. CASE m # n
  <2>1. /\ status'[m] = status[m] /\ gen'[m] = gen[m] /\ closes'[m] = closes[m]
        /\ \A g \in Gens : proc'[<<m, g>>] = proc[<<m, g>>]
    BY <1>1, <1>2 DEF Start, TypeOK, NodeTypes
  <2>2. \A g \in Gens : GenOK(m, g)'
    BY <1>1, <1>2, <2>1 DEF NodeOK, GenOK
  <2> QED
    BY <1>1, <1>2, <2>1, <2>2 DEF NodeOK, Active, Ended
<1>3. CASE m = n
  <2>1. /\ status'[n] = "running" /\ gen'[n] = gen[n] + 1 /\ closes'[n] = closes[n]
        /\ \A g \in Gens :
             proc'[<<n, g>>] = IF g = gen[n] + 1 THEN "alive" ELSE proc[<<n, g>>]
    BY <1>1 DEF Start, TypeOK, NodeTypes
  <2>2. \A g \in Gens : GenOK(n, g)'
    <3> SUFFICES ASSUME NEW g \in Gens PROVE GenOK(n, g)'
      OBVIOUS
    <3>1. GenOK(n, g)
      BY <1>1, <1>3 DEF NodeOK
    <3>2. CASE g = gen[n] + 1
      BY <2>1, <3>2 DEF GenOK
    <3>3. CASE g # gen[n] + 1
      BY <2>1, <3>1, <3>3 DEF GenOK
    <3> QED
      BY <3>2, <3>3
  <2>3. closes[n] = 0
    BY <1>1, <1>3 DEF NodeOK, Ended
  <2>4. gen[n] \in Nat
    BY <1>1 DEF TypeOK, NodeTypes
  <2> QED
    BY <1>1, <1>3, <2>1, <2>2, <2>3, <2>4 DEF NodeOK, Active, Ended
<1> QED
  BY <1>2, <1>3

(* The last section of capture ends the node and its generation. *)
LEMMA FinishNodes ==
  ASSUME IInv, NEW n \in Nodes, NEW g \in Gens, Finish(n, g), Active(n), g = gen[n],
         proc[<<n, g>>] \notin {"alive", "killed"},
         UNCHANGED <<home, name, req, stopping, restarts, gen, proc>>
  PROVE  NodeInv'
<1> DEFINE last == IF proc[<<n, g>>] = "failed" /\ ~stopping[n]
                   THEN "error" ELSE "stopped"
<1>0. /\ status' = [status EXCEPT ![n] = last]
      /\ closes' = [closes EXCEPT ![n] = closes[n] + 1]
      /\ waiter' = [waiter EXCEPT ![<<n, g>>] = "gone"]
      /\ last \in {"error", "stopped"}
  BY DEF Finish
<1> HIDE DEF last
<1> SUFFICES ASSUME NEW m \in Nodes PROVE NodeOK(m)'
  BY DEF NodeInv
<1>1. NodeOK(m) /\ TypeOK
  BY DEF IInv, NodeInv
<1>2. \A h \in Gens : waiter'[<<m, h>>] = IF m = n /\ h = g THEN "gone" ELSE waiter[<<m, h>>]
  BY <1>0, <1>1 DEF TypeOK, NodeTypes
<1>3. CASE m # n
  <2>1. status'[m] = status[m] /\ closes'[m] = closes[m]
    BY <1>0, <1>1, <1>3 DEF TypeOK, NodeTypes
  <2>2. \A h \in Gens : GenOK(m, h)'
    BY <1>1, <1>2, <1>3, <2>1 DEF NodeOK, GenOK
  <2>3. Active(m)' => gen[m] \in Gens /\ waiter'[<<m, gen[m]>>] = waiter[<<m, gen[m]>>]
    BY <1>1, <1>2, <1>3, <2>1 DEF NodeOK, Active
  <2> QED
    BY <1>1, <2>1, <2>2, <2>3 DEF NodeOK, Active, Ended
<1>4. CASE m = n
  <2>1. status'[n] = last /\ closes'[n] = 1
    BY <1>0, <1>1, <1>4 DEF NodeOK, Active, Ended, TypeOK, NodeTypes
  <2>2. \A h \in Gens : GenOK(n, h)'
    BY <1>0, <1>1, <1>2, <1>4, <2>1 DEF NodeOK, GenOK, Active
  <2> QED
    BY <1>0, <1>1, <1>4, <2>1, <2>2 DEF NodeOK, Active, Ended
<1> QED
  BY <1>3, <1>4

LEMMA NodeFrame ==
  ASSUME IInv, UNCHANGED <<nodeVars, runVars>>
  PROVE  NodeInv'
BY ProcNodes DEF runVars

LEMMA NodeStep == ASSUME IInv, [Next]_vars PROVE NodeInv'
<1>1. ASSUME NEW c \in Clients, NEW op \in {"run", "stop", "delete", "build"},
             Receive(c, op)
      PROVE  NodeInv'
  BY <1>1, NodeFrame DEF Receive
<1>2. ASSUME NEW c \in Clients, Create(c) PROVE NodeInv'
  BY <1>2, NodeFrame DEF Create
<1>3. ASSUME NEW c \in Clients, Handler(c) PROVE NodeInv'
  <2> c \in Threads
    BY ThreadFacts
  <2>1. CASE \/ RunRefused(c) \/ StopReturn(c) \/ DeleteRemove(c)
             \/ BuildBegin(c) \/ BuildRefused(c) \/ BuildEnd(c)
    BY <2>1, NodeFrame DEF RunRefused, StopReturn, DeleteRemove, BuildBegin,
       BuildRefused, BuildEnd
  <2>2. ASSUME NEW n \in Nodes, NEW k \in Names, NEW r \in Requests,
               RunAccepted(c, n, k, r)
        PROVE  NodeInv'
    <3>1. NodeOK(n) /\ TypeOK
      BY DEF IInv, NodeInv
    <3>2. /\ ws[c] \in Workspaces /\ status[n] = "absent" /\ gen[n] = 0
      BY <2>2, <3>1 DEF RunAccepted, IInv, LockInv, ClientOK, NodeOK, Handling
    <3>3. gen[n] + 1 \in Gens /\ gen[n] + 1 <= restarts'[n] + 1
      BY <2>2, <3>1, <3>2, MaxRestartsAssumption DEF RunAccepted, Gens, TypeOK, NodeTypes
    <3>4. \A g \in Gens : waiter'[<<n, g>>] = IF g = gen[n] + 1 THEN "capture"
                          ELSE IF waiter[<<n, g>>] = "restart" THEN "gone"
                          ELSE waiter[<<n, g>>]
      BY <2>2, <3>1, <3>2, <3>3 DEF RunAccepted, NodeOK, GenOK, TypeOK, NodeTypes
    <3>5. \A m \in Nodes \ {n} :
           /\ home'[m] = home[m] /\ name'[m] = name[m] /\ req'[m] = req[m]
           /\ stopping'[m] = stopping[m] /\ restarts'[m] = restarts[m]
           /\ \A g \in Gens : waiter'[<<m, g>>] = waiter[<<m, g>>]
      BY <2>2, <3>1 DEF RunAccepted, TypeOK, NodeTypes
    <3>6. home'[n] \in Workspaces /\ name'[n] \in Names /\ req'[n] \in Requests
      BY <2>2, <3>1, <3>2 DEF RunAccepted, TypeOK, NodeTypes
    <3>7. Start(n, ws[c]) /\ UNCHANGED closes
      BY <2>2 DEF RunAccepted
    <3> QED
      BY <3>2, <3>3, <3>4, <3>5, <3>6, <3>7, StartNodes
  <2>3. CASE StopMark(c) \/ DeleteMark(c)
    <3>1. PICK ks : Mark(c, ws[c], ks)
      BY <2>3 DEF StopMark, DeleteMark
    <3>2. ws[c] \in Workspaces
      BY <2>3 DEF StopMark, DeleteMark, IInv, LockInv, ClientOK, Handling
    <3>3. UNCHANGED <<home, name, req, status, restarts, gen, closes, runVars>>
      BY <2>3 DEF StopMark, DeleteMark
    <3> QED
      BY <3>1, <3>2, <3>3, MarkNodes
  <2> QED
    BY <1>3, <2>1, <2>2, <2>3 DEF Handler
<1>4. ASSUME NEW n \in Nodes, NEW g \in Gens, ProcessExit(n, g) \/ ProcessDies(n, g)
      PROVE  NodeInv'
  <2>1. PICK outcome \in {"ok", "failed"} :
          proc' = [proc EXCEPT ![<<n, g>>] = outcome]
    BY <1>4 DEF ProcessExit, ProcessDies
  <2>2. UNCHANGED <<nodeVars, waiter>>
    BY <1>4 DEF ProcessExit, ProcessDies
  <2> QED
    BY <2>1, <2>2, ProcNodes DEF IInv, TypeOK, NodeTypes
<1>5. ASSUME NEW n \in Nodes, NEW g \in Gens, CaptureExit(n, g) PROVE NodeInv'
  <2>1. /\ NodeOK(n) /\ TypeOK /\ g = gen[n] /\ status[n] = "running"
        /\ proc[<<n, g>>] \in {"ok", "failed"} /\ waiter[<<n, g>>] = "capture"
    BY <1>5 DEF CaptureExit, IInv, NodeInv, NodeOK, GenOK
  <2>2. UNCHANGED <<home, name, req, stopping, gen, proc>>
    BY <1>5 DEF CaptureExit
  <2>3. CASE Restarts(n, g)
    <3>1. /\ restarts' = [restarts EXCEPT ![n] = restarts[n] + 1]
          /\ status' = [status EXCEPT ![n] = "starting"]
          /\ waiter' = [waiter EXCEPT ![<<n, g>>] = "restart"]
          /\ UNCHANGED closes
      BY <1>5, <2>3 DEF CaptureExit
    <3> SUFFICES ASSUME NEW m \in Nodes PROVE NodeOK(m)'
      BY DEF NodeInv
    <3>2. NodeOK(m)
      BY DEF IInv, NodeInv
    <3>3. \A h \in Gens :
            waiter'[<<m, h>>] = IF m = n /\ h = g THEN "restart" ELSE waiter[<<m, h>>]
      BY <2>1, <3>1 DEF TypeOK, NodeTypes
    <3>4. CASE m # n
      <4>1. status'[m] = status[m] /\ restarts'[m] = restarts[m]
        BY <2>1, <3>1, <3>4 DEF TypeOK, NodeTypes
      <4>2. \A h \in Gens : GenOK(m, h)'
        BY <2>2, <3>2, <3>3, <3>4, <4>1 DEF NodeOK, GenOK
      <4> QED
        BY <2>2, <3>1, <3>2, <3>3, <3>4, <4>1, <4>2 DEF NodeOK, Active, Ended
    <3>5. CASE m = n
      <4>1. /\ status'[n] = "starting" /\ restarts'[n] = restarts[n] + 1
            /\ restarts[n] \in Nat /\ gen[n] \in Nat
        BY <2>1, <3>1, <3>5 DEF TypeOK, NodeTypes
      <4>2. \A h \in Gens : GenOK(n, h)'
        BY <2>1, <2>2, <3>2, <3>3, <3>5, <4>1 DEF NodeOK, GenOK
      <4> QED
        BY <2>1, <2>2, <3>1, <3>2, <3>3, <3>5, <4>1, <4>2 DEF NodeOK, Active, Ended
    <3> QED
      BY <3>4, <3>5
  <2>4. CASE ~Restarts(n, g)
    <3>1. Finish(n, g) /\ UNCHANGED restarts
      BY <1>5, <2>4 DEF CaptureExit
    <3> QED
      BY <2>1, <2>2, <3>1, FinishNodes DEF Active
  <2> QED
    BY <2>3, <2>4
<1>6. ASSUME NEW n \in Nodes, NEW g \in Gens, RestartWake(n, g) PROVE NodeInv'
  <2>1. /\ NodeOK(n) /\ TypeOK /\ g = gen[n] /\ status[n] = "starting"
        /\ proc[<<n, g>>] \notin {"alive", "killed"} /\ waiter[<<n, g>>] = "restart"
    BY <1>6 DEF RestartWake, IInv, NodeInv, NodeOK, GenOK
  <2>2. UNCHANGED <<home, name, req, stopping, restarts>>
    BY <1>6 DEF RestartWake
  <2>3. CASE ~Overtaken(n) /\ Start(n, home[n]) /\ Relieve(n, g) /\ UNCHANGED closes
    <3>1. gen[n] + 1 \in Gens /\ gen[n] + 1 <= restarts'[n] + 1
      BY <2>1, <2>2, MaxRestartsAssumption DEF NodeOK, Gens, TypeOK, NodeTypes
    <3>2. waiter' = [waiter EXCEPT ![<<n, g>>] = "gone", ![<<n, gen[n] + 1>>] = "capture"]
      BY <2>3 DEF Relieve
    <3>3. gen[n] + 1 # gen[n]
      BY <2>1 DEF TypeOK, NodeTypes
    <3>4. \A h \in Gens : waiter'[<<n, h>>] = IF h = gen[n] + 1 THEN "capture"
                          ELSE IF waiter[<<n, h>>] = "restart" THEN "gone"
                          ELSE waiter[<<n, h>>]
      BY <2>1, <3>1, <3>2, <3>3 DEF NodeOK, GenOK, TypeOK, NodeTypes
    <3>5. \A m \in Nodes \ {n} : \A h \in Gens : waiter'[<<m, h>>] = waiter[<<m, h>>]
      BY <2>1, <3>2 DEF TypeOK, NodeTypes
    <3>6. home'[n] \in Workspaces /\ name'[n] \in Names /\ req'[n] \in Requests
      BY <2>1, <2>2 DEF NodeOK
    <3> QED
      BY <2>1, <2>2, <2>3, <3>1, <3>4, <3>5, <3>6, StartNodes
  <2>4. CASE Finish(n, g) /\ UNCHANGED <<gen, proc>>
    BY <2>1, <2>2, <2>4, FinishNodes DEF Active
  <2> QED
    BY <1>6, <2>3, <2>4 DEF RestartWake
<1>7. ASSUME NEW t \in Threads, Stopping(t) PROVE NodeInv'
  <2>1. CASE NodeDone(t) \/ KillTimeout(t)
    BY <2>1, NodeFrame DEF NodeDone, KillTimeout
  <2>2. CASE TermTimeout(t)
    BY <2>2, ProcNodes DEF TermTimeout, IInv, TypeOK, NodeTypes
  <2> QED
    BY <1>7, <2>1, <2>2 DEF Stopping
<1>8. ASSUME NEW t \in Sweepers, Sweeping(t) PROVE NodeInv'
  <2>1. t \in Threads
    BY DEF Sweepers, Threads
  <2>2. CASE SweepMark(t)
    <3>1. PICK w \in sweep[t] : Mark(t, w, Names)
      BY <2>2 DEF SweepMark
    <3>2. w \in Workspaces
      BY <2>1 DEF IInv, TypeOK, ThreadTypes
    <3>3. UNCHANGED <<home, name, req, status, restarts, gen, closes, runVars>>
      BY <2>2 DEF SweepMark
    <3> QED
      BY <2>1, <3>1, <3>2, <3>3, MarkNodes
  <2>3. CASE SweepReturn(t) \/ SweepEnd(t)
    BY <2>3, NodeFrame DEF SweepReturn, SweepEnd
  <2> QED
    BY <1>8, <2>2, <2>3 DEF Sweeping
<1>9. CASE \/ SafetyTick \/ SafetySnapshot \/ SafetyHalt \/ CloseBegin \/ CloseAdmission
           \/ UNCHANGED vars
  BY <1>9, NodeFrame DEF SafetyTick, SafetySnapshot, SafetyHalt, CloseBegin,
     CloseAdmission, vars
<1> QED
  BY <1>1, <1>2, <1>3, <1>4, <1>5, <1>6, <1>7, <1>8, <1>9 DEF Next, Capture

-----------------------------------------------------------------------------
(* Where active nodes are found.                                           *)

(* Every step but an accepted run only lets nodes age. *)
Ageing ==
  /\ UNCHANGED <<table, home, name>>
  /\ \A n \in Nodes : /\ Active(n)' => Active(n)
                      /\ status[n] # "absent" => status'[n] # "absent"
                      /\ stopping[n] => stopping'[n]

LEMMA StatusAges ==
  ASSUME IInv, NEW n \in Nodes, Active(n), UNCHANGED <<table, home, name, stopping>>,
         NEW s \in {"starting", "running", "stopped", "error"},
         status' = [status EXCEPT ![n] = s]
  PROVE  Ageing
BY DEF Ageing, Active, IInv, TypeOK, NodeTypes

LEMMA MarkAges ==
  ASSUME IInv, NEW t \in Threads, NEW w, NEW ks, Mark(t, w, ks),
         UNCHANGED <<table, home, name, status>>
  PROVE  Ageing
BY DEF Ageing, Active, Mark, IInv, TypeOK, NodeTypes

LEMMA FinishAges ==
  ASSUME IInv, NEW n \in Nodes, NEW g \in Gens, Finish(n, g), Active(n),
         UNCHANGED <<table, home, name, stopping>>
  PROVE  Ageing
<1>1. PICK s \in {"stopped", "error"} : status' = [status EXCEPT ![n] = s]
  BY DEF Finish
<1> QED
  BY <1>1, StatusAges

LEMMA CaptureAges ==
  ASSUME IInv, NEW n \in Nodes, NEW g \in Gens, Capture(n, g)
  PROVE  Ageing
<1>1. Active(n)
  BY DEF Capture, CaptureExit, RestartWake, IInv, NodeInv, NodeOK, GenOK, Active
<1>2. UNCHANGED <<table, home, name, stopping>>
  BY DEF Capture, CaptureExit, RestartWake
<1>3. CASE Finish(n, g)
  BY <1>1, <1>2, <1>3, FinishAges
<1>4. CASE status' = [status EXCEPT ![n] = "starting"]
  BY <1>1, <1>2, <1>4, StatusAges
<1>5. CASE status' = [status EXCEPT ![n] = "running"]
  BY <1>1, <1>2, <1>5, StatusAges
<1> QED
  BY <1>3, <1>4, <1>5 DEF Capture, CaptureExit, RestartWake, Start

LEMMA HandlerAges ==
  ASSUME IInv, NEW c \in Clients, Handler(c)
  PROVE  \/ Ageing
         \/ \E n \in Nodes, k \in Names, r \in Requests : RunAccepted(c, n, k, r)
<1> c \in Threads
  BY ThreadFacts
<1>1. CASE StopMark(c) \/ DeleteMark(c)
  <2>1. PICK ks : Mark(c, ws[c], ks)
    BY <1>1 DEF StopMark, DeleteMark
  <2>2. UNCHANGED <<table, home, name, status>>
    BY <1>1 DEF StopMark, DeleteMark, wsVars
  <2> QED
    BY <2>1, <2>2, MarkAges
<1>2. CASE \/ RunRefused(c) \/ StopReturn(c) \/ DeleteRemove(c)
           \/ BuildBegin(c) \/ BuildRefused(c) \/ BuildEnd(c)
  BY <1>2 DEF RunRefused, StopReturn, DeleteRemove, BuildBegin, BuildRefused, BuildEnd,
     wsVars, nodeVars, Ageing, Active
<1> QED
  BY <1>1, <1>2 DEF Handler

LEMMA OtherAges ==
  ASSUME IInv,
         \/ \E c \in Clients :
              \/ \E op \in {"run", "stop", "delete", "build"} : Receive(c, op)
              \/ Create(c)
         \/ \E n \in Nodes, g \in Gens : ProcessExit(n, g) \/ ProcessDies(n, g)
         \/ \E t \in Threads : Stopping(t)
         \/ SafetyTick \/ SafetySnapshot \/ SafetyHalt \/ CloseBegin \/ CloseAdmission
         \/ UNCHANGED vars
  PROVE  Ageing
<1>1. UNCHANGED <<table, nodeVars>>
  BY DEF Receive, Create, ProcessExit, ProcessDies, Stopping, NodeDone, TermTimeout,
     KillTimeout, SafetyTick, SafetySnapshot, SafetyHalt, CloseBegin, CloseAdmission,
     vars, wsVars
<1> QED
  BY <1>1 DEF Ageing, Active, nodeVars

LEMMA SweepingAges ==
  ASSUME IInv, NEW t \in Sweepers, Sweeping(t)
  PROVE  Ageing
<1>1. t \in Threads
  BY DEF Sweepers, Threads
<1>2. CASE SweepMark(t)
  <2>1. PICK w : Mark(t, w, Names)
    BY <1>2 DEF SweepMark
  <2>2. UNCHANGED <<table, home, name, status>>
    BY <1>2 DEF SweepMark, wsVars
  <2> QED
    BY <1>1, <2>1, <2>2, MarkAges
<1>3. CASE SweepReturn(t) \/ SweepEnd(t)
  BY <1>3 DEF SweepReturn, SweepEnd, wsVars, nodeVars, Ageing, Active
<1> QED
  BY <1>2, <1>3 DEF Sweeping

LEMMA TableStep == ASSUME IInv, [Next]_vars PROVE TableInv'
<1>1. CASE Ageing
  BY <1>1 DEF IInv, TypeOK, WorkspaceTypes, TableInv, Ageing
<1>2. ASSUME NEW c \in Clients, NEW n \in Nodes, NEW k \in Names, NEW r \in Requests,
             RunAccepted(c, n, k, r)
      PROVE  TableInv'
  <2>1. /\ ws[c] \in Workspaces /\ status[n] = "absent" /\ TypeOK /\ TableInv
        /\ NameFree(ws[c], k)
    BY <1>2 DEF RunAccepted, Admits, IInv, LockInv, ClientOK, Handling
  <2>2. /\ home' = [home EXCEPT ![n] = ws[c]] /\ name' = [name EXCEPT ![n] = k]
        /\ status' = [status EXCEPT ![n] = "running"]
        /\ table' = [table EXCEPT ![ws[c]][k] = n]
    BY <1>2 DEF RunAccepted, Start
  <2>3. \A w \in Workspaces, j \in Names :
          table'[w][j] = IF w = ws[c] /\ j = k THEN n ELSE table[w][j]
    BY <2>1, <2>2 DEF TypeOK, WorkspaceTypes
  <2>4. n # None
    BY NoneAssumption
  <2>5. \A w \in Workspaces, j \in Names : table[w][j] # n
    BY <2>1, <2>4 DEF TableInv
  <2>6. \A m \in Nodes : /\ home'[m] = IF m = n THEN ws[c] ELSE home[m]
                         /\ name'[m] = IF m = n THEN k ELSE name[m]
                         /\ status'[m] = IF m = n THEN "running" ELSE status[m]
    BY <2>1, <2>2 DEF TypeOK, NodeTypes
  <2>7. ASSUME NEW w \in Workspaces, NEW j \in Names, table'[w][j] # None
        PROVE  /\ status'[table'[w][j]] # "absent"
               /\ home'[table'[w][j]] = w /\ name'[table'[w][j]] = j
    <3>1. CASE w = ws[c] /\ j = k
      BY <2>3, <2>6, <3>1
    <3>2. CASE ~(w = ws[c] /\ j = k)
      <4>1. table'[w][j] = table[w][j] /\ table[w][j] \in Nodes \ {n}
        BY <2>1, <2>3, <2>5, <2>7, <3>2 DEF TypeOK, WorkspaceTypes
      <4> QED
        BY <2>1, <2>6, <2>7, <4>1 DEF TableInv
    <3> QED
      BY <3>1, <3>2
  <2>8. ASSUME NEW m \in Nodes, Active(m)'
        PROVE  table'[home'[m]][name'[m]] = m
    <3>1. CASE m = n
      BY <2>1, <2>3, <2>6, <3>1
    <3>2. CASE m # n
      <4>1. /\ Active(m) /\ home'[m] = home[m] /\ name'[m] = name[m]
            /\ home[m] \in Workspaces /\ name[m] \in Names
        BY <2>6, <2>8, <3>2 DEF Active, IInv, NodeInv, NodeOK
      <4>2. table[home[m]][name[m]] = m
        BY <2>1, <4>1 DEF TableInv
      <4>3. ~(home[m] = ws[c] /\ name[m] = k)
        BY <2>1, <4>1, <4>2, NoneAssumption DEF NameFree
      <4> QED
        BY <2>3, <4>1, <4>2, <4>3
    <3> QED
      BY <3>1, <3>2
  <2> QED
    BY <2>7, <2>8 DEF TableInv
<1> QED
  BY <1>1, <1>2, CaptureAges, HandlerAges, OtherAges, SweepingAges DEF Next

-----------------------------------------------------------------------------
(* BuildMu and its holders.                                                *)

(* A step of a thread that is no handler. *)
LEMMA LockFrame ==
  ASSUME IInv, TypeOK', Ageing, UNCHANGED <<items, building, buildMu>>,
         \A c \in Clients : pc'[c] = pc[c] /\ ws'[c] = ws[c]
  PROVE  LockInv'
<1>1. ASSUME NEW c \in Clients PROVE ClientOK(c)'
  <2>1. ClientOK(c)
    BY DEF IInv, LockInv
  <2> QED
    BY <2>1 DEF ClientOK, Ageing
<1>2. ASSUME NEW w \in Workspaces PROVE BuildOK(w)'
  <2>1. BuildOK(w)
    BY DEF IInv, LockInv
  <2> QED
    BY <2>1 DEF BuildOK
<1> QED
  BY <1>1, <1>2 DEF IInv, LockInv, Ageing

(* A step of the handler c that leaves BuildMu alone. *)
LEMMA ClientFrame ==
  ASSUME IInv, Ageing, NEW c \in Clients, NEW l \in Handling \union {"idle"},
         NEW x \in Workspaces \union {None},
         pc[c] # "building", l \notin {"deleting", "building"},
         l \in Handling => x \in Workspaces,
         pc' = [pc EXCEPT ![c] = l], ws' = [ws EXCEPT ![c] = x],
         items \subseteq items', UNCHANGED <<building, buildMu>>
  PROVE  LockInv'
<1>0. TypeOK /\ c \in Threads
  BY ThreadFacts DEF IInv
<1>1. ASSUME NEW d \in Clients PROVE ClientOK(d)'
  <2>1. ClientOK(d) /\ d \in Threads
    BY ThreadFacts DEF IInv, LockInv
  <2>2. CASE d = c
    BY <1>0, <2>2 DEF ClientOK, TypeOK, ThreadTypes
  <2>3. CASE d # c
    <3>1. pc'[d] = pc[d] /\ ws'[d] = ws[d]
      BY <1>0, <2>1, <2>3 DEF TypeOK, ThreadTypes
    <3> QED
      BY <2>1, <3>1 DEF ClientOK, Ageing
  <2> QED
    BY <2>2, <2>3
<1>2. ASSUME NEW w \in Workspaces PROVE BuildOK(w)'
  <2>1. BuildOK(w)
    BY DEF IInv, LockInv
  <2>2. ASSUME building[w]
        PROVE  pc'[buildMu[w]] = "building" /\ ws'[buildMu[w]] = w
    <3>1. buildMu[w] \in Threads /\ buildMu[w] # c
      BY <2>1, <2>2, ThreadFacts DEF BuildOK
    <3> QED
      BY <1>0, <2>1, <2>2, <3>1 DEF BuildOK, TypeOK, ThreadTypes
  <2> QED
    BY <2>1, <2>2 DEF BuildOK
<1> QED
  BY <1>1, <1>2 DEF IInv, LockInv, Ageing

(* The handler c takes BuildMu of its workspace. *)
LEMMA LockTaken ==
  ASSUME IInv, Ageing, NEW c \in Clients, NEW l \in {"deleting", "building"},
         ws[c] \in Workspaces, BuildMuFree(ws[c]), pc[c] # "building",
         pc' = [pc EXCEPT ![c] = l], buildMu' = [buildMu EXCEPT ![ws[c]] = c],
         UNCHANGED <<items, ws>>,
         l = "deleting" => /\ UNCHANGED building
                           /\ \A n \in Nodes : Active(n)' /\ home[n] = ws[c] => stopping'[n],
         l = "building" => /\ building' = [building EXCEPT ![ws[c]] = TRUE]
                           /\ ws[c] \in items
  PROVE  LockInv'
<1>0. TypeOK /\ c \in Threads
  BY ThreadFacts DEF IInv
<1>1. \A w \in Workspaces : buildMu'[w] = IF w = ws[c] THEN c ELSE buildMu[w]
  BY <1>0 DEF TypeOK, WorkspaceTypes
<1>2. ASSUME NEW d \in Clients PROVE ClientOK(d)'
  <2>1. ClientOK(d) /\ d \in Threads
    BY ThreadFacts DEF IInv, LockInv
  <2>2. CASE d = c
    BY <1>0, <1>1, <2>2 DEF ClientOK, TypeOK, ThreadTypes, Handling, Ageing
  <2>3. CASE d # c
    <3>1. pc'[d] = pc[d]
      BY <1>0, <2>1, <2>3 DEF TypeOK, ThreadTypes
    <3>2. pc[d] \in {"deleting", "building"} => ws[d] # ws[c] /\ ws[d] \in Workspaces
      BY <2>1, NoneAssumption DEF ClientOK, BuildMuFree, Threads, Handling
    <3> QED
      BY <1>1, <2>1, <3>1, <3>2 DEF ClientOK, Ageing
  <2> QED
    BY <2>2, <2>3
<1>3. ASSUME NEW w \in Workspaces PROVE BuildOK(w)'
  <2>1. BuildOK(w)
    BY DEF IInv, LockInv
  <2>2. CASE w = ws[c]
    <3>1. ~building[w]
      BY <2>1, <2>2, NoneAssumption DEF BuildOK, BuildMuFree, Threads
    <3>2. pc'[c] = l
      BY <1>0 DEF TypeOK, ThreadTypes
    <3> QED
      BY <1>0, <1>1, <2>2, <3>1, <3>2 DEF BuildOK, TypeOK, WorkspaceTypes
  <2>3. CASE w # ws[c]
    <3>1. building'[w] = building[w] /\ buildMu'[w] = buildMu[w]
      BY <1>0, <1>1, <2>3 DEF TypeOK, WorkspaceTypes
    <3>2. ASSUME building[w] PROVE pc'[buildMu[w]] = "building"
      <4>1. buildMu[w] \in Threads /\ buildMu[w] # c
        BY <2>1, <3>2, ThreadFacts DEF BuildOK
      <4> QED
        BY <1>0, <2>1, <3>2, <4>1 DEF BuildOK, TypeOK, ThreadTypes
    <3> QED
      BY <2>1, <3>1, <3>2 DEF BuildOK
  <2> QED
    BY <2>2, <2>3
<1> QED
  BY <1>2, <1>3 DEF IInv, LockInv, Ageing

(* The handler c, which holds BuildMu, releases it and answers. *)
LEMMA LockReleased ==
  ASSUME IInv, Ageing, NEW c \in Clients, pc[c] \in {"deleting", "building"},
         BuildMuUnlock(ws[c]), Answer(c),
         pc[c] = "deleting" => items' \in {items, items \ {ws[c]}} /\ UNCHANGED building,
         pc[c] = "building" => /\ UNCHANGED items
                               /\ building' = [building EXCEPT ![ws[c]] = FALSE]
  PROVE  LockInv'
<1>0. TypeOK /\ c \in Threads /\ ClientOK(c) /\ ws[c] \in Workspaces /\ buildMu[ws[c]] = c
  BY ThreadFacts DEF IInv, LockInv, ClientOK, Handling
<1>1. /\ \A w \in Workspaces : buildMu'[w] = IF w = ws[c] THEN None ELSE buildMu[w]
      /\ \A d \in Threads : /\ pc'[d] = IF d = c THEN "idle" ELSE pc[d]
                            /\ ws'[d] = IF d = c THEN None ELSE ws[d]
  BY <1>0 DEF BuildMuUnlock, Answer, TypeOK, WorkspaceTypes, ThreadTypes
<1>2. ASSUME NEW d \in Clients PROVE ClientOK(d)'
  <2>1. ClientOK(d) /\ d \in Threads
    BY ThreadFacts DEF IInv, LockInv
  <2>2. CASE d = c
    BY <1>1, <2>1, <2>2 DEF ClientOK, Handling
  <2>3. CASE d # c
    <3>1. pc[d] \in {"deleting", "building"} => ws[d] # ws[c] /\ ws[d] \in Workspaces
      BY <1>0, <2>1, <2>3 DEF ClientOK, Handling
    <3> QED
      BY <1>1, <2>1, <2>3, <3>1 DEF ClientOK, Ageing
  <2> QED
    BY <2>2, <2>3
<1>3. ASSUME NEW w \in Workspaces PROVE BuildOK(w)'
  <2>1. BuildOK(w)
    BY DEF IInv, LockInv
  <2>2. CASE w = ws[c]
    <3>1. pc[c] = "deleting" => ~building[w]
      BY <1>0, <2>1, <2>2 DEF BuildOK
    <3> QED
      BY <1>0, <2>2, <3>1 DEF BuildOK, TypeOK, WorkspaceTypes
  <2>3. CASE w # ws[c]
    <3>1. building'[w] = building[w] /\ buildMu'[w] = buildMu[w] /\ (w \in items => w \in items')
      BY <1>0, <1>1, <2>3 DEF TypeOK, WorkspaceTypes
    <3>2. ASSUME building[w]
          PROVE  pc'[buildMu[w]] = "building" /\ ws'[buildMu[w]] = w
      <4>1. buildMu[w] \in Threads /\ buildMu[w] # c
        BY <2>1, <2>3, <3>2, ThreadFacts DEF BuildOK
      <4> QED
        BY <1>1, <2>1, <3>2, <4>1 DEF BuildOK
    <3> QED
      BY <2>1, <3>1, <3>2 DEF BuildOK
  <2> QED
    BY <2>2, <2>3
<1>4. ASSUME NEW n \in Nodes, Active(n)', ~stopping'[n] PROVE home'[n] \in items'
  <2>1. Active(n) /\ ~stopping[n] /\ home[n] \in items /\ home'[n] = home[n]
    BY <1>4 DEF Ageing, IInv, LockInv
  <2>2. pc[c] = "deleting" => home[n] # ws[c]
    BY <1>0, <2>1 DEF ClientOK
  <2> QED
    BY <2>1, <2>2
<1> QED
  BY <1>2, <1>3, <1>4 DEF LockInv

(* After Mark every active node of the workspace has been told to stop. *)
LEMMA MarkCovers ==
  ASSUME IInv, NEW t \in Threads, NEW w \in Workspaces, Mark(t, w, Names),
         NEW n \in Nodes, Active(n), home[n] = w
  PROVE  stopping'[n]
<1>1. name[n] \in Names /\ table[w][name[n]] = n
  BY DEF IInv, NodeInv, NodeOK, Active, TableInv
<1>2. n \in Victims(w, Names)
  BY <1>1, NoneAssumption DEF Victims, NodesOf
<1> QED
  BY <1>2 DEF Mark

LEMMA LockStep == ASSUME IInv, [Next]_vars, TypeOK' PROVE LockInv'
<1>1. ASSUME NEW c \in Clients, NEW op \in {"run", "stop", "delete", "build"},
             Receive(c, op)
      PROVE  LockInv'
  <2>1. Ageing
    BY <1>1, OtherAges
  <2>2. PICK w \in items : ws' = [ws EXCEPT ![c] = w]
    BY <1>1 DEF Receive
  <2>3. /\ w \in Workspaces /\ op \in Handling
        /\ op \notin {"deleting", "building"}
    BY DEF IInv, TypeOK, WorkspaceTypes, Handling
  <2>4. /\ pc[c] = "idle" /\ pc' = [pc EXCEPT ![c] = op]
        /\ UNCHANGED <<items, building, buildMu>>
    BY <1>1 DEF Receive, wsVars
  <2> QED
    BY <2>1, <2>2, <2>3, <2>4, ClientFrame
<1>2. ASSUME NEW c \in Clients, Create(c) PROVE LockInv'
  <2>1. Ageing
    BY <1>2, OtherAges
  <2>2. /\ items \subseteq items' /\ UNCHANGED <<building, buildMu, pc, ws, nodeVars>>
    BY <1>2 DEF Create, threadVars
  <2> QED
    BY <2>1, <2>2 DEF IInv, LockInv, ClientOK, BuildOK, Ageing
<1>3. ASSUME NEW c \in Clients, Handler(c) PROVE LockInv'
  <2>0. TypeOK /\ c \in Threads /\ ClientOK(c)
    BY ThreadFacts DEF IInv, LockInv
  <2>1. CASE RunRefused(c) \/ StopReturn(c) \/ BuildRefused(c)
    <3>1. /\ Answer(c) /\ UNCHANGED <<items, building, buildMu>>
          /\ pc[c] # "building"
      BY <2>1 DEF RunRefused, StopReturn, BuildRefused, wsVars
    <3>2. Ageing
      BY <2>1 DEF RunRefused, StopReturn, BuildRefused, wsVars, nodeVars, Ageing, Active
    <3> QED
      BY <3>1, <3>2, ClientFrame DEF Answer, Handling
  <2>2. ASSUME NEW n \in Nodes, NEW k \in Names, NEW r \in Requests,
               RunAccepted(c, n, k, r)
        PROVE  LockInv'
    <3>1. /\ ws[c] \in Workspaces /\ ws[c] \in items /\ buildMu[ws[c]] = None
          /\ pc[c] = "run" /\ status[n] = "absent"
      BY <2>0, <2>2 DEF RunAccepted, Admits, BuildMuFree, ClientOK, Handling
    <3>2. /\ \A m \in Nodes : /\ home'[m] = IF m = n THEN ws[c] ELSE home[m]
                              /\ m # n => status'[m] = status[m]
          /\ UNCHANGED <<items, building, buildMu, stopping>>
      BY <2>0, <2>2 DEF RunAccepted, Start, TypeOK, NodeTypes
    <3>3. \A d \in Threads : /\ pc'[d] = IF d = c THEN "idle" ELSE pc[d]
                             /\ ws'[d] = IF d = c THEN None ELSE ws[d]
      BY <2>0, <2>2 DEF RunAccepted, Answer, TypeOK, ThreadTypes
    <3>4. ASSUME NEW d \in Clients PROVE ClientOK(d)'
      <4>1. ClientOK(d) /\ d \in Threads
        BY ThreadFacts DEF IInv, LockInv
      <4>2. pc[d] = "deleting" => ws[d] # ws[c]
        BY <3>1, <4>1, NoneAssumption DEF ClientOK, Threads
      <4>3. CASE d = c
        BY <3>3, <4>1, <4>3 DEF ClientOK, Handling
      <4>4. CASE d # c
        BY <3>2, <3>3, <4>1, <4>2, <4>4 DEF ClientOK, Active
      <4> QED
        BY <4>3, <4>4
    <3>5. ASSUME NEW w \in Workspaces PROVE BuildOK(w)'
      <4>1. BuildOK(w)
        BY DEF IInv, LockInv
      <4>2. building[w] => buildMu[w] \in Threads /\ buildMu[w] # c
        BY <3>1, <4>1, ThreadFacts DEF BuildOK
      <4> QED
        BY <3>2, <3>3, <4>1, <4>2 DEF BuildOK
    <3> QED
      BY <3>1, <3>2, <3>4, <3>5 DEF IInv, LockInv, Active
  <2>3. CASE StopMark(c)
    <3>1. Ageing
      BY <1>3, <2>3, HandlerAges DEF StopMark, RunAccepted
    <3>2. /\ pc[c] = "stop" /\ pc' = [pc EXCEPT ![c] = "stopping"]
          /\ UNCHANGED <<items, building, buildMu, ws>>
      BY <2>3 DEF StopMark, wsVars
    <3>3. ws[c] \in Workspaces /\ ws' = [ws EXCEPT ![c] = ws[c]]
      BY <2>0, <3>2 DEF ClientOK, Handling, TypeOK, ThreadTypes
    <3> QED
      BY <3>1, <3>2, <3>3, ClientFrame DEF Handling
  <2>4. CASE DeleteMark(c)
    <3>1. Ageing
      BY <1>3, <2>4, HandlerAges DEF DeleteMark, RunAccepted
    <3>2. /\ pc[c] = "delete" /\ BuildMuFree(ws[c]) /\ Mark(c, ws[c], Names)
          /\ buildMu' = [buildMu EXCEPT ![ws[c]] = c]
          /\ pc' = [pc EXCEPT ![c] = "deleting"]
          /\ UNCHANGED <<items, building, ws>>
      BY <2>4 DEF DeleteMark
    <3>3. ws[c] \in Workspaces
      BY <2>0, <3>2 DEF ClientOK, Handling
    <3>4. \A n \in Nodes : Active(n)' /\ home[n] = ws[c] => stopping'[n]
      BY <2>0, <3>1, <3>2, <3>3, MarkCovers DEF Ageing
    <3> QED
      BY <3>1, <3>2, <3>3, <3>4, LockTaken
  <2>5. CASE DeleteRemove(c)
    <3>1. Ageing
      BY <1>3, <2>5, HandlerAges DEF DeleteRemove, RunAccepted
    <3> QED
      BY <2>5, <3>1, LockReleased DEF DeleteRemove
  <2>6. CASE BuildBegin(c)
    <3>1. Ageing
      BY <1>3, <2>6, HandlerAges DEF BuildBegin, RunAccepted
    <3>2. ws[c] \in Workspaces
      BY <2>0, <2>6 DEF BuildBegin, ClientOK, Handling
    <3> QED
      BY <2>6, <3>1, <3>2, LockTaken DEF BuildBegin
  <2>7. CASE BuildEnd(c)
    <3>1. Ageing
      BY <1>3, <2>7, HandlerAges DEF BuildEnd, RunAccepted
    <3> QED
      BY <2>7, <3>1, LockReleased DEF BuildEnd
  <2> QED
    BY <1>3, <2>1, <2>2, <2>3, <2>4, <2>5, <2>6, <2>7 DEF Handler
<1>4. ASSUME Ageing, UNCHANGED <<items, building, buildMu>>,
             UNCHANGED ws, \A c \in Clients : pc'[c] = pc[c]
      PROVE  LockInv'
  BY <1>4, LockFrame
<1>5. ASSUME NEW n \in Nodes, NEW g \in Gens,
             ProcessExit(n, g) \/ ProcessDies(n, g) \/ Capture(n, g)
      PROVE  LockInv'
  <2>1. Ageing
    BY <1>5, OtherAges, CaptureAges
  <2>2. UNCHANGED <<items, building, buildMu, ws, pc>>
    BY <1>5 DEF ProcessExit, ProcessDies, Capture, CaptureExit, RestartWake, wsVars,
       threadVars
  <2> QED
    BY <1>4, <2>1, <2>2
<1>6. ASSUME NEW t \in Threads, Stopping(t) PROVE LockInv'
  <2>1. Ageing
    BY <1>6, OtherAges
  <2>2. UNCHANGED <<items, building, buildMu, ws, pc>>
    BY <1>6 DEF Stopping, NodeDone, TermTimeout, KillTimeout, wsVars
  <2> QED
    BY <1>4, <2>1, <2>2
<1>7. ASSUME NEW t \in Sweepers, Sweeping(t) PROVE LockInv'
  <2>1. Ageing
    BY <1>7, SweepingAges
  <2>2. UNCHANGED <<items, building, buildMu, ws>>
    BY <1>7 DEF Sweeping, SweepMark, SweepReturn, SweepEnd, wsVars
  <2>3. PICK l : pc' = [pc EXCEPT ![t] = l]
    BY <1>7 DEF Sweeping, SweepMark, SweepReturn, SweepEnd
  <2>4. \A c \in Clients : pc'[c] = pc[c]
    BY <2>3, ThreadFacts DEF IInv, TypeOK, ThreadTypes
  <2> QED
    BY <1>4, <2>1, <2>2, <2>4
<1>8. CASE SafetyTick \/ SafetySnapshot \/ SafetyHalt \/ CloseBegin \/ CloseAdmission
  <2>1. Ageing
    BY <1>8, OtherAges
  <2>2. UNCHANGED <<items, building, buildMu, ws>>
    BY <1>8 DEF SafetyTick, SafetySnapshot, SafetyHalt, CloseBegin, CloseAdmission, wsVars
  <2>3. \/ \E l \in Labels : pc' = [pc EXCEPT ![Loop] = l]
        \/ \E l \in Labels : pc' = [pc EXCEPT ![Closer] = l]
    BY <1>8 DEF SafetyTick, SafetySnapshot, SafetyHalt, CloseBegin, CloseAdmission, Labels
  <2>4. \A c \in Clients : pc'[c] = pc[c]
    BY <2>3, ThreadFacts DEF IInv, TypeOK, ThreadTypes, Sweepers
  <2> QED
    BY <1>4, <2>1, <2>2, <2>4
<1>9. CASE UNCHANGED vars
  <2>1. Ageing
    BY <1>9, OtherAges
  <2> QED
    BY <1>4, <1>9, <2>1 DEF vars, wsVars, threadVars
<1> QED
  BY <1>1, <1>2, <1>3, <1>5, <1>6, <1>7, <1>8, <1>9 DEF Next

-----------------------------------------------------------------------------
(* The sweeps of an E-Stop and of Close.                                   *)

LEMMA SweeperFacts ==
  /\ Loop \in Threads /\ Closer \in Threads /\ Loop # Closer
  /\ \A t \in Sweepers : t \in Threads /\ (t = Loop \/ t = Closer)
  /\ \A c \in Clients : c # Loop /\ c # Closer
BY ThreadAssumption DEF Threads, Sweepers

(* A step that moves neither sweeper. *)
LEMMA SweepFrame ==
  ASSUME IInv, Ageing, estop => estop', UNCHANGED <<closing, sweep>>,
         \A t \in Sweepers : pc'[t] = pc[t]
  PROVE  SweepInv'
<1>1. ASSUME NEW t \in Sweepers PROVE SweeperOK(t)'
  <2>1. SweeperOK(t)
    BY DEF IInv, SweepInv
  <2> QED
    BY <2>1 DEF SweeperOK, Ageing
<1> QED
  BY <1>1, SweeperFacts DEF IInv, SweepInv, Sweepers

(* A step of the sweeper s that keeps what SweeperOK says of it. *)
LEMMA SweeperMoves ==
  ASSUME IInv, Ageing, NEW s \in Sweepers, estop => estop', closing => closing',
         NEW l, pc' = [pc EXCEPT ![s] = l],
         \A t \in Sweepers \ {s} : sweep'[t] = sweep[t],
         SweeperOK(s)',
         s = Loop => /\ l \in {"watch", "tripped", "sweep", "sweeping", "swept", "halted"}
                     /\ l \notin {"watch", "halted"} => estop',
         s = Closer => /\ l \in {"open", "draining", "sweep", "sweeping", "closed"}
                       /\ l \notin {"open", "draining"} => closing'
  PROVE  SweepInv'
<1>0. /\ pc'[s] = l
      /\ \A t \in Threads \ {s} : pc'[t] = pc[t]
  BY SweeperFacts DEF IInv, TypeOK, ThreadTypes
<1>1. ASSUME NEW t \in Sweepers PROVE SweeperOK(t)'
  <2>1. SweeperOK(t)
    BY DEF IInv, SweepInv
  <2> QED
    BY <1>0, <2>1, SweeperFacts DEF SweeperOK, Ageing
<1>2. CASE s = Loop
  BY <1>0, <1>1, <1>2, SweeperFacts DEF IInv, SweepInv
<1>3. CASE s = Closer
  BY <1>0, <1>1, <1>3, SweeperFacts DEF IInv, SweepInv
<1> QED
  BY <1>2, <1>3, SweeperFacts

LEMMA SweepStep == ASSUME IInv, [Next]_vars PROVE SweepInv'
<1>0. TypeOK
  BY DEF IInv
<1>1. ASSUME NEW c \in Clients, NEW x, pc' = [pc EXCEPT ![c] = x],
             UNCHANGED <<closing, sweep, estop>>, Ageing
      PROVE  SweepInv'
  <2>1. \A t \in Sweepers : pc'[t] = pc[t]
    BY <1>0, <1>1, SweeperFacts DEF TypeOK, ThreadTypes
  <2> QED
    BY <1>1, <2>1, SweepFrame
<1>2. ASSUME NEW c \in Clients, NEW op \in {"run", "stop", "delete", "build"},
             Receive(c, op)
      PROVE  SweepInv'
  <2>1. Ageing
    BY <1>2, OtherAges
  <2> QED
    BY <1>1, <1>2, <2>1 DEF Receive, wsVars
<1>3. ASSUME NEW c \in Clients, Create(c) PROVE SweepInv'
  <2>1. Ageing
    BY <1>3, OtherAges
  <2> QED
    BY <1>3, <2>1, SweepFrame DEF Create, threadVars
<1>4. ASSUME NEW c \in Clients, Handler(c), Ageing PROVE SweepInv'
  <2>1. PICK x : pc' = [pc EXCEPT ![c] = x]
    BY <1>4 DEF Handler, RunRefused, RunAccepted, StopMark, StopReturn, DeleteMark,
       DeleteRemove, BuildBegin, BuildRefused, BuildEnd, Answer
  <2>2. UNCHANGED <<closing, sweep, estop>>
    BY <1>4 DEF Handler, RunRefused, RunAccepted, StopMark, StopReturn, DeleteMark,
       DeleteRemove, BuildBegin, BuildRefused, BuildEnd, wsVars
  <2> QED
    BY <1>1, <1>4, <2>1, <2>2
<1>5. ASSUME NEW c \in Clients, NEW n \in Nodes, NEW k \in Names, NEW r \in Requests,
             RunAccepted(c, n, k, r)
      PROVE  SweepInv'
  <2>1. /\ ~estop /\ ~closing /\ pc' = [pc EXCEPT ![c] = "idle"]
        /\ UNCHANGED <<closing, sweep, estop>>
    BY <1>5 DEF RunAccepted, Admits, Answer
  <2>2. \A t \in Sweepers : pc'[t] = pc[t]
    BY <1>0, <2>1, SweeperFacts DEF TypeOK, ThreadTypes
  <2> QED
    BY <2>1, <2>2, SweeperFacts DEF IInv, SweepInv, SweeperOK, Sweepers
<1>6. ASSUME NEW n \in Nodes, NEW g \in Gens,
             ProcessExit(n, g) \/ ProcessDies(n, g) \/ Capture(n, g)
      PROVE  SweepInv'
  <2>1. Ageing
    BY <1>6, OtherAges, CaptureAges
  <2>2. UNCHANGED <<closing, sweep, pc>>
    BY <1>6, SMT DEF ProcessExit, ProcessDies, Capture, CaptureExit, RestartWake, wsVars,
       threadVars
  <2>3. estop => estop'
    BY <1>6, Zenon DEF ProcessExit, ProcessDies, Capture, CaptureExit, RestartWake
  <2> QED
    BY <2>1, <2>2, <2>3, SweepFrame
<1>7. ASSUME NEW t \in Threads, Stopping(t) PROVE SweepInv'
  <2>1. Ageing
    BY <1>7, OtherAges
  <2>2. UNCHANGED <<closing, sweep, pc, estop>>
    BY <1>7 DEF Stopping, NodeDone, TermTimeout, KillTimeout, wsVars
  <2> QED
    BY <2>1, <2>2, SweepFrame
<1>8. ASSUME NEW t \in Sweepers, Sweeping(t) PROVE SweepInv'
  <2>0. /\ t \in Threads /\ Ageing /\ SweeperOK(t) /\ pc[t] \in {"sweep", "sweeping"}
        /\ UNCHANGED <<estop, closing>>
    BY <1>8, SweepingAges, SweeperFacts
       DEF IInv, SweepInv, Sweeping, SweepMark, SweepReturn, SweepEnd, wsVars
  <2>1. CASE SweepMark(t)
    <3>1. PICK w \in sweep[t] :
            Mark(t, w, Names) /\ sweep' = [sweep EXCEPT ![t] = sweep[t] \ {w}]
      BY <2>1 DEF SweepMark
    <3>2. /\ w \in Workspaces /\ sweep'[t] = sweep[t] \ {w}
          /\ \A s \in Sweepers \ {t} : sweep'[s] = sweep[s]
      BY <1>0, <2>0, <3>1, SweeperFacts DEF TypeOK, ThreadTypes
    <3>3. pc' = [pc EXCEPT ![t] = "sweeping"] /\ pc'[t] = "sweeping"
      BY <1>0, <2>0, <2>1 DEF SweepMark, TypeOK, ThreadTypes
    <3>4. ASSUME NEW n \in Nodes, Active(n)', ~stopping'[n]
          PROVE  home'[n] \in sweep'[t]
      <4>1. Active(n) /\ ~stopping[n] /\ home'[n] = home[n] /\ home[n] \in sweep[t]
        BY <2>0, <3>4 DEF Ageing, SweeperOK
      <4>2. home[n] # w
        BY <2>0, <3>1, <3>2, <3>4, <4>1, MarkCovers
      <4> QED
        BY <3>2, <4>1, <4>2
    <3>5. SweeperOK(t)'
      BY <3>3, <3>4 DEF SweeperOK
    <3> QED
      BY <2>0, <3>2, <3>3, <3>5, SweeperMoves, SweeperFacts DEF IInv, SweepInv
  <2>2. CASE SweepReturn(t)
    <3>1. pc' = [pc EXCEPT ![t] = "sweep"] /\ pc'[t] = "sweep" /\ UNCHANGED sweep
      BY <1>0, <2>0, <2>2 DEF SweepReturn, TypeOK, ThreadTypes
    <3>2. SweeperOK(t)'
      BY <2>0, <3>1 DEF SweeperOK, Ageing
    <3> QED
      BY <2>0, <3>1, <3>2, SweeperMoves, SweeperFacts DEF IInv, SweepInv
  <2>3. CASE SweepEnd(t)
    <3>1. /\ pc' = [pc EXCEPT ![t] = IF t = Loop THEN "swept" ELSE "closed"]
          /\ UNCHANGED sweep /\ sweep[t] = {}
      BY <2>3 DEF SweepEnd
    <3>2. SweeperOK(t)'
      BY <2>0, <3>1 DEF SweeperOK, Ageing
    <3> QED
      BY <2>0, <3>1, <3>2, SweeperMoves, SweeperFacts DEF IInv, SweepInv
  <2> QED
    BY <1>8, <2>1, <2>2, <2>3 DEF Sweeping
<1>9. CASE SafetyTick
  <2>1. Ageing /\ pc[Loop] = "watch"
    BY <1>9, OtherAges DEF SafetyTick
  <2>2. /\ pc' = [pc EXCEPT ![Loop] = IF estop' THEN "tripped" ELSE "watch"]
        /\ UNCHANGED <<closing, sweep>> /\ (estop => estop')
    BY <1>9 DEF SafetyTick, wsVars
  <2>3. SweeperOK(Loop)'
    BY <1>0, <2>2, SweeperFacts DEF SweeperOK, TypeOK, ThreadTypes
  <2> QED
    BY <2>1, <2>2, <2>3, SweeperMoves, SweeperFacts DEF Sweepers
<1>10. CASE SafetySnapshot
  <2>1. Ageing /\ pc[Loop] = "tripped" /\ estop
    BY <1>10, OtherAges DEF SafetySnapshot, IInv, SweepInv
  <2>2. /\ pc' = [pc EXCEPT ![Loop] = "sweep"] /\ sweep' = [sweep EXCEPT ![Loop] = items]
        /\ UNCHANGED <<closing, estop, items, nodeVars>>
    BY <1>10 DEF SafetySnapshot, wsVars
  <2>3. sweep'[Loop] = items /\ pc'[Loop] = "sweep" /\ sweep'[Closer] = sweep[Closer]
    BY <1>0, <2>2, SweeperFacts DEF TypeOK, ThreadTypes
  <2>4. SweeperOK(Loop)'
    BY <2>2, <2>3 DEF SweeperOK, IInv, LockInv, nodeVars, Active
  <2> QED
    BY <2>1, <2>2, <2>3, <2>4, SweeperMoves, SweeperFacts DEF Sweepers
<1>11. CASE SafetyHalt
  <2>1. Ageing
    BY <1>11, OtherAges
  <2>2. pc' = [pc EXCEPT ![Loop] = "halted"] /\ UNCHANGED <<closing, estop, sweep>>
    BY <1>11 DEF SafetyHalt, wsVars
  <2>3. SweeperOK(Loop)'
    BY <1>0, <2>2, SweeperFacts DEF SweeperOK, TypeOK, ThreadTypes
  <2> QED
    BY <2>1, <2>2, <2>3, SweeperMoves, SweeperFacts DEF Sweepers
<1>12. CASE CloseBegin
  <2>1. Ageing
    BY <1>12, OtherAges
  <2>2. pc' = [pc EXCEPT ![Closer] = "draining"] /\ UNCHANGED <<closing, estop, sweep>>
    BY <1>12 DEF CloseBegin, wsVars
  <2>3. SweeperOK(Closer)'
    BY <1>0, <2>2, SweeperFacts DEF SweeperOK, TypeOK, ThreadTypes
  <2> QED
    BY <2>1, <2>2, <2>3, SweeperMoves, SweeperFacts DEF Sweepers
<1>13. CASE CloseAdmission
  <2>1. Ageing
    BY <1>13, OtherAges
  <2>2. /\ pc' = [pc EXCEPT ![Closer] = "sweep"] /\ closing'
        /\ sweep' = [sweep EXCEPT ![Closer] = items] /\ UNCHANGED <<estop, items, nodeVars>>
    BY <1>13 DEF CloseAdmission
  <2>3. /\ sweep'[Closer] = items /\ pc'[Closer] = "sweep" /\ sweep'[Loop] = sweep[Loop]
    BY <1>0, <2>2, SweeperFacts DEF TypeOK, ThreadTypes
  <2>4. SweeperOK(Closer)'
    BY <2>2, <2>3 DEF SweeperOK, IInv, LockInv, nodeVars, Active
  <2> QED
    BY <2>1, <2>2, <2>3, <2>4, SweeperMoves, SweeperFacts DEF Sweepers
<1>14. CASE UNCHANGED vars
  <2>1. Ageing
    BY <1>14, OtherAges
  <2> QED
    BY <1>14, <2>1, SweepFrame DEF vars, wsVars, threadVars
<1> QED
  BY <1>2, <1>3, <1>4, <1>5, <1>6, <1>7, <1>8, <1>9, <1>10, <1>11, <1>12, <1>13, <1>14,
     HandlerAges DEF Next

-----------------------------------------------------------------------------
(* Theorems.                                                               *)

LEMMA IInvStep == IInv /\ [Next]_vars => IInv'
<1> SUFFICES ASSUME IInv, [Next]_vars PROVE IInv'
  OBVIOUS
<1>1. TypeOK'
  BY TypeStep
<1>2. NodeInv'
  BY NodeStep
<1>3. TableInv'
  BY TableStep
<1>4. LockInv'
  BY <1>1, LockStep
<1>5. SweepInv'
  BY SweepStep
<1> QED
  BY <1>1, <1>2, <1>3, <1>4, <1>5 DEF IInv

(* What the goroutines rely on holds in every reachable state. *)
THEOREM Inductive == Spec => []IInv
BY InitIInv, IInvStep, PTL DEF Spec

(* Every variable of the supervisor stays in its type: no generation beyond *)
(* the restart budget, no status the API does not document.                 *)
THEOREM TypeCorrect == Spec => []TypeOK
<1>1. IInv => TypeOK
  BY DEF IInv
<1> QED
  BY <1>1, Inductive, PTL

(* start(), capture(): an active node has exactly one waiter, that of its  *)
(* current generation, and no child process is without one.                *)
THEOREM Waiters == Spec => []OneWaiter
<1>1. IInv => OneWaiter
  <2> SUFFICES ASSUME IInv, NEW n \in Nodes
               PROVE  LET W == {g \in Gens : waiter[<<n, g>>] \in {"capture", "restart"}} IN
                      /\ W = IF Active(n) THEN {gen[n]} ELSE {}
                      /\ \A g \in Gens : proc[<<n, g>>] \in {"alive", "killed"}
                                           => waiter[<<n, g>>] = "capture"
    BY DEF OneWaiter
  <2>1. NodeOK(n)
    BY DEF IInv, NodeInv
  <2>2. \A g \in Gens : GenOK(n, g)
    BY <2>1 DEF NodeOK
  <2>3. \A g \in Gens : waiter[<<n, g>>] \in {"capture", "restart"}
                          <=> Active(n) /\ g = gen[n]
    BY <2>1, <2>2 DEF NodeOK, GenOK, Active
  <2>4. Active(n) => gen[n] \in Gens
    BY <2>1 DEF NodeOK
  <2> QED
    BY <2>2, <2>3, <2>4 DEF GenOK
<1> QED
  BY <1>1, Inductive, PTL

(* capture(): Node.done is closed exactly once, when the node ends. *)
THEOREM DoneOnce == Spec => []DoneClosedOnce
<1>1. IInv => DoneClosedOnce
  BY DEF IInv, NodeInv, NodeOK, DoneClosedOnce
<1> QED
  BY <1>1, Inductive, PTL

(* run(): two processes of one name never live in a workspace together. *)
THEOREM NamesExclusive == Spec => []OneProcessPerName
<1>1. IInv => OneProcessPerName
  <2> SUFFICES ASSUME IInv PROVE OneProcessPerName
    OBVIOUS
  <2>1. ASSUME NEW n \in Nodes, Alive(n) PROVE table[home[n]][name[n]] = n
    <3>1. Active(n)
      BY <2>1 DEF IInv, NodeInv, NodeOK, GenOK, Alive, Active
    <3> QED
      BY <3>1 DEF IInv, TableInv
  <2> QED
    BY <2>1 DEF OneProcessPerName
<1> QED
  BY <1>1, Inductive, PTL

(* build(), DELETE: a build keeps its workspace and excludes a deletion. *)
THEOREM BuildsUndisturbed == Spec => []BuildUndisturbed
<1>1. IInv => BuildUndisturbed
  <2> SUFFICES ASSUME IInv, NEW w \in Workspaces, building[w]
               PROVE  w \in items /\ ~ \E c \in Clients : pc[c] = "deleting" /\ ws[c] = w
    BY DEF BuildUndisturbed
  <2>1. /\ w \in items /\ buildMu[w] \in Clients /\ pc[buildMu[w]] = "building"
    BY DEF IInv, LockInv, BuildOK
  <2>2. ASSUME NEW c \in Clients, pc[c] = "deleting", ws[c] = w PROVE buildMu[w] = c
    BY <2>2 DEF IInv, LockInv, ClientOK
  <2> QED
    BY <2>1, <2>2
<1> QED
  BY <1>1, Inductive, PTL

(* safetyLoop(), Close(): a finished sweep has told every active node to   *)
(* stop, however many workspaces and nodes were started during it.         *)
THEOREM SweepsComplete == Spec => []SweepComplete
<1>1. IInv => SweepComplete
  <2> SUFFICES ASSUME IInv, NEW t \in Sweepers, pc[t] \in {"swept", "closed"},
                      NEW n \in Nodes, Active(n)
               PROVE  stopping[n]
    BY DEF SweepComplete
  <2>1. SweeperOK(t)
    BY DEF IInv, SweepInv
  <2> QED
    BY <2>1 DEF SweeperOK, IInv, TypeOK, NodeTypes
<1> QED
  BY <1>1, Inductive, PTL

-----------------------------------------------------------------------------
(* What a start implies: the two actions that add a generation.            *)

LEMMA GenerationSteps ==
  ASSUME IInv, [Next]_vars, NEW n \in Nodes, gen'[n] # gen[n]
  PROVE  \/ \E c \in Clients, k \in Names, r \in Requests : RunAccepted(c, n, k, r)
         \/ \E g \in Gens : /\ RestartWake(n, g) /\ ~Overtaken(n)
                            /\ Start(n, home[n]) /\ Relieve(n, g)
<1> USE DEF IInv, TypeOK
<1>1. ASSUME NEW c \in Clients, NEW op \in {"run", "stop", "delete", "build"},
             Receive(c, op)
      PROVE  gen' = gen
  BY <1>1 DEF Receive, nodeVars
<1>2. ASSUME NEW c \in Clients, Create(c) PROVE gen' = gen
  BY <1>2 DEF Create, nodeVars
<1>3. ASSUME NEW c \in Clients, Handler(c)
      PROVE  \/ gen' = gen
             \/ \E m \in Nodes, k \in Names, r \in Requests : RunAccepted(c, m, k, r)
  BY <1>3 DEF Handler, RunRefused, StopMark, StopReturn, DeleteMark, DeleteRemove,
     BuildBegin, BuildRefused, BuildEnd, nodeVars
<1>4. ASSUME NEW c \in Clients, NEW m \in Nodes, NEW k \in Names, NEW r \in Requests,
             RunAccepted(c, m, k, r)
      PROVE  m = n
  BY <1>4 DEF RunAccepted, Start, NodeTypes
<1>5. ASSUME NEW m \in Nodes, NEW g \in Gens,
             ProcessExit(m, g) \/ ProcessDies(m, g) \/ CaptureExit(m, g)
      PROVE  gen' = gen
  BY <1>5 DEF ProcessExit, ProcessDies, CaptureExit, nodeVars
<1>6. ASSUME NEW m \in Nodes, NEW g \in Gens, RestartWake(m, g)
      PROVE  \/ gen' = gen
             \/ m = n /\ ~Overtaken(n) /\ Start(n, home[n]) /\ Relieve(n, g)
  BY <1>6 DEF RestartWake, Start, NodeTypes
<1>7. ASSUME NEW t \in Threads, Stopping(t) PROVE gen' = gen
  BY <1>7 DEF Stopping, NodeDone, TermTimeout, KillTimeout, nodeVars
<1>8. ASSUME NEW t \in Sweepers, Sweeping(t) PROVE gen' = gen
  BY <1>8 DEF Sweeping, SweepMark, SweepReturn, SweepEnd, nodeVars
<1>9. SafetyTick \/ SafetySnapshot \/ SafetyHalt \/ CloseBegin \/ CloseAdmission
        \/ UNCHANGED vars => gen' = gen
  BY DEF SafetyTick, SafetySnapshot, SafetyHalt, CloseBegin, CloseAdmission, vars,
     nodeVars
<1> QED
  BY <1>1, <1>2, <1>3, <1>4, <1>5, <1>6, <1>7, <1>8, <1>9 DEF Next, Capture

(* Once a node was told to stop it stays so... *)
LEMMA StoppingStays ==
  ASSUME IInv, [Next]_vars, NEW n \in Nodes, stopping[n]
  PROVE  stopping'[n]
<1>1. ASSUME NEW t, NEW w, NEW ks, Mark(t, w, ks) PROVE stopping'[n]
  BY <1>1, Zenon DEF Mark
<1>2. ASSUME NEW c \in Clients, Handler(c) PROVE stopping'[n]
  <2>1. stopping' = stopping \/ \E w, ks : Mark(c, w, ks)
    BY <1>2 DEF Handler, RunRefused, RunAccepted, StopMark, StopReturn, DeleteMark,
       DeleteRemove, BuildBegin, BuildRefused, BuildEnd, nodeVars
  <2> QED
    BY <1>1, <2>1
<1>3. ASSUME NEW t \in Sweepers, Sweeping(t) PROVE stopping'[n]
  <2>1. stopping' = stopping \/ \E w : Mark(t, w, Names)
    BY <1>3 DEF Sweeping, SweepMark, SweepReturn, SweepEnd, nodeVars
  <2> QED
    BY <1>1, <2>1
<1>4. ASSUME NEW c \in Clients, NEW op \in {"run", "stop", "delete", "build"},
             Receive(c, op) \/ Create(c)
      PROVE  stopping' = stopping
  BY <1>4 DEF Receive, Create, nodeVars
<1>5. ASSUME NEW m \in Nodes, NEW g \in Gens,
             ProcessExit(m, g) \/ ProcessDies(m, g) \/ Capture(m, g)
      PROVE  stopping' = stopping
  BY <1>5 DEF ProcessExit, ProcessDies, Capture, CaptureExit, RestartWake, nodeVars
<1>6. ASSUME NEW t \in Threads, Stopping(t) PROVE stopping' = stopping
  BY <1>6 DEF Stopping, NodeDone, TermTimeout, KillTimeout, nodeVars
<1>7. SafetyTick \/ SafetySnapshot \/ SafetyHalt \/ CloseBegin \/ CloseAdmission
        \/ UNCHANGED vars => stopping' = stopping
  BY DEF SafetyTick, SafetySnapshot, SafetyHalt, CloseBegin, CloseAdmission, vars,
     nodeVars
<1> QED
  BY <1>2, <1>3, <1>4, <1>5, <1>6, <1>7 DEF Next

(* ...and stop() may read its Node.cmd without the lock: it is the last.    *)
THEOREM StoppingIsFinal == Spec => StoppingFreezesGeneration
<1>1. IInv /\ [Next]_vars =>
        [\A n \in Nodes : stopping[n] => gen'[n] = gen[n] /\ stopping'[n]]_vars
  <2> SUFFICES ASSUME IInv, [Next]_vars, NEW n \in Nodes, stopping[n]
               PROVE  gen'[n] = gen[n] /\ stopping'[n]
    OBVIOUS
  <2>1. ASSUME NEW c \in Clients, NEW k \in Names, NEW r \in Requests,
               RunAccepted(c, n, k, r)
        PROVE  FALSE
    BY <2>1 DEF RunAccepted, IInv, NodeInv, NodeOK
  <2>2. gen'[n] = gen[n]
    BY <2>1, GenerationSteps DEF Overtaken
  <2> QED
    BY <2>2, StoppingStays
<1> QED
  BY <1>1, Inductive, PTL DEF Spec, StoppingFreezesGeneration

(* run(), capture(): nothing is started in a deleted workspace or after    *)
(* Close has set closing.                                                  *)
THEOREM OnlyAdmittedStarts == Spec => StartsAdmitted
<1>1. IInv /\ [Next]_vars =>
        [\A n \in Nodes : gen'[n] # gen[n] => home'[n] \in items /\ ~closing]_vars
  <2> SUFFICES ASSUME IInv, [Next]_vars, NEW n \in Nodes, gen'[n] # gen[n]
               PROVE  home'[n] \in items /\ ~closing
    OBVIOUS
  <2>1. ASSUME NEW c \in Clients, NEW k \in Names, NEW r \in Requests,
               RunAccepted(c, n, k, r)
        PROVE  home'[n] \in items /\ ~closing
    BY <2>1 DEF RunAccepted, Admits, IInv, TypeOK, NodeTypes
  <2>2. ASSUME NEW g \in Gens, RestartWake(n, g), ~Overtaken(n)
        PROVE  home'[n] \in items /\ ~closing
    <3>1. Active(n)
      BY <2>2 DEF RestartWake, IInv, NodeInv, NodeOK, GenOK, Active
    <3> QED
      BY <2>2, <3>1 DEF RestartWake, Overtaken, IInv, LockInv
  <2> QED
    BY <2>1, <2>2, GenerationSteps
<1> QED
  BY <1>1, Inductive, PTL DEF Spec, StartsAdmitted

-----------------------------------------------------------------------------
(* What capture() decided before its sleep still holds after it.           *)

Licensed(n, g) ==
  /\ restarts[n] <= req[n].max /\ proc[<<n, g>>] \in {"ok", "failed"}
  /\ req[n].restart # "never"
  /\ req[n].restart = "on-failure" => proc[<<n, g>>] = "failed"
  /\ req[n].mode = "native" => proc[<<n, g>>] = "ok"

PolicyInv == \A n \in Nodes, g \in Gens : waiter[<<n, g>>] = "restart" => Licensed(n, g)

LEMMA WaiterFacts ==
  ASSUME IInv, NEW n \in Nodes, NEW g \in Gens
  PROVE  /\ waiter[<<n, g>>] = "capture" => g = gen[n] /\ status[n] = "running"
         /\ waiter[<<n, g>>] = "restart" => g = gen[n] /\ status[n] = "starting"
         /\ proc[<<n, g>>] \in {"alive", "killed"} => waiter[<<n, g>>] = "capture"
         /\ status[n] # "absent" => req[n] \in Requests
<1>1. NodeOK(n)
  BY DEF IInv, NodeInv
<1> QED
  BY <1>1 DEF NodeOK, GenOK

(* Nothing but the capture goroutine itself touches what the licence says. *)
LEMMA LicenceFrame ==
  ASSUME PolicyInv, NEW n \in Nodes, NEW g \in Gens, waiter'[<<n, g>>] = "restart",
         waiter[<<n, g>>] = "restart", restarts'[n] = restarts[n], req'[n] = req[n],
         proc'[<<n, g>>] = proc[<<n, g>>]
  PROVE  Licensed(n, g)'
BY DEF PolicyInv, Licensed

LEMMA PolicyStep == ASSUME IInv, PolicyInv, [Next]_vars PROVE PolicyInv'
<1> SUFFICES ASSUME NEW n \in Nodes, NEW g \in Gens, waiter'[<<n, g>>] = "restart"
             PROVE  Licensed(n, g)'
  BY DEF PolicyInv
<1> USE DEF IInv, TypeOK, NodeTypes
<1>1. ASSUME UNCHANGED <<waiter, restarts, req, proc>> PROVE Licensed(n, g)'
  BY <1>1, LicenceFrame
<1>2. ASSUME NEW c \in Clients, NEW op \in {"run", "stop", "delete", "build"},
             Receive(c, op) \/ Create(c)
      PROVE  Licensed(n, g)'
  BY <1>1, <1>2 DEF Receive, Create, nodeVars, runVars
<1>3. ASSUME NEW c \in Clients, Handler(c) PROVE Licensed(n, g)'
  <2>1. CASE \E m \in Nodes, k \in Names, r \in Requests : RunAccepted(c, m, k, r)
    <3>1. PICK m \in Nodes, k \in Names, r \in Requests : RunAccepted(c, m, k, r)
      BY <2>1
    <3>2. waiter[<<n, g>>] = "restart"
      BY <3>1 DEF RunAccepted
    <3>3. m # n
      BY <3>1, <3>2, WaiterFacts DEF RunAccepted
    <3> QED
      BY <3>1, <3>2, <3>3, LicenceFrame DEF RunAccepted, Start
  <2>2. CASE ~ \E m \in Nodes, k \in Names, r \in Requests : RunAccepted(c, m, k, r)
    BY <1>1, <1>3, <2>2 DEF Handler, RunRefused, StopMark, StopReturn, DeleteMark,
       DeleteRemove, BuildBegin, BuildRefused, BuildEnd, nodeVars, runVars
  <2> QED
    BY <2>1, <2>2
<1>4. ASSUME NEW m \in Nodes, NEW h \in Gens, ProcessExit(m, h) \/ ProcessDies(m, h)
      PROVE  Licensed(n, g)'
  <2>1. waiter[<<n, g>>] = "restart" /\ UNCHANGED <<restarts, req>>
    BY <1>4 DEF ProcessExit, ProcessDies, nodeVars
  <2>2. <<m, h>> # <<n, g>>
    BY <1>4, <2>1, WaiterFacts DEF ProcessExit, ProcessDies
  <2> QED
    BY <1>4, <2>1, <2>2, LicenceFrame DEF ProcessExit, ProcessDies
<1>5. ASSUME NEW m \in Nodes, NEW h \in Gens, CaptureExit(m, h) PROVE Licensed(n, g)'
  <2>1. UNCHANGED <<req, proc>> /\ proc[<<m, h>>] \in {"ok", "failed"}
    BY <1>5 DEF CaptureExit
  <2>2. CASE Restarts(m, h) /\ m = n /\ h = g
    <3>1. req[n] \in Requests /\ restarts[n] \in Nat /\ req[n].max \in Nat
      <4>1. status[n] # "absent" /\ req[n] \in Requests
        BY <1>5, <2>2, WaiterFacts DEF CaptureExit
      <4> QED
        BY <4>1, RequestsAssumption, MaxRestartsAssumption
    <3>2. /\ restarts[n] < req[n].max /\ ~NativeFailure(n, g) /\ ~stopping[n]
          /\ \/ req[n].restart = "always"
             \/ req[n].restart = "on-failure" /\ proc[<<n, g>>] = "failed"
      BY <2>2 DEF Restarts
    <3>3. restarts'[n] = restarts[n] + 1
      BY <1>5, <2>2 DEF CaptureExit
    <3> QED
      BY <2>1, <2>2, <3>1, <3>2, <3>3 DEF Licensed, NativeFailure
  <2>3. CASE Restarts(m, h) /\ <<m, h>> # <<n, g>>
    <3>1. waiter[<<n, g>>] = "restart"
      BY <1>5, <2>3 DEF CaptureExit
    <3>2. m # n
      BY <1>5, <2>3, <3>1, WaiterFacts DEF CaptureExit
    <3> QED
      BY <1>5, <2>1, <2>3, <3>1, <3>2, LicenceFrame DEF CaptureExit
  <2>4. CASE ~Restarts(m, h)
    BY <1>5, <2>1, <2>4, LicenceFrame DEF CaptureExit, Finish
  <2> QED
    BY <2>2, <2>3, <2>4
<1>6. ASSUME NEW m \in Nodes, NEW h \in Gens, RestartWake(m, h) PROVE Licensed(n, g)'
  <2>1. UNCHANGED <<restarts, req>>
    BY <1>6 DEF RestartWake
  <2>2. CASE Start(m, home[m]) /\ Relieve(m, h)
    <3>1. waiter[<<n, g>>] = "restart" /\ <<m, gen[m] + 1>> # <<n, g>>
      BY <2>2 DEF Relieve
    <3> QED
      BY <2>1, <2>2, <3>1, LicenceFrame DEF Start
  <2>3. CASE Finish(m, h) /\ UNCHANGED proc
    BY <2>1, <2>3, LicenceFrame DEF Finish
  <2> QED
    BY <1>6, <2>2, <2>3 DEF RestartWake
<1>7. ASSUME NEW t \in Threads, Stopping(t) PROVE Licensed(n, g)'
  <2>1. CASE TermTimeout(t)
    <3>1. waiter[<<n, g>>] = "restart" /\ UNCHANGED <<restarts, req>>
      BY <2>1 DEF TermTimeout, nodeVars
    <3>2. proc[<<n, g>>] # "alive"
      BY <3>1 DEF NodeInv, NodeOK, GenOK
    <3>3. proc'[<<n, g>>] = proc[<<n, g>>]
      BY <2>1, <3>2 DEF TermTimeout
    <3> QED
      BY <3>1, <3>3, LicenceFrame
  <2>2. CASE NodeDone(t) \/ KillTimeout(t)
    BY <1>1, <2>2 DEF NodeDone, KillTimeout, nodeVars, runVars
  <2> QED
    BY <1>7, <2>1, <2>2 DEF Stopping
<1>8. ASSUME NEW t \in Sweepers, Sweeping(t) PROVE Licensed(n, g)'
  BY <1>1, <1>8 DEF Sweeping, SweepMark, SweepReturn, SweepEnd, nodeVars, runVars
<1>9. SafetyTick \/ SafetySnapshot \/ SafetyHalt \/ CloseBegin \/ CloseAdmission
        \/ UNCHANGED vars => Licensed(n, g)'
  BY <1>1 DEF SafetyTick, SafetySnapshot, SafetyHalt, CloseBegin, CloseAdmission, vars,
     nodeVars, runVars
<1> QED
  BY <1>2, <1>3, <1>4, <1>5, <1>6, <1>7, <1>8, <1>9 DEF Next, Capture

(* capture(): a generation after the first is within the budget, allowed by *)
(* the policy for the way its predecessor ended, and never follows a failed *)
(* native executor.                                                         *)
THEOREM RestartsFollowPolicy == Spec => RestartPolicyKept
<1>1. Init => PolicyInv
  BY DEF Init, PolicyInv
<1>2. Spec => []PolicyInv
  BY <1>1, PolicyStep, Inductive, PTL DEF Spec
<1>3. IInv /\ PolicyInv /\ [Next]_vars =>
        [\A n \in Nodes :
           gen[n] > 0 /\ gen'[n] # gen[n] =>
             /\ gen'[n] = gen[n] + 1 /\ gen[n] <= req[n].max
             /\ proc[<<n, gen[n]>>] \in {"ok", "failed"}
             /\ req[n].restart # "never"
             /\ req[n].restart = "on-failure" => proc[<<n, gen[n]>>] = "failed"
             /\ req[n].mode = "native" => proc[<<n, gen[n]>>] = "ok"]_vars
  <2> SUFFICES ASSUME IInv, PolicyInv, [Next]_vars, NEW n \in Nodes,
                      gen[n] > 0, gen'[n] # gen[n]
               PROVE  /\ gen'[n] = gen[n] + 1 /\ gen[n] <= req[n].max
                      /\ proc[<<n, gen[n]>>] \in {"ok", "failed"}
                      /\ req[n].restart # "never"
                      /\ req[n].restart = "on-failure" => proc[<<n, gen[n]>>] = "failed"
                      /\ req[n].mode = "native" => proc[<<n, gen[n]>>] = "ok"
    OBVIOUS
  <2>1. gen \in [Nodes -> 0 .. (MaxRestarts + 1)] /\ restarts[n] \in Nat /\ NodeOK(n)
    BY MaxRestartsAssumption DEF IInv, TypeOK, NodeTypes, NodeInv
  <2>2. ASSUME NEW c \in Clients, NEW k \in Names, NEW r \in Requests,
               RunAccepted(c, n, k, r)
        PROVE  FALSE
    BY <2>1, <2>2 DEF RunAccepted, NodeOK
  <2>3. PICK g \in Gens : RestartWake(n, g) /\ Start(n, home[n])
    BY <2>2, GenerationSteps
  <2>4. waiter[<<n, g>>] = "restart" /\ g = gen[n] /\ status[n] = "starting"
    BY <2>3, WaiterFacts DEF RestartWake
  <2>5. Licensed(n, gen[n])
    BY <2>4 DEF PolicyInv
  <2>6. req[n].max \in Nat
    <3>1. req[n] \in Requests
      BY <2>4, WaiterFacts
    <3> QED
      BY <3>1, RequestsAssumption, MaxRestartsAssumption
  <2>7. gen[n] <= restarts[n] /\ gen[n] \in Nat
    BY <2>1, <2>4, MaxRestartsAssumption DEF NodeOK
  <2>8. gen'[n] = gen[n] + 1
    BY <2>1, <2>3 DEF Start
  <2>9. gen[n] <= req[n].max
    BY <2>1, <2>5, <2>6, <2>7 DEF Licensed
  <2> QED
    BY <2>5, <2>8, <2>9 DEF Licensed
<1> QED
  BY <1>2, <1>3, Inductive, PTL DEF Spec, RestartPolicyKept

-----------------------------------------------------------------------------
(* The status of a workspace.                                              *)

WSOK(w) ==
  /\ wstatus[w] = "building" => building[w]
  /\ ~building[w] /\ (\E n \in NodesOf(w) : status[n] = "running") => wstatus[w] = "running"
  /\ wstatus[w] = "running" => \E n \in NodesOf(w) : Active(n)

LEMMA NodesOfFacts ==
  ASSUME IInv, NEW w \in Workspaces
  PROVE  /\ NodesOf(w) \in SUBSET Nodes
         /\ \A n \in NodesOf(w) : home[n] = w
         /\ \A n \in Nodes : Active(n) => (n \in NodesOf(home[n]) /\ home[n] \in Workspaces)
<1>1. NodesOf(w) \in SUBSET Nodes
  BY DEF IInv, TypeOK, WorkspaceTypes, NodesOf
<1>2. \A n \in NodesOf(w) : home[n] = w
  BY DEF IInv, TableInv, NodesOf
<1>3. ASSUME NEW n \in Nodes, Active(n)
      PROVE  n \in NodesOf(home[n]) /\ home[n] \in Workspaces
  <2>1. status[n] # "absent" /\ NodeOK(n)
    BY <1>3 DEF Active, IInv, NodeInv
  <2>2. home[n] \in Workspaces /\ name[n] \in Names
    BY <2>1 DEF NodeOK
  <2>3. table[home[n]][name[n]] = n
    BY <1>3 DEF IInv, TableInv
  <2> QED
    BY <2>2, <2>3, NoneAssumption DEF NodesOf
<1> QED
  BY <1>1, <1>2, <1>3

LEMMA StatusFrame ==
  ASSUME NEW w \in Workspaces, WSOK(w),
         wstatus'[w] = wstatus[w], building'[w] = building[w], table'[w] = table[w],
         \A n \in NodesOf(w) : status'[n] = status[n]
  PROVE  WSOK(w)'
<1>1. NodesOf(w)' = NodesOf(w)
  BY DEF NodesOf
<1> QED
  BY <1>1 DEF WSOK, Active

(* A start makes its workspace "running" and disturbs no other.  *)
LEMMA StatusStart ==
  ASSUME IInv, NEW w \in Workspaces, WSOK(w), NEW n \in Nodes, NEW v \in Workspaces,
         Start(n, v), n \in NodesOf(v)', building' = building,
         w # v => (table'[w] = table[w] /\ n \notin NodesOf(w))
  PROVE  WSOK(w)'
<1> USE DEF IInv, TypeOK
<1>1. /\ wstatus' = [wstatus EXCEPT ![v] = "running"]
      /\ status' = [status EXCEPT ![n] = "running"]
  BY DEF Start
<1>2. CASE w = v
  <2>1. wstatus'[w] = "running" /\ status'[n] = "running"
    BY <1>1, <1>2 DEF WorkspaceTypes, NodeTypes
  <2> QED
    BY <1>2, <2>1 DEF WSOK, Active
<1>3. CASE w # v
  BY <1>1, <1>3, StatusFrame
<1> QED
  BY <1>2, <1>3

LEMMA StatusFinish ==
  ASSUME IInv, NEW w \in Workspaces, WSOK(w), NEW n \in Nodes, NEW g \in Gens, Active(n),
         Finish(n, g), table' = table, building' = building
  PROVE  WSOK(w)'
<1> DEFINE last == IF proc[<<n, g>>] = "failed" /\ ~stopping[n] THEN "error" ELSE "stopped"
<1> USE DEF IInv, TypeOK
<1>1. /\ status' = [status EXCEPT ![n] = last] /\ last \in {"error", "stopped"}
      /\ wstatus' = [wstatus EXCEPT ![home[n]] =
                       IF \E m \in NodesOf(home[n]) \ {n} : Active(m)
                         THEN wstatus[home[n]]
                         ELSE IF last = "error" THEN "error" ELSE "idle"]
  BY DEF Finish
<1>2. home[n] \in Workspaces /\ NodesOf(w) \in SUBSET Nodes
  BY NodesOfFacts
<1>3. CASE w # home[n]
  BY <1>1, <1>3, NodesOfFacts, StatusFrame
<1>4. CASE w = home[n]
  <2>1. /\ NodesOf(w)' = NodesOf(w)
        /\ \A m \in NodesOf(w) \ {n} : status'[m] = status[m]
        /\ status'[n] \in {"error", "stopped"}
    BY <1>1, <1>2 DEF NodesOf, NodeTypes
  <2>2. CASE \E m \in NodesOf(w) \ {n} : Active(m)
    <3>1. wstatus'[w] = wstatus[w]
      BY <1>1, <1>4, <2>2 DEF WorkspaceTypes
    <3> QED
      BY <2>1, <2>2, <3>1 DEF WSOK, Active
  <2>3. CASE ~ \E m \in NodesOf(w) \ {n} : Active(m)
    <3>1. wstatus'[w] \in {"error", "idle"}
      BY <1>1, <1>4, <2>3 DEF WorkspaceTypes
    <3> QED
      BY <2>1, <2>3, <3>1 DEF WSOK, Active
  <2> QED
    BY <2>2, <2>3
<1> QED
  BY <1>3, <1>4

LEMMA StatusStep ==
  ASSUME IInv, [Next]_vars, NEW w \in Workspaces, WSOK(w)
  PROVE  WSOK(w)'
<1> USE DEF IInv, TypeOK
<1>1. ASSUME UNCHANGED <<wstatus, building, table, status>> PROVE WSOK(w)'
  BY <1>1, StatusFrame
<1>2. ASSUME NEW c \in Clients, NEW op \in {"run", "stop", "delete", "build"},
             Receive(c, op) \/ Create(c)
      PROVE  WSOK(w)'
  BY <1>1, <1>2 DEF Receive, Create, wsVars, nodeVars
<1>3. ASSUME NEW c \in Clients, NEW n \in Nodes, NEW k \in Names, NEW r \in Requests,
             RunAccepted(c, n, k, r)
      PROVE  WSOK(w)'
  <2>1. PICK v \in Workspaces :
          /\ v = ws[c] /\ Start(n, v) /\ building' = building /\ status[n] = "absent"
          /\ table' = [table EXCEPT ![v][k] = n]
    BY <1>3 DEF RunAccepted, LockInv, ClientOK, Handling
  <2>2. table'[v][k] = n
    BY <2>1 DEF WorkspaceTypes
  <2>3. n \in NodesOf(v)'
    BY <2>2, NoneAssumption DEF NodesOf
  <2>4. w # v => table'[w] = table[w]
    BY <2>1 DEF WorkspaceTypes
  <2>5. n \notin NodesOf(w)
    BY <2>1 DEF TableInv, NodesOf
  <2> QED
    BY <2>1, <2>3, <2>4, <2>5, StatusStart
<1>4. ASSUME NEW c \in Clients,
             RunRefused(c) \/ StopMark(c) \/ StopReturn(c) \/ DeleteMark(c)
               \/ DeleteRemove(c) \/ BuildRefused(c)
      PROVE  WSOK(w)'
  BY <1>1, <1>4 DEF RunRefused, StopMark, StopReturn, DeleteMark, DeleteRemove,
     BuildRefused, wsVars, nodeVars
<1>5. ASSUME NEW c \in Clients, BuildBegin(c) PROVE WSOK(w)'
  <2>1. /\ wstatus' = [wstatus EXCEPT ![ws[c]] = "building"]
        /\ building' = [building EXCEPT ![ws[c]] = TRUE]
        /\ table' = table /\ status' = status
    BY <1>5 DEF BuildBegin, nodeVars
  <2>2. CASE w = ws[c]
    <3>1. wstatus'[w] = "building" /\ building'[w]
      BY <2>1, <2>2 DEF WorkspaceTypes
    <3> QED
      BY <3>1 DEF WSOK
  <2>3. CASE w # ws[c]
    BY <2>1, <2>3, StatusFrame DEF WorkspaceTypes
  <2> QED
    BY <2>2, <2>3
<1>6. ASSUME NEW c \in Clients, BuildEnd(c) PROVE WSOK(w)'
  <2>1. /\ wstatus' = [wstatus EXCEPT ![ws[c]] = StatusAfterBuild(ws[c])]
        /\ building' = [building EXCEPT ![ws[c]] = FALSE]
        /\ table' = table /\ status' = status
    BY <1>6 DEF BuildEnd, nodeVars
  <2>2. CASE w = ws[c]
    <3>1. wstatus'[w] = StatusAfterBuild(w) /\ NodesOf(w)' = NodesOf(w)
      BY <2>1, <2>2 DEF WorkspaceTypes, NodesOf
    <3> QED
      BY <2>1, <3>1 DEF WSOK, StatusAfterBuild, Active
  <2>3. CASE w # ws[c]
    BY <2>1, <2>3, StatusFrame DEF WorkspaceTypes
  <2> QED
    BY <2>2, <2>3
<1>7. ASSUME NEW n \in Nodes, NEW g \in Gens, ProcessExit(n, g) \/ ProcessDies(n, g)
      PROVE  WSOK(w)'
  BY <1>1, <1>7 DEF ProcessExit, ProcessDies, wsVars, nodeVars
<1>8. ASSUME NEW n \in Nodes, NEW g \in Gens, CaptureExit(n, g) PROVE WSOK(w)'
  <2>1. Active(n) /\ status[n] = "running" /\ table' = table /\ building' = building
    BY <1>8, WaiterFacts DEF CaptureExit, Active
  <2>2. CASE Finish(n, g)
    BY <2>1, <2>2, StatusFinish
  <2>3. CASE status' = [status EXCEPT ![n] = "starting"] /\ wstatus' = wstatus
    <3>1. NodesOf(w)' = NodesOf(w) /\ NodesOf(w) \in SUBSET Nodes
      BY <2>1, NodesOfFacts DEF NodesOf
    <3>2. \A m \in NodesOf(w) : /\ status'[m] = "running" => status[m] = "running"
                                /\ Active(m) => Active(m)'
      BY <2>1, <2>3, <3>1 DEF NodeTypes, Active
    <3> QED
      BY <2>1, <2>3, <3>1, <3>2 DEF WSOK
  <2> QED
    BY <1>8, <2>2, <2>3 DEF CaptureExit
<1>9. ASSUME NEW n \in Nodes, NEW g \in Gens, RestartWake(n, g) PROVE WSOK(w)'
  <2>1. Active(n) /\ table' = table /\ building' = building
    BY <1>9, WaiterFacts DEF RestartWake, Active
  <2>2. CASE Start(n, home[n])
    <3>1. PICK v \in Workspaces : v = home[n] /\ n \in NodesOf(v) /\ Start(n, v)
      BY <2>1, <2>2, NodesOfFacts
    <3>2. n \in NodesOf(v)'
      BY <2>1, <3>1 DEF NodesOf
    <3>3. w # v => n \notin NodesOf(w)
      BY <3>1, NodesOfFacts
    <3> QED
      BY <2>1, <3>1, <3>2, <3>3, StatusStart
  <2>3. CASE Finish(n, g)
    BY <2>1, <2>3, StatusFinish
  <2> QED
    BY <1>9, <2>2, <2>3 DEF RestartWake
<1>10. ASSUME NEW t \in Threads, Stopping(t) PROVE WSOK(w)'
  BY <1>1, <1>10 DEF Stopping, NodeDone, TermTimeout, KillTimeout, wsVars, nodeVars
<1>11. ASSUME NEW t \in Sweepers, Sweeping(t) PROVE WSOK(w)'
  BY <1>1, <1>11 DEF Sweeping, SweepMark, SweepReturn, SweepEnd, wsVars, nodeVars
<1>12. SafetyTick \/ SafetySnapshot \/ SafetyHalt \/ CloseBegin \/ CloseAdmission
         \/ UNCHANGED vars => WSOK(w)'
  BY <1>1 DEF SafetyTick, SafetySnapshot, SafetyHalt, CloseBegin, CloseAdmission, vars,
     wsVars, nodeVars
<1> QED
  BY <1>2, <1>3, <1>4, <1>5, <1>6, <1>7, <1>8, <1>9, <1>10, <1>11, <1>12
     DEF Next, Handler, Capture

(* start(), capture(), build(): the three writers of Workspace.Status keep *)
(* it in agreement with the nodes.                                         *)
THEOREM StatusAgrees == Spec => []StatusFaithful
<1>1. Init => StatusFaithful
  BY DEF Init, StatusFaithful, NodesOf
<1>2. IInv /\ StatusFaithful /\ [Next]_vars => StatusFaithful'
  <2> SUFFICES ASSUME IInv, StatusFaithful, [Next]_vars, NEW w \in Workspaces
               PROVE  WSOK(w)'
    BY DEF StatusFaithful, WSOK, NodesOf, Active
  <2>1. WSOK(w)
    BY DEF StatusFaithful, WSOK
  <2> QED
    BY <2>1, StatusStep
<1> QED
  BY <1>1, <1>2, Inductive, PTL DEF Spec
=============================================================================
