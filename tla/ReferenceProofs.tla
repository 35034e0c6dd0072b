--------------------------- MODULE ReferenceProofs ---------------------------
(***************************************************************************)
(* Proofs about Reference, for any number of threads, workspaces, nodes    *)
(* and processes.  IInv says where each process is recorded: in the slot   *)
(* it was started for, in the table of processes, in a record, or in the   *)
(* hands of the run() that started it.                                     *)
(***************************************************************************)
EXTENDS Reference, TLAPS

(* run() from its Popen to the registration, all of it under _lock. *)
Tabling == {"record", "announce", "register"}

ThreadInv ==
  \A c \in Clients :
    /\ pc[c] # "idle" => ws[c] \in made
    /\ pc[c] \in {"spawn", "term", "kill", "mark"} \union Tabling => name[c] \in Names
    /\ pc[c] \in {"term", "kill", "mark"} \union Tabling => mine[c] \in Procs

(* The poll that found the name vacant stays true while the lock is held:  *)
(* so the registration never displaces a live process.                     *)
RunInv ==
  \A c \in Clients : pc[c] \in Tabling =>
    /\ table = c
    /\ slot[mine[c]] = <<ws[c], name[c]>>
    /\ capture[mine[c]] = "none"
    /\ Vacant(ws[c], name[c])
    /\ pc[c] # "record" => nodes[ws[c]][name[c]] # None

(* A process is registered from the moment its capture thread starts, and  *)
(* the thread leaves before the end only when the workspace is gone.       *)
ProcOK(p) ==
  /\ proc[p] = "none" <=> slot[p] = None
  /\ slot[p] # None => slot[p][1] \in made
  /\ proc[p] = "none" => capture[p] = "none"
  /\ capture[p] = "none" => proc[p] = "none" \/ \E c \in Clients : pc[c] \in Tabling /\ mine[c] = p
  /\ capture[p] # "none" => /\ nodes[slot[p][1]][slot[p][2]] # None
                            /\ Dead(p) \/ processes[slot[p][1]][slot[p][2]] = p
  /\ capture[p] \in {"scan", "settle"} => Dead(p)
  /\ capture[p] = "gone" => Dead(p) \/ slot[p][1] \notin items
ProcInv == \A p \in Procs : ProcOK(p)

TableInv ==
  \A i \in Idents, n \in Names :
    /\ processes[i][n] # None => /\ slot[processes[i][n]] = <<i, n>>
                                 /\ capture[processes[i][n]] # "none"
    /\ nodes[i][n] # None => i \in made /\ slot[nodes[i][n].pid] = <<i, n>>

(* What stop() owes has ended, is still to come, or is being waited for. *)
StopOK(c) ==
  /\ pc[c] = "mark" => Dead(mine[c])
  /\ pc[c] \in {"term", "kill", "mark"} => /\ slot[mine[c]] = <<ws[c], name[c]>>
                                           /\ capture[mine[c]] # "none"
  /\ pc[c] \in {"stopping", "term", "kill", "mark"} => \A p \in owed[c] :
       \/ Dead(p)
       \/ \E n \in todo[c] : processes[ws[c]][n] = p
       \/ pc[c] \in {"term", "kill"} /\ mine[c] = p
  /\ pc[c] \in {"settle", "delete", "rmtree", "forget"} => \A p \in owed[c] : Dead(p)
StopInv == \A c \in Clients : StopOK(c)

FreshInv == \A i \in Idents \ made : status[i] = "idle"

Builds(c) == pc[c] \in {"building", "compile", "unlock"}
LockInv == \A i \in Idents : build_lock[i] => \E c \in Clients : ws[c] = i /\ Builds(c)

IInv ==
  TypeOK /\ ThreadInv /\ RunInv /\ ProcInv /\ TableInv /\ StopInv /\ FreshInv /\ LockInv

-----------------------------------------------------------------------------
(* The actions that a prover finds hard to read.                           *)

(* Marking a record keeps the records there are, and their processes.      *)
NodesKept ==
  \A i \in Idents, n \in Names :
    /\ nodes'[i][n] = None <=> nodes[i][n] = None
    /\ nodes[i][n] # None => nodes'[i][n].pid = nodes[i][n].pid

NodesType == nodes \in [Idents -> [Names -> NodeRecord \union {None}]]

(* Marking keeps every record where it is. *)
LEMMA MarkEffect ==
  ASSUME TypeOK, NEW i \in Idents, NEW n \in Names, NEW s \in {"stopped", "error"},
         nodes[i][n] # None, Mark(i, n, s)
  PROVE  NodesType' /\ NodesKept
<1> DEFINE r == [nodes[i][n] EXCEPT !.status = s]
<1>1. nodes \in [Idents -> [Names -> NodeRecord \union {None}]] /\ nodes[i][n] \in NodeRecord
  BY DEF TypeOK
<1>2. r \in NodeRecord /\ r.pid = nodes[i][n].pid
  BY <1>1 DEF NodeRecord
<1>3. r # None
  BY <1>2, NoneAssumption
<1>4. nodes' = [nodes EXCEPT ![i] = [@ EXCEPT ![n] = r]]
  BY DEF Mark
<1> HIDE DEF r
<1>5. nodes' \in [Idents -> [Names -> NodeRecord \union {None}]]
  BY <1>1, <1>2, <1>4
<1>6. ASSUME NEW j \in Idents, NEW m \in Names
      PROVE  nodes'[j][m] = IF j = i /\ m = n THEN r ELSE nodes[j][m]
  BY <1>1, <1>4
<1>7. NodesKept
  BY <1>2, <1>3, <1>6 DEF NodesKept
<1> QED
  BY <1>5, <1>7 DEF NodesType

(* What the two marks do, besides the status of the record.                *)
StopMarks(c) ==
  /\ pc[c] = "mark" /\ Goto(c, "stopping")
  /\ mine' = [mine EXCEPT ![c] = None] /\ name' = [name EXCEPT ![c] = None]
  /\ UNCHANGED <<wsVars, status, build_lock, processes, lockVars, procVars, capture, op, ws, todo, owed>>

CaptureMarks(p) ==
  /\ capture[p] = "read" /\ Dead(p) /\ capture' = [capture EXCEPT ![p] = "scan"]
  /\ UNCHANGED <<wsVars, status, build_lock, processes, lockVars, procVars, threadVars>>

(* stop() marks a record that exists. *)
LEMMA StopMarkEffect ==
  ASSUME IInv, NEW c \in Clients, StopMark(c) PROVE NodesType' /\ NodesKept /\ StopMarks(c)
<1>1. ws[c] \in Idents /\ name[c] \in Names /\ nodes[ws[c]][name[c]] # None
  BY DEF IInv, TypeOK, ThreadInv, StopInv, StopOK, ProcInv, ProcOK, StopMark
<1> QED
  BY <1>1, MarkEffect DEF IInv, StopMark, StopMarks

(* So does the capture thread. *)
LEMMA CaptureMarkEffect ==
  ASSUME IInv, NEW p \in Procs, CaptureMark(p) PROVE NodesType' /\ NodesKept /\ CaptureMarks(p)
<1>1. /\ slot[p][1] \in Idents /\ slot[p][2] \in Names
      /\ nodes[slot[p][1]][slot[p][2]] # None
  BY DEF IInv, TypeOK, ProcInv, ProcOK, CaptureMark
<1> QED
  BY <1>1, MarkEffect DEF IInv, CaptureMark, Outcome, CaptureMarks

(* StopNext skips a process or signals it; what follows the last name ends *)
(* the request or moves on to the next step of a DELETE.                   *)
Kept == UNCHANGED <<made, items, nodes, build_lock, processes, table, procVars, capture>>

Skips(c, n) ==
  /\ pc[c] = "stopping" /\ n \in todo[c]
  /\ processes[ws[c]][n] = None \/ Dead(processes[ws[c]][n])
  /\ todo' = [todo EXCEPT ![c] = @ \ {n}]
  /\ Kept /\ UNCHANGED <<dir, status, store, pc, op, ws, name, mine, owed>>

Signals(c, n) ==
  /\ pc[c] = "stopping" /\ n \in todo[c]
  /\ processes[ws[c]][n] # None /\ ~Dead(processes[ws[c]][n])
  /\ todo' = [todo EXCEPT ![c] = @ \ {n}]
  /\ Goto(c, "term")
  /\ name' = [name EXCEPT ![c] = n]
  /\ mine' = [mine EXCEPT ![c] = processes[ws[c]][n]]
  /\ Kept /\ UNCHANGED <<dir, status, store, op, ws, owed>>

(* A name is skipped, or its process is signalled. *)
LEMMA StopNextCases ==
  ASSUME NEW c \in Clients, NEW n \in Names, StopNext(c, n) PROVE Skips(c, n) \/ Signals(c, n)
<1>1. CASE processes[ws[c]][n] = None \/ Dead(processes[ws[c]][n])
  BY <1>1 DEF StopNext, Skips, Kept, wsVars, stateVars, lockVars
<1>2. CASE ~(processes[ws[c]][n] = None \/ Dead(processes[ws[c]][n]))
  BY <1>2 DEF StopNext, Signals, Kept, wsVars, stateVars, lockVars
<1> QED
  BY <1>1, <1>2

Tail(c) == StopScan(c) \/ StopSettle(c) \/ DeleteCheck(c) \/ DeleteTree(c)

TailKept(c) ==
  /\ pc[c] \in {"stopping", "settle", "delete", "rmtree"} /\ (pc[c] = "stopping" => todo[c] = {})
  /\ status' \in {status, [status EXCEPT ![ws[c]] = "idle"]}
  /\ dir' = dir \/ \E d \in {"none", "part"} : dir' = [dir EXCEPT ![ws[c]] = d]
  /\ store' \in {store, c, None}
  /\ Kept

Ends(c)  == Answer(c) /\ TailKept(c)
Moves(c) == /\ \E l \in {"settle", "delete", "rmtree", "forget"} : Goto(c, l)
            /\ UNCHANGED <<op, ws, name, todo, mine, owed>>
            /\ TailKept(c)

(* The end of a stop or of a DELETE answers, or goes on. *)
LEMMA TailCases == ASSUME NEW c \in Clients, Tail(c) PROVE Ends(c) \/ Moves(c)
<1> USE DEF TailKept, Kept, wsVars, stateVars, lockVars, Ends, Moves
<1>1. CASE StopScan(c)
  BY <1>1 DEF StopScan, Return
<1>2. CASE StopSettle(c)
  BY <1>2 DEF StopSettle, Return
<1>3. CASE DeleteCheck(c)
  BY <1>3 DEF DeleteCheck
<1>4. CASE DeleteTree(c)
  BY <1>4 DEF DeleteTree
<1> QED
  BY <1>1, <1>2, <1>3, <1>4 DEF Tail

-----------------------------------------------------------------------------
(* Steps that need an argument of their own.                               *)

(* Either way the shared state keeps its type. *)
LEMMA TailType == ASSUME TypeOK, NEW c \in Clients, ws[c] \in Idents, TailKept(c)
  PROVE /\ made' \in SUBSET Idents /\ items' \in SUBSET made' /\ NodesType'
        /\ dir' \in [Idents -> {"none", "whole", "part"}]
        /\ status' \in [Idents -> {"idle", "building", "running", "error"}]
        /\ store' \in Clients \union {None}
<1>1. status' \in [Idents -> {"idle", "building", "running", "error"}]
  BY DEF TailKept, TypeOK
<1>2. dir' \in [Idents -> {"none", "whole", "part"}]
  BY DEF TailKept, TypeOK
<1> QED
  BY <1>1, <1>2 DEF TailKept, Kept, TypeOK, NodesType

(* And so do the threads. *)
LEMMA TailTypeStep == ASSUME IInv, NEW c \in Clients, Tail(c) PROVE TypeOK'
<1>1. ws[c] \in Idents
  BY DEF Tail, StopScan, StopSettle, DeleteCheck, DeleteTree, IInv, TypeOK, ThreadInv
<1>2. CASE Ends(c)
  BY <1>1, <1>2, TailType DEF Ends, TailKept, Kept, procVars, Answer, Goto, IInv, TypeOK,
     NodesType, Labels
<1>3. CASE Moves(c)
  <2>1. pc' \in [Clients -> Labels]
    BY <1>3 DEF Moves, Goto, IInv, TypeOK, Labels
  <2> QED
    BY <1>1, <1>3, <2>1, TailType DEF Moves, TailKept, Kept, procVars, IInv, TypeOK, NodesType
<1> QED
  BY <1>2, <1>3, TailCases

(* A mark of stop() says nothing about who owns a process. *)
LEMMA StopMarkKeeps ==
  ASSUME IInv, NEW c \in Clients, StopMark(c)
  PROVE  TableInv' /\ ProcInv'
<1>1. /\ UNCHANGED <<made, items, processes, proc, slot, capture>> /\ NodesKept /\ ProcInv /\ TableInv
      /\ \A d \in Clients : pc[d] \in Tabling => pc'[d] = pc[d] /\ mine'[d] = mine[d]
  BY StopMarkEffect DEF StopMarks, wsVars, procVars, IInv, TypeOK, Tabling, Goto
<1>2. \A p \in Procs : slot[p] # None => slot[p][1] \in Idents /\ slot[p][2] \in Names
  BY DEF IInv, TypeOK
<1>3. TableInv'
  <2>1. ASSUME NEW i \in Idents, NEW n \in Names, nodes[i][n] # None
        PROVE  nodes'[i][n].pid = nodes[i][n].pid
    BY <1>1, <2>1 DEF NodesKept
  <2>2. ASSUME NEW i \in Idents, NEW n \in Names
        PROVE  nodes'[i][n] = None <=> nodes[i][n] = None
    BY <1>1 DEF NodesKept
  <2> QED
    BY <1>1, <2>1, <2>2 DEF TableInv
<1>4. ProcInv'
  BY <1>1, <1>2, NoneAssumption DEF ProcInv, ProcOK, NodesKept, Dead
<1> QED
  BY <1>3, <1>4

(* Nor does that of a capture thread. *)
LEMMA CaptureMarkKeeps ==
  ASSUME IInv, NEW p \in Procs, CaptureMark(p)
  PROVE  TypeOK' /\ TableInv'
<1>1. NodesType' /\ NodesKept /\ CaptureMarks(p) /\ TypeOK /\ TableInv
  BY CaptureMarkEffect DEF IInv
<1>2. TypeOK'
  BY <1>1 DEF CaptureMarks, wsVars, procVars, lockVars, threadVars, NodesType, TypeOK
<1>3. /\ UNCHANGED <<made, processes, slot>>
      /\ \A q \in Procs : capture[q] # "none" => capture'[q] # "none"
  BY <1>1 DEF CaptureMarks, wsVars, procVars, TypeOK
<1>4. \A i \in Idents, n \in Names : processes[i][n] # None => processes[i][n] \in Procs
  BY <1>1 DEF TypeOK
<1>5. TableInv'
  BY <1>1, <1>3, <1>4 DEF TableInv, NodesKept
<1> QED
  BY <1>2, <1>5

(* The registration replaces a process that has ended, never a live one. *)
LEMMA RegisterKeepsProc == ASSUME IInv, NEW c \in Clients, RunRegister(c) PROVE ProcInv'
<1> PICK q \in Procs : q = mine[c]
  BY DEF RunRegister, IInv, ThreadInv, Tabling
<1>1. /\ ws[c] \in Idents /\ name[c] \in Names /\ slot[q] = <<ws[c], name[c]>>
      /\ nodes[ws[c]][name[c]] # None /\ capture[q] = "none"
      /\ processes[ws[c]][name[c]] # None => Dead(processes[ws[c]][name[c]])
  BY DEF RunRegister, IInv, TypeOK, ThreadInv, RunInv, Tabling, Vacant
<1>2. /\ UNCHANGED <<made, items, nodes, proc, slot>> /\ ProcInv
      /\ processes' = [processes EXCEPT ![ws[c]][name[c]] = q]
      /\ capture' = [capture EXCEPT ![q] = "start"]
      /\ \A d \in Clients : mine[d] # q => pc'[d] = pc[d] /\ mine'[d] = mine[d]
  BY DEF RunRegister, IInv, TypeOK, Answer, Goto, wsVars, stateVars, procVars
<1>3. /\ slot \in [Procs -> (Idents \X Names) \union {None}]
      /\ processes \in [Idents -> [Names -> Procs \union {None}]]
      /\ capture \in [Procs -> {"none", "start", "read", "scan", "settle", "gone", "broken"}]
  BY DEF IInv, TypeOK
<1>4. ProcOK(q)'
  <2>1. ProcOK(q) /\ slot[q] # None /\ slot[q][1] = ws[c] /\ slot[q][2] = name[c]
    BY <1>1, <1>2, <1>3, NoneAssumption DEF ProcInv
  <2>2. capture'[q] = "start" /\ processes'[ws[c]][name[c]] = q
    BY <1>1, <1>2, <1>3
  <2> QED
    BY <1>1, <1>2, <2>1, <2>2 DEF ProcOK
<1>5. ASSUME NEW p \in Procs, p # q PROVE ProcOK(p)'
  <2>1. capture'[p] = capture[p] /\ ProcOK(p) /\ (Dead(p)' <=> Dead(p))
    BY <1>2, <1>3, <1>5 DEF ProcInv, Dead
  <2>2. capture[p] # "none" => Dead(p) \/ processes'[slot[p][1]][slot[p][2]] = p
    BY <1>1, <1>2, <1>3, <1>5, <2>1, NoneAssumption DEF ProcOK
  <2>3. capture[p] = "none" => proc[p] = "none" \/ \E d \in Clients : pc'[d] \in Tabling /\ mine'[d] = p
    BY <1>2, <1>5, <2>1 DEF ProcOK
  <2> QED
    BY <1>2, <2>1, <2>2, <2>3 DEF ProcOK
<1> QED
  BY <1>4, <1>5 DEF ProcInv

(* kill() changes no fact about where the process is recorded. *)
LEMMA TimeoutKeepsProc == ASSUME IInv, NEW c \in Clients, TermTimeout(c) PROVE ProcInv'
<1>1. /\ mine[c] \in Procs /\ ~Dead(mine[c]) /\ pc[c] = "term"
      /\ capture[mine[c]] # "none"
  BY DEF TermTimeout, IInv, ThreadInv, StopInv, StopOK
<1>2. /\ UNCHANGED <<made, items, nodes, slot, processes, capture, mine>>
      /\ proc' = [proc EXCEPT ![mine[c]] = "killed"]
      /\ \A d \in Clients : pc[d] \in Tabling => pc'[d] = pc[d]
  BY DEF TermTimeout, IInv, TypeOK, Goto, wsVars, stateVars, Tabling
<1>3. ProcInv /\ proc \in [Procs -> {"none", "alive", "killed", "ok", "failed"}]
  BY DEF IInv, TypeOK
<1>4. ASSUME NEW p \in Procs PROVE /\ Dead(p)' <=> Dead(p)
                                   /\ proc'[p] = "none" <=> proc[p] = "none"
  BY <1>1, <1>2, <1>3 DEF ProcInv, ProcOK, Dead
<1> QED
  BY <1>1, <1>2, <1>3, <1>4 DEF ProcInv, ProcOK

(* A run during a stop displaces only what the stop no longer owes. *)
LEMMA RegisterKeepsStop == ASSUME IInv, NEW c \in Clients, RunRegister(c) PROVE StopInv'
<1> DEFINE q == mine[c]  old == processes[ws[c]][name[c]]
<1>1. /\ ws[c] \in Idents /\ name[c] \in Names /\ q \in Procs /\ (old # None => Dead(old))
  BY DEF RunRegister, IInv, TypeOK, ThreadInv, RunInv, Tabling, Vacant
<1>2. /\ UNCHANGED <<proc, slot>>
      /\ capture' = [capture EXCEPT ![q] = "start"]
      /\ processes' = [processes EXCEPT ![ws[c]][name[c]] = q]
      /\ pc'[c] = "idle"
      /\ \A d \in Clients \ {c} : /\ pc'[d] = pc[d] /\ mine'[d] = mine[d] /\ ws'[d] = ws[d]
                                  /\ name'[d] = name[d] /\ todo'[d] = todo[d] /\ owed'[d] = owed[d]
  BY DEF RunRegister, IInv, TypeOK, Answer, Goto, wsVars, stateVars, procVars
<1>3. /\ StopInv /\ None \notin Procs /\ processes \in [Idents -> [Names -> Procs \union {None}]]
      /\ \A p \in Procs : capture[p] # "none" => capture'[p] # "none"
  BY <1>2, NoneAssumption DEF IInv, TypeOK
<1> HIDE DEF q
<1>4. ASSUME NEW d \in Clients, d # c PROVE StopOK(d)'
  <2>1. /\ StopOK(d) /\ \A p \in Procs : Dead(p)' <=> Dead(p)
        /\ pc[d] # "idle" => ws[d] \in Idents
        /\ pc[d] \in {"term", "kill", "mark"} => mine[d] \in Procs
        /\ todo[d] \in SUBSET Names /\ owed[d] \in SUBSET Procs
    BY <1>2, <1>3 DEF StopInv, Dead, IInv, TypeOK, ThreadInv
  <2>2. ASSUME pc[d] # "idle", NEW p \in owed[d], NEW n \in todo[d], processes[ws[d]][n] = p
        PROVE  Dead(p) \/ processes'[ws[d]][n] = p
    BY <1>1, <1>2, <1>3, <2>1, <2>2
  <2> QED
    BY <1>2, <1>3, <1>4, <2>1, <2>2 DEF StopOK
<1>5. StopOK(c)'
  BY <1>2 DEF StopOK
<1> QED
  BY <1>4, <1>5 DEF StopInv

(* The process that has been waited for is no longer owed. *)
LEMMA WaitedKeepsStop == ASSUME IInv, NEW c \in Clients, StopWaited(c) PROVE StopInv'
<1>1. /\ pc[c] \in {"term", "kill"} /\ Dead(mine[c]) /\ pc'[c] = "mark"
      /\ \A d \in Clients \ {c} : pc'[d] = pc[d]
      /\ UNCHANGED <<nodes, proc, processes, slot, capture, ws, name, todo, mine, owed>>
  BY DEF StopWaited, IInv, TypeOK, Goto, stateVars, procVars
<1>2. StopInv /\ owed \in [Clients -> SUBSET Procs]
  BY DEF IInv, TypeOK
<1> QED
  BY <1>1, <1>2 DEF StopInv, StopOK, Dead

-----------------------------------------------------------------------------
(* Each part of the invariant is kept by every step.                       *)

(* Types. *)
LEMMA TypeStep == ASSUME IInv, [Next]_vars PROVE TypeOK'
<1> USE NoneAssumption DEF wsVars, stateVars, lockVars, procVars, threadVars, Goto, Answer, Dead
<1>1. ASSUME NEW c \in Clients, NEW o \in {"run", "stop", "delete", "build", "put"}, Receive(c, o)
      PROVE  TypeOK'
  BY <1>1 DEF Receive, IInv, TypeOK, ThreadInv, Labels
<1>2. ASSUME NEW c \in Clients, Refuse(c) PROVE TypeOK'
  BY <1>2 DEF Refuse, IInv, TypeOK, ThreadInv, Labels
<1>3. ASSUME NEW c \in Clients, Create(c) PROVE TypeOK'
  BY <1>3 DEF Create, IInv, TypeOK, ThreadInv, Labels
<1>4. ASSUME NEW c \in Clients, RunLookup(c) PROVE TypeOK'
  BY <1>4 DEF RunLookup, IInv, TypeOK, ThreadInv, Labels
<1>5. ASSUME NEW c \in Clients, NEW p \in Procs, RunSpawn(c, p) PROVE TypeOK'
  BY <1>5 DEF RunSpawn, Vacant, IInv, TypeOK, ThreadInv, Labels
<1>6. ASSUME NEW c \in Clients, RunRefused(c) PROVE TypeOK'
  BY <1>6 DEF RunRefused, IInv, TypeOK, ThreadInv, Labels
<1>7. ASSUME NEW c \in Clients, RunRecord(c) PROVE TypeOK'
  <2>1. [status |-> "running", pid |-> mine[c]] \in NodeRecord
    BY <1>7 DEF RunRecord, NodeRecord, IInv, ThreadInv, Tabling
  <2>2. ws[c] \in Idents /\ name[c] \in Names
    BY <1>7 DEF RunRecord, IInv, ThreadInv, TypeOK, Tabling
  <2>3. nodes' \in [Idents -> [Names -> NodeRecord \union {None}]]
    BY <1>7, <2>1, <2>2 DEF RunRecord, IInv, TypeOK
  <2> QED
    BY <1>7, <2>3 DEF RunRecord, IInv, TypeOK, Labels
<1>8. ASSUME NEW c \in Clients, RunAnnounce(c) PROVE TypeOK'
  BY <1>8 DEF RunAnnounce, IInv, TypeOK, ThreadInv, Labels
<1>9. ASSUME NEW c \in Clients, RunRegister(c) PROVE TypeOK'
  BY <1>9 DEF RunRegister, IInv, TypeOK, ThreadInv, Labels
<1>10. ASSUME NEW c \in Clients, StopBegin(c) PROVE TypeOK'
  BY <1>10 DEF StopBegin, IInv, TypeOK, ThreadInv, Labels
<1>11. ASSUME NEW c \in Clients, NEW n \in Names, StopNext(c, n) PROVE TypeOK'
  <2>1. CASE Skips(c, n)
    BY <2>1 DEF Skips, Kept, IInv, TypeOK, ThreadInv, Labels
  <2>2. CASE Signals(c, n)
    BY <2>2 DEF Signals, Kept, IInv, TypeOK, ThreadInv, Labels
  <2> QED
    BY <1>11, <2>1, <2>2, StopNextCases
<1>12. ASSUME NEW c \in Clients, StopWaited(c) PROVE TypeOK'
  BY <1>12 DEF StopWaited, IInv, TypeOK, ThreadInv, Labels
<1>13. ASSUME NEW c \in Clients, TermTimeout(c) PROVE TypeOK'
  BY <1>13 DEF TermTimeout, IInv, TypeOK, ThreadInv, Labels
<1>14. ASSUME NEW c \in Clients, KillTimeout(c) PROVE TypeOK'
  BY <1>14 DEF KillTimeout, GiveUp, IInv, TypeOK, ThreadInv, Labels
<1>15. ASSUME NEW c \in Clients, StopMark(c) PROVE TypeOK'
  <2>1. NodesType' /\ StopMarks(c) /\ TypeOK
    BY <1>15, StopMarkEffect DEF IInv
  <2> QED
    BY <2>1 DEF StopMarks, NodesType, TypeOK, Labels
<1>16. ASSUME NEW c \in Clients, DeleteForget(c) PROVE TypeOK'
  BY <1>16 DEF DeleteForget, IInv, TypeOK, ThreadInv, Labels
<1>17. ASSUME NEW c \in Clients, PutLookup(c) PROVE TypeOK'
  BY <1>17 DEF PutLookup, IInv, TypeOK, ThreadInv, Labels
<1>18. ASSUME NEW c \in Clients, PutWrite(c) PROVE TypeOK'
  BY <1>18 DEF PutWrite, IInv, TypeOK, ThreadInv, Labels
<1>19. ASSUME NEW c \in Clients, BuildLookup(c) PROVE TypeOK'
  BY <1>19 DEF BuildLookup, IInv, TypeOK, ThreadInv, Labels
<1>20. ASSUME NEW c \in Clients, BuildTake(c) PROVE TypeOK'
  BY <1>20 DEF BuildTake, IInv, TypeOK, ThreadInv, Labels
<1>21. ASSUME NEW c \in Clients, BuildAnnounce(c) PROVE TypeOK'
  BY <1>21 DEF BuildAnnounce, IInv, TypeOK, ThreadInv, Labels
<1>22. ASSUME NEW c \in Clients, BuildSettle(c) PROVE TypeOK'
  <2>1. status' \in [Idents -> {"idle", "building", "running", "error"}]
    <3>1. CASE status' = status
      BY <3>1 DEF IInv, TypeOK
    <3>2. CASE \E s \in {"idle", "error"} : status' = [status EXCEPT ![ws[c]] = s]
      BY <3>2 DEF IInv, TypeOK
    <3> QED
      BY <1>22, <3>1, <3>2 DEF BuildSettle
  <2> QED
    BY <1>22, <2>1 DEF BuildSettle, IInv, TypeOK, Labels
<1>23. ASSUME NEW c \in Clients, BuildUnlock(c) PROVE TypeOK'
  BY <1>23 DEF BuildUnlock, IInv, TypeOK, ThreadInv, Labels
<1>24. ASSUME NEW c \in Clients, Tail(c) PROVE TypeOK'
  BY <1>24, TailTypeStep
<1>25. ASSUME NEW p \in Procs, Exit(p) PROVE TypeOK'
  BY <1>25 DEF Exit, IInv, TypeOK, ThreadInv, Labels
<1>26. ASSUME NEW p \in Procs, Dies(p) PROVE TypeOK'
  BY <1>26 DEF Dies, IInv, TypeOK, ThreadInv, Labels
<1>27. ASSUME NEW p \in Procs, CaptureStart(p) PROVE TypeOK'
  BY <1>27 DEF CaptureStart, IInv, TypeOK, ThreadInv, Labels
<1>28. ASSUME NEW p \in Procs, CaptureBreak(p) PROVE TypeOK'
  BY <1>28 DEF CaptureBreak, IInv, TypeOK, ThreadInv, Labels
<1>29. ASSUME NEW p \in Procs, CaptureMark(p) PROVE TypeOK'
  BY <1>29, CaptureMarkKeeps
<1>30. ASSUME NEW p \in Procs, CaptureScan(p) PROVE TypeOK'
  BY <1>30 DEF CaptureScan, IInv, TypeOK, ThreadInv, Labels
<1>31. ASSUME NEW p \in Procs, CaptureSettle(p) PROVE TypeOK'
  BY <1>31 DEF CaptureSettle, IInv, TypeOK, ThreadInv, Labels
<1>32. CASE UNCHANGED vars
  BY <1>32 DEF vars, IInv, TypeOK, ThreadInv, Labels
<1> QED
  BY <1>1, <1>2, <1>3, <1>4, <1>5, <1>6, <1>7, <1>8, <1>9, <1>10, <1>11, <1>12, <1>13,
     <1>14, <1>15, <1>16, <1>17, <1>18, <1>19, <1>20, <1>21, <1>22, <1>23, <1>24, <1>25,
     <1>26, <1>27, <1>28, <1>29, <1>30, <1>31, <1>32 DEF Next, Handler, Capture, Tail

(* The local variables of the threads. *)
LEMMA ThreadStep == ASSUME IInv, [Next]_vars PROVE ThreadInv'
<1> USE NoneAssumption DEF wsVars, stateVars, lockVars, procVars, threadVars, Goto, Answer, Dead
<1>1. ASSUME NEW c \in Clients, NEW o \in {"run", "stop", "delete", "build", "put"}, Receive(c, o)
      PROVE  ThreadInv'
  BY <1>1 DEF Receive, IInv, TypeOK, ThreadInv, Tabling
<1>2. ASSUME NEW c \in Clients, Refuse(c) PROVE ThreadInv'
  BY <1>2 DEF Refuse, IInv, TypeOK, ThreadInv, Tabling
<1>3. ASSUME NEW c \in Clients, Create(c) PROVE ThreadInv'
  BY <1>3 DEF Create, IInv, TypeOK, ThreadInv, Tabling
<1>4. ASSUME NEW c \in Clients, RunLookup(c) PROVE ThreadInv'
  BY <1>4 DEF RunLookup, IInv, TypeOK, ThreadInv, Tabling
<1>5. ASSUME NEW c \in Clients, NEW p \in Procs, RunSpawn(c, p) PROVE ThreadInv'
  BY <1>5 DEF RunSpawn, Vacant, IInv, TypeOK, ThreadInv, Tabling
<1>6. ASSUME NEW c \in Clients, RunRefused(c) PROVE ThreadInv'
  BY <1>6 DEF RunRefused, IInv, TypeOK, ThreadInv, Tabling
<1>7. ASSUME NEW c \in Clients, RunRecord(c) PROVE ThreadInv'
  BY <1>7 DEF RunRecord, NodeRecord, IInv, TypeOK, ThreadInv, Tabling
<1>8. ASSUME NEW c \in Clients, RunAnnounce(c) PROVE ThreadInv'
  BY <1>8 DEF RunAnnounce, IInv, TypeOK, ThreadInv, Tabling
<1>9. ASSUME NEW c \in Clients, RunRegister(c) PROVE ThreadInv'
  BY <1>9 DEF RunRegister, IInv, TypeOK, ThreadInv, Tabling
<1>10. ASSUME NEW c \in Clients, StopBegin(c) PROVE ThreadInv'
  BY <1>10 DEF StopBegin, IInv, TypeOK, ThreadInv, Tabling
<1>11. ASSUME NEW c \in Clients, NEW n \in Names, StopNext(c, n) PROVE ThreadInv'
  <2>1. CASE Skips(c, n)
    BY <2>1 DEF Skips, Kept, IInv, TypeOK, ThreadInv, Tabling
  <2>2. CASE Signals(c, n)
    BY <2>2 DEF Signals, Kept, IInv, TypeOK, ThreadInv, Tabling
  <2> QED
    BY <1>11, <2>1, <2>2, StopNextCases
<1>12. ASSUME NEW c \in Clients, StopWaited(c) PROVE ThreadInv'
  BY <1>12 DEF StopWaited, IInv, TypeOK, ThreadInv, Tabling
<1>13. ASSUME NEW c \in Clients, TermTimeout(c) PROVE ThreadInv'
  BY <1>13 DEF TermTimeout, IInv, TypeOK, ThreadInv, Tabling
<1>14. ASSUME NEW c \in Clients, KillTimeout(c) PROVE ThreadInv'
  BY <1>14 DEF KillTimeout, GiveUp, IInv, TypeOK, ThreadInv, Tabling
<1>15. ASSUME NEW c \in Clients, StopMark(c) PROVE ThreadInv'
  BY <1>15 DEF StopMark, IInv, TypeOK, ThreadInv, Tabling
<1>16. ASSUME NEW c \in Clients, DeleteForget(c) PROVE ThreadInv'
  BY <1>16 DEF DeleteForget, IInv, TypeOK, ThreadInv, Tabling
<1>17. ASSUME NEW c \in Clients, PutLookup(c) PROVE ThreadInv'
  BY <1>17 DEF PutLookup, IInv, TypeOK, ThreadInv, Tabling
<1>18. ASSUME NEW c \in Clients, PutWrite(c) PROVE ThreadInv'
  BY <1>18 DEF PutWrite, IInv, TypeOK, ThreadInv, Tabling
<1>19. ASSUME NEW c \in Clients, BuildLookup(c) PROVE ThreadInv'
  BY <1>19 DEF BuildLookup, IInv, TypeOK, ThreadInv, Tabling
<1>20. ASSUME NEW c \in Clients, BuildTake(c) PROVE ThreadInv'
  BY <1>20 DEF BuildTake, IInv, TypeOK, ThreadInv, Tabling
<1>21. ASSUME NEW c \in Clients, BuildAnnounce(c) PROVE ThreadInv'
  BY <1>21 DEF BuildAnnounce, IInv, TypeOK, ThreadInv, Tabling
<1>22. ASSUME NEW c \in Clients, BuildSettle(c) PROVE ThreadInv'
  BY <1>22 DEF BuildSettle, IInv, TypeOK, ThreadInv, Tabling
<1>23. ASSUME NEW c \in Clients, BuildUnlock(c) PROVE ThreadInv'
  BY <1>23 DEF BuildUnlock, IInv, TypeOK, ThreadInv, Tabling
<1>24. ASSUME NEW c \in Clients, Tail(c) PROVE ThreadInv'
  <2>1. CASE Ends(c)
    BY <2>1 DEF Ends, TailKept, Kept, IInv, TypeOK, ThreadInv, Tabling
  <2>2. CASE Moves(c)
    BY <2>2 DEF Moves, TailKept, Kept, IInv, TypeOK, ThreadInv, Tabling
  <2> QED
    BY <1>24, <2>1, <2>2, TailCases
<1>25. ASSUME NEW p \in Procs, Exit(p) PROVE ThreadInv'
  BY <1>25 DEF Exit, IInv, TypeOK, ThreadInv, Tabling
<1>26. ASSUME NEW p \in Procs, Dies(p) PROVE ThreadInv'
  BY <1>26 DEF Dies, IInv, TypeOK, ThreadInv, Tabling
<1>27. ASSUME NEW p \in Procs, CaptureStart(p) PROVE ThreadInv'
  BY <1>27 DEF CaptureStart, IInv, TypeOK, ThreadInv, Tabling
<1>28. ASSUME NEW p \in Procs, CaptureBreak(p) PROVE ThreadInv'
  BY <1>28 DEF CaptureBreak, IInv, TypeOK, ThreadInv, Tabling
<1>29. ASSUME NEW p \in Procs, CaptureMark(p) PROVE ThreadInv'
  BY <1>29 DEF CaptureMark, Outcome, IInv, TypeOK, ThreadInv, Tabling
<1>30. ASSUME NEW p \in Procs, CaptureScan(p) PROVE ThreadInv'
  BY <1>30 DEF CaptureScan, IInv, TypeOK, ThreadInv, Tabling
<1>31. ASSUME NEW p \in Procs, CaptureSettle(p) PROVE ThreadInv'
  BY <1>31 DEF CaptureSettle, IInv, TypeOK, ThreadInv, Tabling
<1>32. CASE UNCHANGED vars
  BY <1>32 DEF vars, IInv, TypeOK, ThreadInv, Tabling
<1> QED
  BY <1>1, <1>2, <1>3, <1>4, <1>5, <1>6, <1>7, <1>8, <1>9, <1>10, <1>11, <1>12, <1>13,
     <1>14, <1>15, <1>16, <1>17, <1>18, <1>19, <1>20, <1>21, <1>22, <1>23, <1>24, <1>25,
     <1>26, <1>27, <1>28, <1>29, <1>30, <1>31, <1>32 DEF Next, Handler, Capture, Tail

(* run() under the lock. *)
LEMMA RunStep == ASSUME IInv, [Next]_vars PROVE RunInv'
<1> USE NoneAssumption DEF wsVars, stateVars, lockVars, procVars, threadVars, Goto, Answer, Dead
<1>1. ASSUME NEW c \in Clients, NEW o \in {"run", "stop", "delete", "build", "put"}, Receive(c, o)
      PROVE  RunInv'
  BY <1>1 DEF Receive, IInv, TypeOK, ThreadInv, RunInv, Tabling, Vacant
<1>2. ASSUME NEW c \in Clients, Refuse(c) PROVE RunInv'
  BY <1>2 DEF Refuse, IInv, TypeOK, ThreadInv, RunInv, Tabling, Vacant
<1>3. ASSUME NEW c \in Clients, Create(c) PROVE RunInv'
  BY <1>3 DEF Create, IInv, TypeOK, ThreadInv, RunInv, Tabling, Vacant
<1>4. ASSUME NEW c \in Clients, RunLookup(c) PROVE RunInv'
  BY <1>4 DEF RunLookup, IInv, TypeOK, ThreadInv, RunInv, Tabling, Vacant
<1>5. ASSUME NEW c \in Clients, NEW p \in Procs, RunSpawn(c, p) PROVE RunInv'
  BY <1>5 DEF RunSpawn, Vacant, IInv, TypeOK, ThreadInv, RunInv, Tabling, ProcInv, ProcOK
<1>6. ASSUME NEW c \in Clients, RunRefused(c) PROVE RunInv'
  BY <1>6 DEF RunRefused, IInv, TypeOK, ThreadInv, RunInv, Tabling, Vacant
<1>7. ASSUME NEW c \in Clients, RunRecord(c) PROVE RunInv'
  BY <1>7 DEF RunRecord, NodeRecord, IInv, TypeOK, ThreadInv, RunInv, Tabling, Vacant
<1>8. ASSUME NEW c \in Clients, RunAnnounce(c) PROVE RunInv'
  BY <1>8 DEF RunAnnounce, IInv, TypeOK, ThreadInv, RunInv, Tabling, Vacant
<1>9. ASSUME NEW c \in Clients, RunRegister(c) PROVE RunInv'
  BY <1>9 DEF RunRegister, IInv, TypeOK, ThreadInv, RunInv, Tabling, Vacant
<1>10. ASSUME NEW c \in Clients, StopBegin(c) PROVE RunInv'
  BY <1>10 DEF StopBegin, IInv, TypeOK, ThreadInv, RunInv, Tabling, Vacant
<1>11. ASSUME NEW c \in Clients, NEW n \in Names, StopNext(c, n) PROVE RunInv'
  <2>1. CASE Skips(c, n)
    BY <2>1 DEF Skips, Kept, IInv, TypeOK, ThreadInv, RunInv, Tabling, Vacant
  <2>2. CASE Signals(c, n)
    BY <2>2 DEF Signals, Kept, IInv, TypeOK, ThreadInv, RunInv, Tabling, Vacant
  <2> QED
    BY <1>11, <2>1, <2>2, StopNextCases
<1>12. ASSUME NEW c \in Clients, StopWaited(c) PROVE RunInv'
  BY <1>12 DEF StopWaited, IInv, TypeOK, ThreadInv, RunInv, Tabling, Vacant
<1>13. ASSUME NEW c \in Clients, TermTimeout(c) PROVE RunInv'
  BY <1>13 DEF TermTimeout, IInv, TypeOK, ThreadInv, RunInv, Tabling, Vacant
<1>14. ASSUME NEW c \in Clients, KillTimeout(c) PROVE RunInv'
  BY <1>14 DEF KillTimeout, GiveUp, IInv, TypeOK, ThreadInv, RunInv, Tabling, Vacant
<1>15. ASSUME NEW c \in Clients, StopMark(c) PROVE RunInv'
  BY <1>15, StopMarkEffect DEF StopMarks, NodesKept, IInv, TypeOK, ThreadInv, RunInv,
     Tabling, Vacant
<1>16. ASSUME NEW c \in Clients, DeleteForget(c) PROVE RunInv'
  BY <1>16 DEF DeleteForget, IInv, TypeOK, ThreadInv, RunInv, Tabling, Vacant
<1>17. ASSUME NEW c \in Clients, PutLookup(c) PROVE RunInv'
  BY <1>17 DEF PutLookup, IInv, TypeOK, ThreadInv, RunInv, Tabling, Vacant
<1>18. ASSUME NEW c \in Clients, PutWrite(c) PROVE RunInv'
  BY <1>18 DEF PutWrite, IInv, TypeOK, ThreadInv, RunInv, Tabling, Vacant
<1>19. ASSUME NEW c \in Clients, BuildLookup(c) PROVE RunInv'
  BY <1>19 DEF BuildLookup, IInv, TypeOK, ThreadInv, RunInv, Tabling, Vacant
<1>20. ASSUME NEW c \in Clients, BuildTake(c) PROVE RunInv'
  BY <1>20 DEF BuildTake, IInv, TypeOK, ThreadInv, RunInv, Tabling, Vacant
<1>21. ASSUME NEW c \in Clients, BuildAnnounce(c) PROVE RunInv'
  BY <1>21 DEF BuildAnnounce, IInv, TypeOK, ThreadInv, RunInv, Tabling, Vacant
<1>22. ASSUME NEW c \in Clients, BuildSettle(c) PROVE RunInv'
  BY <1>22 DEF BuildSettle, IInv, TypeOK, ThreadInv, RunInv, Tabling, Vacant
<1>23. ASSUME NEW c \in Clients, BuildUnlock(c) PROVE RunInv'
  BY <1>23 DEF BuildUnlock, IInv, TypeOK, ThreadInv, RunInv, Tabling, Vacant
<1>24. ASSUME NEW c \in Clients, Tail(c) PROVE RunInv'
  <2>1. CASE Ends(c)
    BY <2>1 DEF Ends, TailKept, Kept, IInv, TypeOK, ThreadInv, RunInv, Tabling, Vacant
  <2>2. CASE Moves(c)
    BY <2>2 DEF Moves, TailKept, Kept, IInv, TypeOK, ThreadInv, RunInv, Tabling, Vacant
  <2> QED
    BY <1>24, <2>1, <2>2, TailCases
<1>25. ASSUME NEW p \in Procs, Exit(p) PROVE RunInv'
  BY <1>25 DEF Exit, IInv, TypeOK, ThreadInv, RunInv, Tabling, Vacant
<1>26. ASSUME NEW p \in Procs, Dies(p) PROVE RunInv'
  BY <1>26 DEF Dies, IInv, TypeOK, ThreadInv, RunInv, Tabling, Vacant
<1>27. ASSUME NEW p \in Procs, CaptureStart(p) PROVE RunInv'
  BY <1>27 DEF CaptureStart, IInv, TypeOK, ThreadInv, RunInv, Tabling, Vacant
<1>28. ASSUME NEW p \in Procs, CaptureBreak(p) PROVE RunInv'
  BY <1>28 DEF CaptureBreak, IInv, TypeOK, ThreadInv, RunInv, Tabling, Vacant
<1>29. ASSUME NEW p \in Procs, CaptureMark(p) PROVE RunInv'
  BY <1>29, CaptureMarkEffect DEF CaptureMarks, NodesKept, IInv, TypeOK, ThreadInv,
     RunInv, Tabling, Vacant
<1>30. ASSUME NEW p \in Procs, CaptureScan(p) PROVE RunInv'
  BY <1>30 DEF CaptureScan, IInv, TypeOK, ThreadInv, RunInv, Tabling, Vacant
<1>31. ASSUME NEW p \in Procs, CaptureSettle(p) PROVE RunInv'
  BY <1>31 DEF CaptureSettle, IInv, TypeOK, ThreadInv, RunInv, Tabling, Vacant
<1>32. CASE UNCHANGED vars
  BY <1>32 DEF vars, IInv, TypeOK, ThreadInv, RunInv, Tabling, Vacant
<1> QED
  BY <1>1, <1>2, <1>3, <1>4, <1>5, <1>6, <1>7, <1>8, <1>9, <1>10, <1>11, <1>12, <1>13,
     <1>14, <1>15, <1>16, <1>17, <1>18, <1>19, <1>20, <1>21, <1>22, <1>23, <1>24, <1>25,
     <1>26, <1>27, <1>28, <1>29, <1>30, <1>31, <1>32 DEF Next, Handler, Capture, Tail

(* Where a process is recorded. *)
LEMMA ProcStep == ASSUME IInv, [Next]_vars PROVE ProcInv'
<1> USE NoneAssumption DEF wsVars, stateVars, lockVars, procVars, threadVars, Goto, Answer, Dead
<1>1. ASSUME NEW c \in Clients, NEW o \in {"run", "stop", "delete", "build", "put"}, Receive(c, o)
      PROVE  ProcInv'
  BY <1>1 DEF Receive, IInv, TypeOK, ThreadInv, RunInv, ProcInv, ProcOK, TableInv, Tabling
<1>2. ASSUME NEW c \in Clients, Refuse(c) PROVE ProcInv'
  BY <1>2 DEF Refuse, IInv, TypeOK, ThreadInv, RunInv, ProcInv, ProcOK, TableInv, Tabling
<1>3. ASSUME NEW c \in Clients, Create(c) PROVE ProcInv'
  BY <1>3 DEF Create, IInv, TypeOK, ThreadInv, RunInv, ProcInv, ProcOK, TableInv, Tabling
<1>4. ASSUME NEW c \in Clients, RunLookup(c) PROVE ProcInv'
  BY <1>4 DEF RunLookup, IInv, TypeOK, ThreadInv, RunInv, ProcInv, ProcOK, TableInv, Tabling
<1>5. ASSUME NEW c \in Clients, NEW p \in Procs, RunSpawn(c, p) PROVE ProcInv'
  BY <1>5 DEF RunSpawn, Vacant, IInv, TypeOK, ThreadInv, RunInv, ProcInv, ProcOK,
     TableInv, Tabling
<1>6. ASSUME NEW c \in Clients, RunRefused(c) PROVE ProcInv'
  BY <1>6 DEF RunRefused, IInv, TypeOK, ThreadInv, RunInv, ProcInv, ProcOK, TableInv,
     Tabling
<1>7. ASSUME NEW c \in Clients, RunRecord(c) PROVE ProcInv'
  BY <1>7 DEF RunRecord, NodeRecord, IInv, TypeOK, ThreadInv, RunInv, ProcInv, ProcOK,
     TableInv, Tabling
<1>8. ASSUME NEW c \in Clients, RunAnnounce(c) PROVE ProcInv'
  BY <1>8 DEF RunAnnounce, IInv, TypeOK, ThreadInv, RunInv, ProcInv, ProcOK, TableInv,
     Tabling
<1>9. ASSUME NEW c \in Clients, RunRegister(c) PROVE ProcInv'
  BY <1>9, RegisterKeepsProc
<1>10. ASSUME NEW c \in Clients, StopBegin(c) PROVE ProcInv'
  BY <1>10 DEF StopBegin, IInv, TypeOK, ThreadInv, RunInv, ProcInv, ProcOK, TableInv,
     Tabling
<1>11. ASSUME NEW c \in Clients, NEW n \in Names, StopNext(c, n) PROVE ProcInv'
  <2>1. CASE Skips(c, n)
    BY <2>1 DEF Skips, Kept, IInv, TypeOK, ThreadInv, RunInv, ProcInv, ProcOK, TableInv,
       Tabling
  <2>2. CASE Signals(c, n)
    BY <2>2 DEF Signals, Kept, IInv, TypeOK, ThreadInv, RunInv, ProcInv, ProcOK, TableInv,
       Tabling
  <2> QED
    BY <1>11, <2>1, <2>2, StopNextCases
<1>12. ASSUME NEW c \in Clients, StopWaited(c) PROVE ProcInv'
  BY <1>12 DEF StopWaited, IInv, TypeOK, ThreadInv, RunInv, ProcInv, ProcOK, TableInv,
     Tabling
<1>13. ASSUME NEW c \in Clients, TermTimeout(c) PROVE ProcInv'
  BY <1>13, TimeoutKeepsProc
<1>14. ASSUME NEW c \in Clients, KillTimeout(c) PROVE ProcInv'
  BY <1>14 DEF KillTimeout, GiveUp, IInv, TypeOK, ThreadInv, RunInv, ProcInv, ProcOK,
     TableInv, Tabling
<1>15. ASSUME NEW c \in Clients, StopMark(c) PROVE ProcInv'
  BY <1>15, StopMarkKeeps
<1>16. ASSUME NEW c \in Clients, DeleteForget(c) PROVE ProcInv'
  BY <1>16 DEF DeleteForget, IInv, TypeOK, ThreadInv, RunInv, ProcInv, ProcOK, TableInv,
     Tabling
<1>17. ASSUME NEW c \in Clients, PutLookup(c) PROVE ProcInv'
  BY <1>17 DEF PutLookup, IInv, TypeOK, ThreadInv, RunInv, ProcInv, ProcOK, TableInv,
     Tabling
<1>18. ASSUME NEW c \in Clients, PutWrite(c) PROVE ProcInv'
  BY <1>18 DEF PutWrite, IInv, TypeOK, ThreadInv, RunInv, ProcInv, ProcOK, TableInv, Tabling
<1>19. ASSUME NEW c \in Clients, BuildLookup(c) PROVE ProcInv'
  BY <1>19 DEF BuildLookup, IInv, TypeOK, ThreadInv, RunInv, ProcInv, ProcOK, TableInv,
     Tabling
<1>20. ASSUME NEW c \in Clients, BuildTake(c) PROVE ProcInv'
  BY <1>20 DEF BuildTake, IInv, TypeOK, ThreadInv, RunInv, ProcInv, ProcOK, TableInv,
     Tabling
<1>21. ASSUME NEW c \in Clients, BuildAnnounce(c) PROVE ProcInv'
  BY <1>21 DEF BuildAnnounce, IInv, TypeOK, ThreadInv, RunInv, ProcInv, ProcOK,
     TableInv, Tabling
<1>22. ASSUME NEW c \in Clients, BuildSettle(c) PROVE ProcInv'
  BY <1>22 DEF BuildSettle, IInv, TypeOK, ThreadInv, RunInv, ProcInv, ProcOK,
     TableInv, Tabling
<1>23. ASSUME NEW c \in Clients, BuildUnlock(c) PROVE ProcInv'
  BY <1>23 DEF BuildUnlock, IInv, TypeOK, ThreadInv, RunInv, ProcInv, ProcOK,
     TableInv, Tabling
<1>24. ASSUME NEW c \in Clients, Tail(c) PROVE ProcInv'
  <2>1. CASE Ends(c)
    BY <2>1 DEF Ends, TailKept, Kept, IInv, TypeOK, ThreadInv, RunInv, ProcInv, ProcOK,
       TableInv, Tabling
  <2>2. CASE Moves(c)
    BY <2>2 DEF Moves, TailKept, Kept, IInv, TypeOK, ThreadInv, RunInv, ProcInv, ProcOK,
       TableInv, Tabling
  <2> QED
    BY <1>24, <2>1, <2>2, TailCases
<1>25. ASSUME NEW p \in Procs, Exit(p) PROVE ProcInv'
  BY <1>25 DEF Exit, IInv, TypeOK, ThreadInv, RunInv, ProcInv, ProcOK, TableInv, Tabling
<1>26. ASSUME NEW p \in Procs, Dies(p) PROVE ProcInv'
  BY <1>26 DEF Dies, IInv, TypeOK, ThreadInv, RunInv, ProcInv, ProcOK, TableInv, Tabling
<1>27. ASSUME NEW p \in Procs, CaptureStart(p) PROVE ProcInv'
  BY <1>27 DEF CaptureStart, IInv, TypeOK, ThreadInv, RunInv, ProcInv, ProcOK, TableInv,
     Tabling
<1>28. ASSUME NEW p \in Procs, CaptureBreak(p) PROVE ProcInv'
  BY <1>28 DEF CaptureBreak, IInv, TypeOK, ThreadInv, RunInv, ProcInv, ProcOK, TableInv,
     Tabling
<1>29. ASSUME NEW p \in Procs, CaptureMark(p) PROVE ProcInv'
  BY <1>29, CaptureMarkEffect DEF CaptureMarks, NodesKept, IInv, TypeOK, ThreadInv,
     RunInv, ProcInv, ProcOK, Tabling
<1>30. ASSUME NEW p \in Procs, CaptureScan(p) PROVE ProcInv'
  BY <1>30 DEF CaptureScan, IInv, TypeOK, ThreadInv, RunInv, ProcInv, ProcOK, TableInv,
     Tabling
<1>31. ASSUME NEW p \in Procs, CaptureSettle(p) PROVE ProcInv'
  BY <1>31 DEF CaptureSettle, IInv, TypeOK, ThreadInv, RunInv, ProcInv, ProcOK, TableInv,
     Tabling
<1>32. CASE UNCHANGED vars
  BY <1>32 DEF vars, IInv, TypeOK, ThreadInv, RunInv, ProcInv, ProcOK, TableInv, Tabling
<1> QED
  BY <1>1, <1>2, <1>3, <1>4, <1>5, <1>6, <1>7, <1>8, <1>9, <1>10, <1>11, <1>12, <1>13,
     <1>14, <1>15, <1>16, <1>17, <1>18, <1>19, <1>20, <1>21, <1>22, <1>23, <1>24, <1>25,
     <1>26, <1>27, <1>28, <1>29, <1>30, <1>31, <1>32 DEF Next, Handler, Capture, Tail

(* The table and the records. *)
LEMMA TableStep == ASSUME IInv, [Next]_vars PROVE TableInv'
<1> USE NoneAssumption DEF wsVars, stateVars, lockVars, procVars, threadVars, Goto, Answer, Dead
<1>1. ASSUME NEW c \in Clients, NEW o \in {"run", "stop", "delete", "build", "put"}, Receive(c, o)
      PROVE  TableInv'
  BY <1>1 DEF Receive, IInv, TypeOK, ThreadInv, RunInv, TableInv, Tabling
<1>2. ASSUME NEW c \in Clients, Refuse(c) PROVE TableInv'
  BY <1>2 DEF Refuse, IInv, TypeOK, ThreadInv, RunInv, TableInv, Tabling
<1>3. ASSUME NEW c \in Clients, Create(c) PROVE TableInv'
  BY <1>3 DEF Create, IInv, TypeOK, ThreadInv, RunInv, TableInv, Tabling
<1>4. ASSUME NEW c \in Clients, RunLookup(c) PROVE TableInv'
  BY <1>4 DEF RunLookup, IInv, TypeOK, ThreadInv, RunInv, TableInv, Tabling
<1>5. ASSUME NEW c \in Clients, NEW p \in Procs, RunSpawn(c, p) PROVE TableInv'
  <2>1. /\ UNCHANGED <<made, nodes, processes, capture>> /\ TableInv
        /\ \A q \in Procs : slot[q] # None => slot'[q] = slot[q]
    BY <1>5 DEF RunSpawn, IInv, TypeOK, ProcInv, ProcOK
  <2>2. ASSUME NEW i \in Idents, NEW n \in Names
        PROVE  /\ processes[i][n] # None => processes[i][n] \in Procs
               /\ nodes[i][n] # None => nodes[i][n].pid \in Procs
    BY DEF IInv, TypeOK, NodeRecord
  <2>3. \A i \in Idents, n \in Names : <<i, n>> # None
    OBVIOUS
  <2>4. ASSUME NEW i \in Idents, NEW n \in Names, processes[i][n] # None
        PROVE  slot'[processes[i][n]] = <<i, n>> /\ capture[processes[i][n]] # "none"
    BY <2>1, <2>2, <2>3, <2>4 DEF TableInv
  <2>5. ASSUME NEW i \in Idents, NEW n \in Names, nodes[i][n] # None
        PROVE  i \in made /\ slot'[nodes[i][n].pid] = <<i, n>>
    BY <2>1, <2>2, <2>3, <2>5 DEF TableInv
  <2> QED
    BY <2>1, <2>4, <2>5 DEF TableInv
<1>6. ASSUME NEW c \in Clients, RunRefused(c) PROVE TableInv'
  BY <1>6 DEF RunRefused, IInv, TypeOK, ThreadInv, RunInv, TableInv, Tabling
<1>7. ASSUME NEW c \in Clients, RunRecord(c) PROVE TableInv'
  BY <1>7 DEF RunRecord, NodeRecord, IInv, TypeOK, ThreadInv, RunInv, TableInv, Tabling
<1>8. ASSUME NEW c \in Clients, RunAnnounce(c) PROVE TableInv'
  BY <1>8 DEF RunAnnounce, IInv, TypeOK, ThreadInv, RunInv, TableInv, Tabling
<1>9. ASSUME NEW c \in Clients, RunRegister(c) PROVE TableInv'
  BY <1>9 DEF RunRegister, IInv, TypeOK, ThreadInv, RunInv, TableInv, Tabling
<1>10. ASSUME NEW c \in Clients, StopBegin(c) PROVE TableInv'
  BY <1>10 DEF StopBegin, IInv, TypeOK, ThreadInv, RunInv, TableInv, Tabling
<1>11. ASSUME NEW c \in Clients, NEW n \in Names, StopNext(c, n) PROVE TableInv'
  <2>1. CASE Skips(c, n)
    BY <2>1 DEF Skips, Kept, IInv, TypeOK, ThreadInv, RunInv, TableInv, Tabling
  <2>2. CASE Signals(c, n)
    BY <2>2 DEF Signals, Kept, IInv, TypeOK, ThreadInv, RunInv, TableInv, Tabling
  <2> QED
    BY <1>11, <2>1, <2>2, StopNextCases
<1>12. ASSUME NEW c \in Clients, StopWaited(c) PROVE TableInv'
  BY <1>12 DEF StopWaited, IInv, TypeOK, ThreadInv, RunInv, TableInv, Tabling
<1>13. ASSUME NEW c \in Clients, TermTimeout(c) PROVE TableInv'
  BY <1>13 DEF TermTimeout, IInv, TypeOK, ThreadInv, RunInv, TableInv, Tabling
<1>14. ASSUME NEW c \in Clients, KillTimeout(c) PROVE TableInv'
  BY <1>14 DEF KillTimeout, GiveUp, IInv, TypeOK, ThreadInv, RunInv, TableInv, Tabling
<1>15. ASSUME NEW c \in Clients, StopMark(c) PROVE TableInv'
  BY <1>15, StopMarkKeeps
<1>16. ASSUME NEW c \in Clients, DeleteForget(c) PROVE TableInv'
  BY <1>16 DEF DeleteForget, IInv, TypeOK, ThreadInv, RunInv, TableInv, Tabling
<1>17. ASSUME NEW c \in Clients, PutLookup(c) PROVE TableInv'
  BY <1>17 DEF PutLookup, IInv, TypeOK, ThreadInv, RunInv, TableInv, Tabling
<1>18. ASSUME NEW c \in Clients, PutWrite(c) PROVE TableInv'
  BY <1>18 DEF PutWrite, IInv, TypeOK, ThreadInv, RunInv, TableInv, Tabling
<1>19. ASSUME NEW c \in Clients, BuildLookup(c) PROVE TableInv'
  BY <1>19 DEF BuildLookup, IInv, TypeOK, ThreadInv, RunInv, TableInv, Tabling
<1>20. ASSUME NEW c \in Clients, BuildTake(c) PROVE TableInv'
  BY <1>20 DEF BuildTake, IInv, TypeOK, ThreadInv, RunInv, TableInv, Tabling
<1>21. ASSUME NEW c \in Clients, BuildAnnounce(c) PROVE TableInv'
  BY <1>21 DEF BuildAnnounce, IInv, TypeOK, ThreadInv, RunInv, TableInv, Tabling
<1>22. ASSUME NEW c \in Clients, BuildSettle(c) PROVE TableInv'
  BY <1>22 DEF BuildSettle, IInv, TypeOK, ThreadInv, RunInv, TableInv, Tabling
<1>23. ASSUME NEW c \in Clients, BuildUnlock(c) PROVE TableInv'
  BY <1>23 DEF BuildUnlock, IInv, TypeOK, ThreadInv, RunInv, TableInv, Tabling
<1>24. ASSUME NEW c \in Clients, Tail(c) PROVE TableInv'
  <2>1. CASE Ends(c)
    BY <2>1 DEF Ends, TailKept, Kept, IInv, TypeOK, TableInv
  <2>2. CASE Moves(c)
    BY <2>2 DEF Moves, TailKept, Kept, IInv, TypeOK, TableInv
  <2> QED
    BY <1>24, <2>1, <2>2, TailCases
<1>25. ASSUME NEW p \in Procs, Exit(p) PROVE TableInv'
  BY <1>25 DEF Exit, IInv, TypeOK, ThreadInv, RunInv, TableInv, Tabling
<1>26. ASSUME NEW p \in Procs, Dies(p) PROVE TableInv'
  BY <1>26 DEF Dies, IInv, TypeOK, ThreadInv, RunInv, TableInv, Tabling
<1>27. ASSUME NEW p \in Procs, CaptureStart(p) PROVE TableInv'
  BY <1>27 DEF CaptureStart, IInv, TypeOK, ThreadInv, RunInv, TableInv, Tabling
<1>28. ASSUME NEW p \in Procs, CaptureBreak(p) PROVE TableInv'
  BY <1>28 DEF CaptureBreak, IInv, TypeOK, ThreadInv, RunInv, TableInv, Tabling
<1>29. ASSUME NEW p \in Procs, CaptureMark(p) PROVE TableInv'
  BY <1>29, CaptureMarkKeeps
<1>30. ASSUME NEW p \in Procs, CaptureScan(p) PROVE TableInv'
  BY <1>30 DEF CaptureScan, IInv, TypeOK, ThreadInv, RunInv, TableInv, Tabling
<1>31. ASSUME NEW p \in Procs, CaptureSettle(p) PROVE TableInv'
  BY <1>31 DEF CaptureSettle, IInv, TypeOK, ThreadInv, RunInv, TableInv, Tabling
<1>32. CASE UNCHANGED vars
  BY <1>32 DEF vars, IInv, TypeOK, ThreadInv, RunInv, TableInv, Tabling
<1> QED
  BY <1>1, <1>2, <1>3, <1>4, <1>5, <1>6, <1>7, <1>8, <1>9, <1>10, <1>11, <1>12, <1>13,
     <1>14, <1>15, <1>16, <1>17, <1>18, <1>19, <1>20, <1>21, <1>22, <1>23, <1>24, <1>25,
     <1>26, <1>27, <1>28, <1>29, <1>30, <1>31, <1>32 DEF Next, Handler, Capture, Tail

(* What stop() owes. *)
LEMMA StopStep == ASSUME IInv, [Next]_vars PROVE StopInv'
<1> USE NoneAssumption DEF wsVars, stateVars, lockVars, procVars, threadVars, Goto, Answer, Dead
<1>1. ASSUME NEW c \in Clients, NEW o \in {"run", "stop", "delete", "build", "put"}, Receive(c, o)
      PROVE  StopInv'
  BY <1>1 DEF Receive, IInv, TypeOK, ThreadInv, StopInv, StopOK, TableInv, Tabling
<1>2. ASSUME NEW c \in Clients, Refuse(c) PROVE StopInv'
  BY <1>2 DEF Refuse, IInv, TypeOK, ThreadInv, StopInv, StopOK, TableInv, Tabling
<1>3. ASSUME NEW c \in Clients, Create(c) PROVE StopInv'
  BY <1>3 DEF Create, IInv, TypeOK, ThreadInv, StopInv, StopOK, TableInv, Tabling
<1>4. ASSUME NEW c \in Clients, RunLookup(c) PROVE StopInv'
  BY <1>4 DEF RunLookup, IInv, TypeOK, ThreadInv, StopInv, StopOK, TableInv, Tabling
<1>5. ASSUME NEW c \in Clients, NEW p \in Procs, RunSpawn(c, p) PROVE StopInv'
  BY <1>5 DEF RunSpawn, Vacant, IInv, TypeOK, ThreadInv, StopInv, StopOK, TableInv,
     Tabling, ProcInv, ProcOK
<1>6. ASSUME NEW c \in Clients, RunRefused(c) PROVE StopInv'
  BY <1>6 DEF RunRefused, IInv, TypeOK, ThreadInv, StopInv, StopOK, TableInv, Tabling
<1>7. ASSUME NEW c \in Clients, RunRecord(c) PROVE StopInv'
  BY <1>7 DEF RunRecord, NodeRecord, IInv, TypeOK, ThreadInv, StopInv, StopOK, TableInv,
     Tabling
<1>8. ASSUME NEW c \in Clients, RunAnnounce(c) PROVE StopInv'
  BY <1>8 DEF RunAnnounce, IInv, TypeOK, ThreadInv, StopInv, StopOK, TableInv, Tabling
<1>9. ASSUME NEW c \in Clients, RunRegister(c) PROVE StopInv'
  BY <1>9, RegisterKeepsStop
<1>10. ASSUME NEW c \in Clients, StopBegin(c) PROVE StopInv'
  BY <1>10 DEF StopBegin, IInv, TypeOK, ThreadInv, StopInv, StopOK, TableInv, Tabling
<1>11. ASSUME NEW c \in Clients, NEW n \in Names, StopNext(c, n) PROVE StopInv'
  <2>1. CASE Skips(c, n)
    BY <2>1 DEF Skips, Kept, IInv, TypeOK, ThreadInv, StopInv, StopOK, TableInv, Tabling
  <2>2. CASE Signals(c, n)
    BY <2>2 DEF Signals, Kept, IInv, TypeOK, ThreadInv, StopInv, StopOK, TableInv, Tabling
  <2> QED
    BY <1>11, <2>1, <2>2, StopNextCases
<1>12. ASSUME NEW c \in Clients, StopWaited(c) PROVE StopInv'
  BY <1>12, WaitedKeepsStop
<1>13. ASSUME NEW c \in Clients, TermTimeout(c) PROVE StopInv'
  BY <1>13 DEF TermTimeout, IInv, TypeOK, ThreadInv, StopInv, StopOK, TableInv, Tabling
<1>14. ASSUME NEW c \in Clients, KillTimeout(c) PROVE StopInv'
  BY <1>14 DEF KillTimeout, GiveUp, IInv, TypeOK, ThreadInv, StopInv, StopOK, TableInv,
     Tabling
<1>15. ASSUME NEW c \in Clients, StopMark(c) PROVE StopInv'
  BY <1>15, StopMarkEffect DEF StopMarks, NodesKept, IInv, TypeOK, ThreadInv, StopInv,
     StopOK
<1>16. ASSUME NEW c \in Clients, DeleteForget(c) PROVE StopInv'
  BY <1>16 DEF DeleteForget, IInv, TypeOK, ThreadInv, StopInv, StopOK, TableInv, Tabling
<1>17. ASSUME NEW c \in Clients, PutLookup(c) PROVE StopInv'
  BY <1>17 DEF PutLookup, IInv, TypeOK, ThreadInv, StopInv, StopOK, TableInv, Tabling
<1>18. ASSUME NEW c \in Clients, PutWrite(c) PROVE StopInv'
  BY <1>18 DEF PutWrite, IInv, TypeOK, ThreadInv, StopInv, StopOK, TableInv, Tabling
<1>19. ASSUME NEW c \in Clients, BuildLookup(c) PROVE StopInv'
  BY <1>19 DEF BuildLookup, IInv, TypeOK, ThreadInv, StopInv, StopOK, TableInv, Tabling
<1>20. ASSUME NEW c \in Clients, BuildTake(c) PROVE StopInv'
  BY <1>20 DEF BuildTake, IInv, TypeOK, ThreadInv, StopInv, StopOK, TableInv, Tabling
<1>21. ASSUME NEW c \in Clients, BuildAnnounce(c) PROVE StopInv'
  BY <1>21 DEF BuildAnnounce, IInv, TypeOK, ThreadInv, StopInv, StopOK, TableInv, Tabling
<1>22. ASSUME NEW c \in Clients, BuildSettle(c) PROVE StopInv'
  BY <1>22 DEF BuildSettle, IInv, TypeOK, ThreadInv, StopInv, StopOK, TableInv, Tabling
<1>23. ASSUME NEW c \in Clients, BuildUnlock(c) PROVE StopInv'
  BY <1>23 DEF BuildUnlock, IInv, TypeOK, ThreadInv, StopInv, StopOK, TableInv, Tabling
<1>24. ASSUME NEW c \in Clients, Tail(c) PROVE StopInv'
  <2>1. CASE Ends(c)
    BY <2>1 DEF Ends, TailKept, Kept, IInv, TypeOK, ThreadInv, StopInv, StopOK, TableInv,
       Tabling
  <2>2. CASE Moves(c)
    BY <2>2 DEF Moves, TailKept, Kept, IInv, TypeOK, ThreadInv, StopInv, StopOK, TableInv,
       Tabling
  <2> QED
    BY <1>24, <2>1, <2>2, TailCases
<1>25. ASSUME NEW p \in Procs, Exit(p) PROVE StopInv'
  BY <1>25 DEF Exit, IInv, TypeOK, ThreadInv, StopInv, StopOK, TableInv, Tabling
<1>26. ASSUME NEW p \in Procs, Dies(p) PROVE StopInv'
  BY <1>26 DEF Dies, IInv, TypeOK, ThreadInv, StopInv, StopOK, TableInv, Tabling
<1>27. ASSUME NEW p \in Procs, CaptureStart(p) PROVE StopInv'
  BY <1>27 DEF CaptureStart, IInv, TypeOK, ThreadInv, StopInv, StopOK, TableInv, Tabling
<1>28. ASSUME NEW p \in Procs, CaptureBreak(p) PROVE StopInv'
  BY <1>28 DEF CaptureBreak, IInv, TypeOK, ThreadInv, StopInv, StopOK, TableInv, Tabling
<1>29. ASSUME NEW p \in Procs, CaptureMark(p) PROVE StopInv'
  BY <1>29, CaptureMarkEffect DEF CaptureMarks, NodesKept, IInv, TypeOK, ThreadInv,
     StopInv, StopOK, TableInv, Tabling
<1>30. ASSUME NEW p \in Procs, CaptureScan(p) PROVE StopInv'
  BY <1>30 DEF CaptureScan, IInv, TypeOK, ThreadInv, StopInv, StopOK, TableInv, Tabling
<1>31. ASSUME NEW p \in Procs, CaptureSettle(p) PROVE StopInv'
  BY <1>31 DEF CaptureSettle, IInv, TypeOK, ThreadInv, StopInv, StopOK, TableInv, Tabling
<1>32. CASE UNCHANGED vars
  BY <1>32 DEF vars, IInv, TypeOK, ThreadInv, StopInv, StopOK, TableInv, Tabling
<1> QED
  BY <1>1, <1>2, <1>3, <1>4, <1>5, <1>6, <1>7, <1>8, <1>9, <1>10, <1>11, <1>12, <1>13,
     <1>14, <1>15, <1>16, <1>17, <1>18, <1>19, <1>20, <1>21, <1>22, <1>23, <1>24, <1>25,
     <1>26, <1>27, <1>28, <1>29, <1>30, <1>31, <1>32 DEF Next, Handler, Capture, Tail

(* Workspaces that are not there yet. *)
LEMMA FreshStep == ASSUME IInv, [Next]_vars PROVE FreshInv'
<1> USE NoneAssumption DEF wsVars, stateVars, lockVars, procVars, threadVars, Goto, Answer, Dead
<1>1. ASSUME NEW c \in Clients, NEW o \in {"run", "stop", "delete", "build", "put"}, Receive(c, o)
      PROVE  FreshInv'
  BY <1>1 DEF Receive, IInv, TypeOK, ThreadInv, FreshInv
<1>2. ASSUME NEW c \in Clients, Refuse(c) PROVE FreshInv'
  BY <1>2 DEF Refuse, IInv, TypeOK, ThreadInv, FreshInv
<1>3. ASSUME NEW c \in Clients, Create(c) PROVE FreshInv'
  BY <1>3 DEF Create, IInv, TypeOK, ThreadInv, FreshInv
<1>4. ASSUME NEW c \in Clients, RunLookup(c) PROVE FreshInv'
  BY <1>4 DEF RunLookup, IInv, TypeOK, ThreadInv, FreshInv
<1>5. ASSUME NEW c \in Clients, NEW p \in Procs, RunSpawn(c, p) PROVE FreshInv'
  BY <1>5 DEF RunSpawn, Vacant, IInv, TypeOK, ThreadInv, FreshInv
<1>6. ASSUME NEW c \in Clients, RunRefused(c) PROVE FreshInv'
  BY <1>6 DEF RunRefused, IInv, TypeOK, ThreadInv, FreshInv
<1>7. ASSUME NEW c \in Clients, RunRecord(c) PROVE FreshInv'
  BY <1>7 DEF RunRecord, NodeRecord, IInv, TypeOK, ThreadInv, FreshInv
<1>8. ASSUME NEW c \in Clients, RunAnnounce(c) PROVE FreshInv'
  BY <1>8 DEF RunAnnounce, IInv, TypeOK, ThreadInv, FreshInv
<1>9. ASSUME NEW c \in Clients, RunRegister(c) PROVE FreshInv'
  BY <1>9 DEF RunRegister, IInv, TypeOK, ThreadInv, FreshInv
<1>10. ASSUME NEW c \in Clients, StopBegin(c) PROVE FreshInv'
  BY <1>10 DEF StopBegin, IInv, TypeOK, ThreadInv, FreshInv
<1>11. ASSUME NEW c \in Clients, NEW n \in Names, StopNext(c, n) PROVE FreshInv'
  <2>1. CASE Skips(c, n)
    BY <2>1 DEF Skips, Kept, IInv, TypeOK, ThreadInv, FreshInv
  <2>2. CASE Signals(c, n)
    BY <2>2 DEF Signals, Kept, IInv, TypeOK, ThreadInv, FreshInv
  <2> QED
    BY <1>11, <2>1, <2>2, StopNextCases
<1>12. ASSUME NEW c \in Clients, StopWaited(c) PROVE FreshInv'
  BY <1>12 DEF StopWaited, IInv, TypeOK, ThreadInv, FreshInv
<1>13. ASSUME NEW c \in Clients, TermTimeout(c) PROVE FreshInv'
  BY <1>13 DEF TermTimeout, IInv, TypeOK, ThreadInv, FreshInv
<1>14. ASSUME NEW c \in Clients, KillTimeout(c) PROVE FreshInv'
  BY <1>14 DEF KillTimeout, GiveUp, IInv, TypeOK, ThreadInv, FreshInv
<1>15. ASSUME NEW c \in Clients, StopMark(c) PROVE FreshInv'
  BY <1>15 DEF StopMark, IInv, TypeOK, ThreadInv, FreshInv
<1>16. ASSUME NEW c \in Clients, DeleteForget(c) PROVE FreshInv'
  BY <1>16 DEF DeleteForget, IInv, TypeOK, ThreadInv, FreshInv
<1>17. ASSUME NEW c \in Clients, PutLookup(c) PROVE FreshInv'
  BY <1>17 DEF PutLookup, IInv, TypeOK, ThreadInv, FreshInv
<1>18. ASSUME NEW c \in Clients, PutWrite(c) PROVE FreshInv'
  BY <1>18 DEF PutWrite, IInv, TypeOK, ThreadInv, FreshInv
<1>19. ASSUME NEW c \in Clients, BuildLookup(c) PROVE FreshInv'
  BY <1>19 DEF BuildLookup, IInv, TypeOK, ThreadInv, FreshInv
<1>20. ASSUME NEW c \in Clients, BuildTake(c) PROVE FreshInv'
  BY <1>20 DEF BuildTake, IInv, TypeOK, ThreadInv, FreshInv
<1>21. ASSUME NEW c \in Clients, BuildAnnounce(c) PROVE FreshInv'
  BY <1>21 DEF BuildAnnounce, IInv, TypeOK, ThreadInv, FreshInv
<1>22. ASSUME NEW c \in Clients, BuildSettle(c) PROVE FreshInv'
  BY <1>22 DEF BuildSettle, IInv, TypeOK, ThreadInv, FreshInv
<1>23. ASSUME NEW c \in Clients, BuildUnlock(c) PROVE FreshInv'
  BY <1>23 DEF BuildUnlock, IInv, TypeOK, ThreadInv, FreshInv
<1>24. ASSUME NEW c \in Clients, Tail(c) PROVE FreshInv'
  <2>1. CASE Ends(c)
    BY <2>1 DEF Ends, TailKept, Kept, IInv, TypeOK, ThreadInv, FreshInv
  <2>2. CASE Moves(c)
    BY <2>2 DEF Moves, TailKept, Kept, IInv, TypeOK, ThreadInv, FreshInv
  <2> QED
    BY <1>24, <2>1, <2>2, TailCases
<1>25. ASSUME NEW p \in Procs, Exit(p) PROVE FreshInv'
  BY <1>25 DEF Exit, IInv, TypeOK, ThreadInv, FreshInv
<1>26. ASSUME NEW p \in Procs, Dies(p) PROVE FreshInv'
  BY <1>26 DEF Dies, IInv, TypeOK, ThreadInv, FreshInv
<1>27. ASSUME NEW p \in Procs, CaptureStart(p) PROVE FreshInv'
  BY <1>27 DEF CaptureStart, IInv, TypeOK, ThreadInv, FreshInv
<1>28. ASSUME NEW p \in Procs, CaptureBreak(p) PROVE FreshInv'
  BY <1>28 DEF CaptureBreak, IInv, TypeOK, ThreadInv, FreshInv
<1>29. ASSUME NEW p \in Procs, CaptureMark(p) PROVE FreshInv'
  BY <1>29 DEF CaptureMark, Outcome, IInv, TypeOK, ThreadInv, FreshInv
<1>30. ASSUME NEW p \in Procs, CaptureScan(p) PROVE FreshInv'
  BY <1>30 DEF CaptureScan, IInv, TypeOK, ThreadInv, FreshInv
<1>31. ASSUME NEW p \in Procs, CaptureSettle(p) PROVE FreshInv'
  BY <1>31 DEF CaptureSettle, IInv, TypeOK, ThreadInv, FreshInv, ProcInv, ProcOK
<1>32. CASE UNCHANGED vars
  BY <1>32 DEF vars, IInv, TypeOK, ThreadInv, FreshInv
<1> QED
  BY <1>1, <1>2, <1>3, <1>4, <1>5, <1>6, <1>7, <1>8, <1>9, <1>10, <1>11, <1>12, <1>13,
     <1>14, <1>15, <1>16, <1>17, <1>18, <1>19, <1>20, <1>21, <1>22, <1>23, <1>24, <1>25,
     <1>26, <1>27, <1>28, <1>29, <1>30, <1>31, <1>32 DEF Next, Handler, Capture, Tail

(* The build lock. *)
LEMMA LockFrame ==
  ASSUME LockInv, build_lock' = build_lock,
         \A c \in Clients : Builds(c) => ws'[c] = ws[c] /\ Builds(c)'
  PROVE  LockInv'
BY DEF LockInv

LEMMA LockStep == ASSUME IInv, [Next]_vars PROVE LockInv'
<1> USE NoneAssumption DEF Builds, wsVars, stateVars, lockVars, procVars, threadVars, Goto, Answer, Dead
<1>1. ASSUME NEW c \in Clients, NEW o \in {"run", "stop", "delete", "build", "put"}, Receive(c, o)
      PROVE  LockInv'
  BY <1>1, LockFrame DEF Receive, IInv, TypeOK
<1>2. ASSUME NEW c \in Clients, Refuse(c) PROVE LockInv'
  BY <1>2 DEF Refuse, IInv, TypeOK, LockInv
<1>3. ASSUME NEW c \in Clients, Create(c) PROVE LockInv'
  BY <1>3 DEF Create, IInv, TypeOK, LockInv
<1>4. ASSUME NEW c \in Clients, RunLookup(c) PROVE LockInv'
  BY <1>4 DEF RunLookup, IInv, TypeOK, LockInv
<1>5. ASSUME NEW c \in Clients, NEW p \in Procs, RunSpawn(c, p) PROVE LockInv'
  BY <1>5 DEF RunSpawn, Vacant, IInv, TypeOK, LockInv
<1>6. ASSUME NEW c \in Clients, RunRefused(c) PROVE LockInv'
  BY <1>6 DEF RunRefused, IInv, TypeOK, LockInv
<1>7. ASSUME NEW c \in Clients, RunRecord(c) PROVE LockInv'
  BY <1>7 DEF RunRecord, NodeRecord, IInv, TypeOK, LockInv
<1>8. ASSUME NEW c \in Clients, RunAnnounce(c) PROVE LockInv'
  BY <1>8 DEF RunAnnounce, IInv, TypeOK, LockInv
<1>9. ASSUME NEW c \in Clients, RunRegister(c) PROVE LockInv'
  BY <1>9 DEF RunRegister, IInv, TypeOK, LockInv
<1>10. ASSUME NEW c \in Clients, StopBegin(c) PROVE LockInv'
  BY <1>10 DEF StopBegin, IInv, TypeOK, LockInv
<1>11. ASSUME NEW c \in Clients, NEW n \in Names, StopNext(c, n) PROVE LockInv'
  <2>1. CASE Skips(c, n)
    BY <2>1 DEF Skips, Kept, IInv, TypeOK, LockInv
  <2>2. CASE Signals(c, n)
    BY <2>2 DEF Signals, Kept, IInv, TypeOK, LockInv
  <2> QED
    BY <1>11, <2>1, <2>2, StopNextCases
<1>12. ASSUME NEW c \in Clients, StopWaited(c) PROVE LockInv'
  BY <1>12 DEF StopWaited, IInv, TypeOK, LockInv
<1>13. ASSUME NEW c \in Clients, TermTimeout(c) PROVE LockInv'
  BY <1>13 DEF TermTimeout, IInv, TypeOK, LockInv
<1>14. ASSUME NEW c \in Clients, KillTimeout(c) PROVE LockInv'
  BY <1>14 DEF KillTimeout, GiveUp, IInv, TypeOK, LockInv
<1>15. ASSUME NEW c \in Clients, StopMark(c) PROVE LockInv'
  BY <1>15 DEF StopMark, IInv, TypeOK, LockInv
<1>16. ASSUME NEW c \in Clients, DeleteForget(c) PROVE LockInv'
  BY <1>16 DEF DeleteForget, IInv, TypeOK, LockInv
<1>17. ASSUME NEW c \in Clients, PutLookup(c) PROVE LockInv'
  BY <1>17 DEF PutLookup, IInv, TypeOK, LockInv
<1>18. ASSUME NEW c \in Clients, PutWrite(c) PROVE LockInv'
  BY <1>18 DEF PutWrite, IInv, TypeOK, LockInv
<1>19. ASSUME NEW c \in Clients, BuildLookup(c) PROVE LockInv'
  BY <1>19 DEF BuildLookup, IInv, TypeOK, LockInv
<1>20. ASSUME NEW c \in Clients, BuildTake(c) PROVE LockInv'
  BY <1>20 DEF BuildTake, IInv, TypeOK, LockInv
<1>21. ASSUME NEW c \in Clients, BuildAnnounce(c) PROVE LockInv'
  BY <1>21 DEF BuildAnnounce, IInv, TypeOK, LockInv
<1>22. ASSUME NEW c \in Clients, BuildSettle(c) PROVE LockInv'
  BY <1>22 DEF BuildSettle, IInv, TypeOK, LockInv
<1>23. ASSUME NEW c \in Clients, BuildUnlock(c) PROVE LockInv'
  BY <1>23 DEF BuildUnlock, IInv, TypeOK, LockInv
<1>24. ASSUME NEW c \in Clients, Tail(c) PROVE LockInv'
  <2>1. CASE Ends(c)
    BY <2>1 DEF Ends, TailKept, Kept, IInv, TypeOK, LockInv
  <2>2. CASE Moves(c)
    BY <2>2, LockFrame DEF Moves, TailKept, Kept, IInv, TypeOK
  <2> QED
    BY <1>24, <2>1, <2>2, TailCases
<1>25. ASSUME NEW p \in Procs, Exit(p) PROVE LockInv'
  BY <1>25 DEF Exit, IInv, TypeOK, LockInv
<1>26. ASSUME NEW p \in Procs, Dies(p) PROVE LockInv'
  BY <1>26 DEF Dies, IInv, TypeOK, LockInv
<1>27. ASSUME NEW p \in Procs, CaptureStart(p) PROVE LockInv'
  BY <1>27 DEF CaptureStart, IInv, TypeOK, LockInv
<1>28. ASSUME NEW p \in Procs, CaptureBreak(p) PROVE LockInv'
  BY <1>28 DEF CaptureBreak, IInv, TypeOK, LockInv
<1>29. ASSUME NEW p \in Procs, CaptureMark(p) PROVE LockInv'
  BY <1>29 DEF CaptureMark, Outcome, IInv, TypeOK, LockInv
<1>30. ASSUME NEW p \in Procs, CaptureScan(p) PROVE LockInv'
  BY <1>30 DEF CaptureScan, IInv, TypeOK, LockInv
<1>31. ASSUME NEW p \in Procs, CaptureSettle(p) PROVE LockInv'
  BY <1>31 DEF CaptureSettle, IInv, TypeOK, LockInv
<1>32. CASE UNCHANGED vars
  BY <1>32 DEF vars, IInv, TypeOK, LockInv
<1> QED
  BY <1>1, <1>2, <1>3, <1>4, <1>5, <1>6, <1>7, <1>8, <1>9, <1>10, <1>11, <1>12, <1>13,
     <1>14, <1>15, <1>16, <1>17, <1>18, <1>19, <1>20, <1>21, <1>22, <1>23, <1>24, <1>25,
     <1>26, <1>27, <1>28, <1>29, <1>30, <1>31, <1>32 DEF Next, Handler, Capture, Tail

-----------------------------------------------------------------------------
(* The theorems.                                                           *)

(* The invariant holds in the initial state. *)
LEMMA RefInit == Init => IInv
<1> SUFFICES ASSUME Init PROVE IInv
  OBVIOUS
<1> USE NoneAssumption
<1>1. TypeOK
  BY DEF Init, TypeOK, Labels
<1>2. ThreadInv /\ RunInv /\ StopInv
  BY DEF Init, ThreadInv, RunInv, StopInv, StopOK, Tabling
<1>3. ProcInv /\ TableInv
  BY DEF Init, ProcInv, ProcOK, TableInv
<1>4. FreshInv /\ LockInv
  BY DEF Init, FreshInv, LockInv
<1> QED
  BY <1>1, <1>2, <1>3, <1>4 DEF IInv

(* Every step keeps it. *)
LEMMA RefStep == IInv /\ [Next]_vars => IInv'
<1> SUFFICES ASSUME IInv, [Next]_vars PROVE IInv'
  OBVIOUS
<1> QED
  BY TypeStep, ThreadStep, RunStep, ProcStep, TableStep, StopStep, FreshStep, LockStep DEF IInv

(* Where each process is recorded (process.py:52-107), at every moment. *)
THEOREM RefInvariant == Spec => []IInv
  BY RefInit, RefStep, PTL DEF Spec

(* Every variable of the control plane keeps to its domain.                *)
THEOREM RefTypes == Spec => []TypeOK
<1>1. IInv => TypeOK
  BY DEF IInv
<1> QED
  BY <1>1, RefInvariant, PTL

(* No live process is hidden from /stop and DELETE, for any number of      *)
(* threads, workspaces and nodes (process.py:62-71).                       *)
THEOREM LiveStaysTracked == Spec => []LiveIsTracked
<1>1. ASSUME IInv, NEW p \in Procs, proc[p] \in {"alive", "killed"}
      PROVE  \/ processes[slot[p][1]][slot[p][2]] = p
             \/ \E c \in Clients : At(c, slot[p][1], {"record", "announce", "register"}) /\ mine[c] = p
  <2>1. CASE capture[p] # "none"
    BY <1>1, <2>1 DEF IInv, ProcInv, ProcOK, Dead
  <2>2. CASE capture[p] = "none"
    <3>1. PICK c \in Clients : pc[c] \in Tabling /\ mine[c] = p
      BY <1>1, <2>2 DEF IInv, ProcInv, ProcOK
    <3>2. slot[p] = <<ws[c], name[c]>>
      BY <1>1, <3>1 DEF IInv, RunInv
    <3> QED
      BY <3>1, <3>2 DEF At, Tabling
  <2> QED
    BY <2>1, <2>2
<1>2. IInv => LiveIsTracked
  BY <1>1 DEF LiveIsTracked
<1> QED
  BY <1>2, RefInvariant, PTL

(* When stop() returns or hands over to a DELETE, the processes that were  *)
(* registered when it began have ended (process.py:93-107).                *)
THEOREM StopsAreThorough == Spec => []StopIsThorough
<1>1. IInv => StopIsThorough
  BY DEF IInv, StopInv, StopOK, StopIsThorough
<1> QED
  BY <1>1, RefInvariant, PTL

(* The flag that locks out a second build always has a builder that will   *)
(* clear it (process.py:32-47).                                            *)
THEOREM LocksHaveBuilders == Spec => []LockHasBuilder
<1>1. IInv => LockHasBuilder
  BY DEF IInv, LockInv, LockHasBuilder, Builds, At
<1> QED
  BY <1>1, RefInvariant, PTL

-----------------------------------------------------------------------------
(* Who owns a record that says "running".                                  *)

NoEarlyRecord ==
  \A c \in Clients : pc[c] = "record" =>
    \A i \in Idents, n \in Names : nodes[i][n] # None => nodes[i][n].pid # mine[c]

Owned(p) ==
  \/ ~Dead(p) \/ capture[p] \in {"start", "read", "broken"}
  \/ \E c \in Clients : pc[c] \in {"announce", "register"} /\ mine[c] = p

OwnInv ==
  /\ NoEarlyRecord
  /\ \A i \in items, n \in Names :
       nodes[i][n] # None /\ nodes[i][n].status = "running" => Owned(nodes[i][n].pid)

(* A record names a process that was started for it. *)
LEMMA RecordFacts ==
  ASSUME IInv, NEW i \in Idents, NEW n \in Names, nodes[i][n] # None
  PROVE  /\ nodes[i][n].pid \in Procs /\ slot[nodes[i][n].pid] = <<i, n>> /\ i \in made
         /\ proc[nodes[i][n].pid] # "none"
<1>1. nodes[i][n].pid \in Procs
  BY DEF IInv, TypeOK, NodeRecord
<1>2. slot[nodes[i][n].pid] = <<i, n>> /\ i \in made
  BY DEF IInv, TableInv
<1>3. <<i, n>> # None
  BY NoneAssumption
<1> QED
  BY <1>1, <1>2, <1>3 DEF IInv, ProcInv, ProcOK

(* A mark leaves no record running but those it does not touch. *)
LEMMA MarkStops ==
  ASSUME TypeOK, NEW i \in Idents, NEW n \in Names, NEW s \in {"stopped", "error"},
         nodes[i][n] # None, Mark(i, n, s),
         NEW j \in Idents, NEW m \in Names,
         nodes'[j][m] # None, nodes'[j][m].status = "running"
  PROVE  (j # i \/ m # n) /\ nodes'[j][m] = nodes[j][m]
<1>1. nodes \in [Idents -> [Names -> NodeRecord \union {None}]] /\ nodes[i][n] \in NodeRecord
  BY DEF TypeOK
<1> DEFINE r == [nodes[i][n] EXCEPT !.status = s]
<1>2. nodes' = [nodes EXCEPT ![i] = [@ EXCEPT ![n] = r]]
  BY DEF Mark
<1>3. r.status = s
  BY <1>1 DEF NodeRecord
<1> HIDE DEF r
<1>4. nodes'[j][m] = IF j = i /\ m = n THEN r ELSE nodes[j][m]
  BY <1>1, <1>2
<1> QED
  BY <1>3, <1>4

(* The steps that leave the records alone. *)
LEMMA OwnFrame ==
  ASSUME IInv, OwnInv, nodes' = nodes, items' \subseteq items \union (Idents \ made),
         \A c \in Clients : \/ pc'[c] = "record" => pc[c] = "record" /\ mine'[c] = mine[c]
                            \/ proc[mine'[c]] = "none",
         \A p \in Procs : Owned(p) => Owned(p)' \/ slot[p][1] \notin items
                                       \/ \E c \in Clients : pc[c] = "record" /\ mine[c] = p
  PROVE  OwnInv'
<1>1. NoEarlyRecord'
  BY RecordFacts DEF OwnInv, NoEarlyRecord
<1>2. ASSUME NEW i \in items', NEW n \in Names, nodes[i][n] # None, nodes[i][n].status = "running"
      PROVE  Owned(nodes[i][n].pid)'
  <2>1. i \in Idents /\ (i \in items \/ i \notin made)
    BY <1>2 DEF IInv, TypeOK
  <2> PICK p \in Procs : p = nodes[i][n].pid
    BY <1>2, <2>1, RecordFacts
  <2>2. slot[p] = <<i, n>> /\ i \in items
    BY <1>2, <2>1, RecordFacts
  <2>3. Owned(p) /\ ~\E c \in Clients : pc[c] = "record" /\ mine[c] = p
    BY <1>2, <2>1, <2>2 DEF OwnInv, NoEarlyRecord
  <2>4. Owned(p)'
    BY <2>2, <2>3
  <2> QED
    BY <2>4
<1> QED
  BY <1>1, <1>2 DEF OwnInv

(* Every step keeps the owners. *)
LEMMA OwnStep == ASSUME IInv, OwnInv, [Next]_vars PROVE OwnInv'
<1> USE NoneAssumption DEF wsVars, stateVars, lockVars, procVars, threadVars, Goto, Answer, Dead, Owned
<1>1. ASSUME NEW c \in Clients, NEW o \in {"run", "stop", "delete", "build", "put"}, Receive(c, o)
      PROVE  OwnInv'
  BY <1>1, OwnFrame DEF Receive, IInv, TypeOK, ThreadInv, Tabling
<1>2. ASSUME NEW c \in Clients, Refuse(c) PROVE OwnInv'
  BY <1>2, OwnFrame DEF Refuse, IInv, TypeOK, ThreadInv, Tabling
<1>3. ASSUME NEW c \in Clients, Create(c) PROVE OwnInv'
  BY <1>3, OwnFrame DEF Create, IInv, TypeOK, ThreadInv, Tabling
<1>4. ASSUME NEW c \in Clients, RunLookup(c) PROVE OwnInv'
  BY <1>4, OwnFrame DEF RunLookup, IInv, TypeOK, ThreadInv, Tabling
<1>5. ASSUME NEW c \in Clients, NEW p \in Procs, RunSpawn(c, p) PROVE OwnInv'
  BY <1>5, OwnFrame DEF RunSpawn, Vacant, IInv, TypeOK, ThreadInv, Tabling, RunInv,
     ProcInv, ProcOK
<1>6. ASSUME NEW c \in Clients, RunRefused(c) PROVE OwnInv'
  BY <1>6, OwnFrame DEF RunRefused, IInv, TypeOK, ThreadInv, Tabling
<1>7. ASSUME NEW c \in Clients, RunAnnounce(c) PROVE OwnInv'
  BY <1>7, OwnFrame DEF RunAnnounce, IInv, TypeOK, ThreadInv, Tabling
<1>8. ASSUME NEW c \in Clients, RunRegister(c) PROVE OwnInv'
  BY <1>8, OwnFrame DEF RunRegister, IInv, TypeOK, ThreadInv, Tabling, RunInv, ProcInv, ProcOK
<1>9. ASSUME NEW c \in Clients, StopBegin(c) PROVE OwnInv'
  BY <1>9, OwnFrame DEF StopBegin, IInv, TypeOK, ThreadInv, Tabling
<1>10. ASSUME NEW c \in Clients, NEW n \in Names, StopNext(c, n) PROVE OwnInv'
  <2>1. CASE Skips(c, n)
    BY <2>1, OwnFrame DEF Skips, Kept, IInv, TypeOK, ThreadInv, Tabling
  <2>2. CASE Signals(c, n)
    BY <2>2, OwnFrame DEF Signals, Kept, IInv, TypeOK, ThreadInv, Tabling
  <2> QED
    BY <1>10, <2>1, <2>2, StopNextCases
<1>11. ASSUME NEW c \in Clients, StopWaited(c) PROVE OwnInv'
  BY <1>11, OwnFrame DEF StopWaited, IInv, TypeOK, ThreadInv, Tabling
<1>12. ASSUME NEW c \in Clients, TermTimeout(c) PROVE OwnInv'
  BY <1>12, OwnFrame DEF TermTimeout, IInv, TypeOK, ThreadInv, Tabling, RunInv, ProcInv, ProcOK
<1>13. ASSUME NEW c \in Clients, KillTimeout(c) PROVE OwnInv'
  BY <1>13, OwnFrame DEF KillTimeout, GiveUp, IInv, TypeOK, ThreadInv, Tabling
<1>14. ASSUME NEW c \in Clients, DeleteForget(c) PROVE OwnInv'
  BY <1>14, OwnFrame DEF DeleteForget, IInv, TypeOK, ThreadInv, Tabling
<1>15. ASSUME NEW c \in Clients, PutLookup(c) PROVE OwnInv'
  BY <1>15, OwnFrame DEF PutLookup, IInv, TypeOK, ThreadInv, Tabling
<1>16. ASSUME NEW c \in Clients, PutWrite(c) PROVE OwnInv'
  BY <1>16, OwnFrame DEF PutWrite, IInv, TypeOK, ThreadInv, Tabling
<1>17. ASSUME NEW c \in Clients, BuildLookup(c) PROVE OwnInv'
  BY <1>17, OwnFrame DEF BuildLookup, IInv, TypeOK, ThreadInv, Tabling
<1>18. ASSUME NEW c \in Clients, BuildTake(c) PROVE OwnInv'
  BY <1>18, OwnFrame DEF BuildTake, IInv, TypeOK, ThreadInv, Tabling
<1>19. ASSUME NEW c \in Clients, BuildAnnounce(c) PROVE OwnInv'
  BY <1>19, OwnFrame DEF BuildAnnounce, IInv, TypeOK, ThreadInv, Tabling
<1>20. ASSUME NEW c \in Clients, BuildSettle(c) PROVE OwnInv'
  BY <1>20, OwnFrame DEF BuildSettle, IInv, TypeOK, ThreadInv, Tabling
<1>21. ASSUME NEW c \in Clients, BuildUnlock(c) PROVE OwnInv'
  BY <1>21, OwnFrame DEF BuildUnlock, IInv, TypeOK, ThreadInv, Tabling
<1>22. ASSUME NEW c \in Clients, Tail(c) PROVE OwnInv'
  <2>1. CASE Ends(c)
    BY <2>1, OwnFrame DEF Ends, TailKept, Kept, IInv, TypeOK, ThreadInv, Tabling
  <2>2. CASE Moves(c)
    BY <2>2, OwnFrame DEF Moves, TailKept, Kept, IInv, TypeOK, ThreadInv, Tabling
  <2> QED
    BY <1>22, <2>1, <2>2, TailCases
<1>23. ASSUME NEW p \in Procs, Exit(p) PROVE OwnInv'
  BY <1>23, OwnFrame DEF Exit, IInv, TypeOK, ThreadInv, Tabling, RunInv, ProcInv, ProcOK
<1>24. ASSUME NEW p \in Procs, Dies(p) PROVE OwnInv'
  BY <1>24, OwnFrame DEF Dies, IInv, TypeOK, ThreadInv, Tabling, RunInv, ProcInv, ProcOK
<1>25. ASSUME NEW p \in Procs, CaptureStart(p) PROVE OwnInv'
  BY <1>25, OwnFrame DEF CaptureStart, IInv, TypeOK, ThreadInv, Tabling, RunInv, ProcInv, ProcOK
<1>26. ASSUME NEW p \in Procs, CaptureBreak(p) PROVE OwnInv'
  BY <1>26, OwnFrame DEF CaptureBreak, IInv, TypeOK, ThreadInv, Tabling
<1>27. ASSUME NEW p \in Procs, CaptureScan(p) PROVE OwnInv'
  BY <1>27, OwnFrame DEF CaptureScan, IInv, TypeOK, ThreadInv, Tabling
<1>28. ASSUME NEW p \in Procs, CaptureSettle(p) PROVE OwnInv'
  BY <1>28, OwnFrame DEF CaptureSettle, IInv, TypeOK, ThreadInv, Tabling
<1>29. ASSUME NEW c \in Clients, RunRecord(c) PROVE OwnInv'
  <2>1. /\ ws[c] \in Idents /\ name[c] \in Names /\ mine[c] \in Procs
        /\ \A d \in Clients : pc[d] \in Tabling => d = c
    BY <1>29 DEF RunRecord, IInv, TypeOK, ThreadInv, RunInv, Tabling
  <2>2. /\ UNCHANGED <<items, proc, capture, mine>> /\ pc' = [pc EXCEPT ![c] = "announce"]
        /\ nodes' = [nodes EXCEPT ![ws[c]][name[c]] = [status |-> "running", pid |-> mine[c]]]
    BY <1>29 DEF RunRecord
  <2>3. NoEarlyRecord'
    BY <2>1, <2>2 DEF NoEarlyRecord, IInv, TypeOK, Tabling
  <2>4. ASSUME NEW i \in items, NEW n \in Names, nodes'[i][n] # None, nodes'[i][n].status = "running"
        PROVE  Owned(nodes[i][n].pid)'
    <3>1. i \in Idents
      BY DEF IInv, TypeOK
    <3>2. CASE i = ws[c] /\ n = name[c]
      BY <2>1, <2>2, <3>1, <3>2 DEF IInv, TypeOK
    <3>3. CASE i # ws[c] \/ n # name[c]
      <4>1. nodes'[i][n] = nodes[i][n]
        BY <2>2, <3>1, <3>3 DEF IInv, TypeOK
      <4>2. Owned(nodes[i][n].pid)
        BY <2>4, <4>1 DEF OwnInv
      <4> QED
        BY <2>1, <2>2, <4>1, <4>2 DEF IInv, TypeOK, Tabling
    <3> QED
      BY <3>2, <3>3
  <2> QED
    BY <2>2, <2>3, <2>4 DEF OwnInv
<1>30. ASSUME NEW c \in Clients, StopMark(c) PROVE OwnInv'
  <2>1. /\ ws[c] \in Idents /\ name[c] \in Names /\ nodes[ws[c]][name[c]] # None
        /\ Mark(ws[c], name[c], "stopped")
    BY <1>30 DEF StopMark, IInv, TypeOK, ThreadInv, StopInv, StopOK, ProcInv, ProcOK
  <2>2. /\ UNCHANGED <<items, proc, capture>> /\ NodesKept
        /\ \A d \in Clients : pc[d] \in Tabling => pc'[d] = pc[d] /\ mine'[d] = mine[d]
        /\ \A d \in Clients : pc'[d] \in Tabling => pc'[d] = pc[d] /\ mine'[d] = mine[d]
    BY <1>30, StopMarkEffect DEF StopMarks, IInv, TypeOK, Tabling
  <2>3. NoEarlyRecord'
    BY <2>2 DEF NoEarlyRecord, OwnInv, NodesKept, Tabling
  <2>4. ASSUME NEW i \in items, NEW n \in Names, nodes'[i][n] # None, nodes'[i][n].status = "running"
        PROVE  Owned(nodes[i][n].pid)'
    <3>1. i \in Idents
      BY DEF IInv, TypeOK
    <3>2. nodes'[i][n] = nodes[i][n]
      BY <2>1, <2>4, <3>1, MarkStops DEF IInv
    <3>3. Owned(nodes[i][n].pid)
      BY <2>4, <3>2 DEF OwnInv
    <3> QED
      BY <2>2, <3>2, <3>3 DEF Tabling
  <2> QED
    BY <2>2, <2>3, <2>4 DEF OwnInv
<1>31. ASSUME NEW p \in Procs, CaptureMark(p) PROVE OwnInv'
  <2>1. /\ slot[p][1] \in Idents /\ slot[p][2] \in Names /\ nodes[slot[p][1]][slot[p][2]] # None
        /\ slot[p] = <<slot[p][1], slot[p][2]>>
        /\ Mark(slot[p][1], slot[p][2], Outcome(p)) /\ Outcome(p) \in {"stopped", "error"}
    BY <1>31 DEF CaptureMark, Outcome, IInv, TypeOK, ProcInv, ProcOK
  <2>2. /\ UNCHANGED <<items, proc, pc, mine>> /\ NodesKept
        /\ \A q \in Procs \ {p} : capture'[q] = capture[q]
    BY <1>31, CaptureMarkEffect DEF CaptureMarks, IInv, TypeOK
  <2>3. NoEarlyRecord'
    BY <2>2 DEF NoEarlyRecord, OwnInv, NodesKept
  <2>4. ASSUME NEW i \in items, NEW n \in Names, nodes'[i][n] # None, nodes'[i][n].status = "running"
        PROVE  Owned(nodes[i][n].pid)'
    <3>1. i \in Idents
      BY DEF IInv, TypeOK
    <3>2. nodes'[i][n] = nodes[i][n] /\ (i # slot[p][1] \/ n # slot[p][2])
      BY <2>1, <2>4, <3>1, MarkStops DEF IInv
    <3>3. Owned(nodes[i][n].pid) /\ nodes[i][n].pid \in Procs \ {p}
      BY <2>1, <2>4, <3>1, <3>2, RecordFacts DEF OwnInv
    <3> QED
      BY <2>2, <3>2, <3>3
  <2> QED
    BY <2>2, <2>3, <2>4 DEF OwnInv
<1>32. CASE UNCHANGED vars
  BY <1>32, OwnFrame DEF vars, IInv, TypeOK
<1> QED
  BY <1>1, <1>2, <1>3, <1>4, <1>5, <1>6, <1>7, <1>8, <1>9, <1>10, <1>11, <1>12, <1>13,
     <1>14, <1>15, <1>16, <1>17, <1>18, <1>19, <1>20, <1>21, <1>22, <1>23, <1>24, <1>25,
     <1>26, <1>27, <1>28, <1>29, <1>30, <1>31, <1>32 DEF Next, Handler, Capture, Tail

(* A record that says "running" has a process behind it, or somebody who   *)
(* is about to correct it (process.py:78-86).                              *)
THEOREM RunningStaysOwned == Spec => []RunningIsOwned
<1>1. Init => OwnInv
  BY DEF Init, OwnInv, NoEarlyRecord
<1>2. IInv /\ OwnInv /\ [Next]_vars => OwnInv'
  BY OwnStep
<1>3. IInv /\ OwnInv => RunningIsOwned
  <2> SUFFICES ASSUME IInv, OwnInv, NEW i \in items, NEW n \in Names,
                      nodes[i][n] # None, nodes[i][n].status = "running"
               PROVE  \/ ~Dead(nodes[i][n].pid) \/ capture[nodes[i][n].pid] \in {"start", "read", "broken"}
                      \/ \E c \in Clients : At(c, i, {"announce", "register"}) /\ mine[c] = nodes[i][n].pid
    BY DEF RunningIsOwned
  <2>1. Owned(nodes[i][n].pid) /\ slot[nodes[i][n].pid] = <<i, n>>
    BY RecordFacts DEF OwnInv, IInv, TypeOK
  <2>2. \A c \in Clients : pc[c] \in {"announce", "register"} => slot[mine[c]] = <<ws[c], name[c]>>
    BY DEF IInv, RunInv, Tabling
  <2> QED
    BY <2>1, <2>2 DEF Owned, At
<1> QED
  BY <1>1, <1>2, <1>3, RefInvariant, PTL DEF Spec

-----------------------------------------------------------------------------
(* Who will see to a workspace that says "running".                        *)

Seers == {"announce", "register", "mark", "stopping", "settle"}

(* A thread that waits for a process relies on its capture thread. *)
Seen(i) ==
  \/ Running(i) # {}
  \/ \E p \in Procs : slot[p] # None /\ slot[p][1] = i /\ capture[p] # "gone"
  \/ \E c \in Clients : ws[c] = i /\ pc[c] \in Seers

(* The steps that leave the records alone, and take no watcher away. *)
LEMMA SeenFrame ==
  ASSUME IInv, StatusHasReason, nodes' = nodes, items' \subseteq items \union (Idents \ made),
         \A i \in items' : status'[i] = "running" => status[i] = "running" \/ Seen(i)',
         \A p \in Procs : slot[p] # None /\ capture[p] # "gone" =>
           \/ slot'[p] = slot[p] /\ capture'[p] # "gone"
           \/ slot[p][1] \notin items \/ Running(slot[p][1]) # {} \/ status'[slot[p][1]] # "running",
         \A c \in Clients, i \in items : pc[c] \in Seers /\ ws[c] = i =>
           \/ pc'[c] \in Seers /\ ws'[c] = i
           \/ Seen(i)' \/ Running(i) # {} \/ status'[i] # "running"
  PROVE  StatusHasReason'
<1>1. ASSUME NEW i \in items', status'[i] = "running" PROVE Seen(i)'
  <2>1. CASE Running(i) # {}
    BY <2>1 DEF Seen, Running
  <2>2. CASE Running(i) = {} /\ status[i] = "running"
    <3>1. i \in items
      BY <1>1, <2>2 DEF IInv, TypeOK, FreshInv
    <3>2. Seen(i)
      BY <2>2, <3>1 DEF StatusHasReason, Seen, Seers, At
    <3>3. CASE \E p \in Procs : slot[p] # None /\ slot[p][1] = i /\ capture[p] # "gone"
      BY <1>1, <2>2, <3>1, <3>3 DEF Seen
    <3>4. CASE \E c \in Clients : ws[c] = i /\ pc[c] \in Seers
      <4> PICK c \in Clients : ws[c] = i /\ pc[c] \in Seers
        BY <3>4
      <4>1. CASE pc'[c] \in Seers /\ ws'[c] = ws[c]
        BY <4>1 DEF Seen
      <4>2. CASE ~(pc'[c] \in Seers /\ ws'[c] = ws[c])
        BY <1>1, <2>2, <3>1, <4>2
      <4> QED
        BY <4>1, <4>2
    <3> QED
      BY <2>2, <3>2, <3>3, <3>4 DEF Seen
  <2> QED
    BY <1>1, <2>1, <2>2
<1> QED
  BY <1>1 DEF StatusHasReason, Seen, Seers, At

(* Every step keeps the reasons. *)
LEMMA SeenStep == ASSUME IInv, StatusHasReason, [Next]_vars PROVE StatusHasReason'
<1> USE NoneAssumption DEF wsVars, stateVars, lockVars, procVars, threadVars, Goto, Answer, Dead, Seers
<1>1. ASSUME NEW c \in Clients, NEW o \in {"run", "stop", "delete", "build", "put"}, Receive(c, o)
      PROVE  StatusHasReason'
  BY <1>1, SeenFrame DEF Receive, IInv, TypeOK, ThreadInv, Tabling
<1>2. ASSUME NEW c \in Clients, Refuse(c) PROVE StatusHasReason'
  BY <1>2, SeenFrame DEF Refuse, IInv, TypeOK, ThreadInv, Tabling
<1>3. ASSUME NEW c \in Clients, Create(c) PROVE StatusHasReason'
  BY <1>3, SeenFrame DEF Create, IInv, TypeOK, ThreadInv, Tabling
<1>4. ASSUME NEW c \in Clients, RunLookup(c) PROVE StatusHasReason'
  BY <1>4, SeenFrame DEF RunLookup, IInv, TypeOK, ThreadInv, Tabling
<1>5. ASSUME NEW c \in Clients, NEW p \in Procs, RunSpawn(c, p) PROVE StatusHasReason'
  BY <1>5, SeenFrame DEF RunSpawn, Vacant, IInv, TypeOK, ThreadInv, Tabling, RunInv,
     ProcInv, ProcOK
<1>6. ASSUME NEW c \in Clients, RunRefused(c) PROVE StatusHasReason'
  BY <1>6, SeenFrame DEF RunRefused, IInv, TypeOK, ThreadInv, Tabling
<1>7. ASSUME NEW c \in Clients, RunAnnounce(c) PROVE StatusHasReason'
  BY <1>7, SeenFrame DEF RunAnnounce, IInv, TypeOK, ThreadInv, Tabling, Seen, RunInv
<1>8. ASSUME NEW c \in Clients, RunRegister(c) PROVE StatusHasReason'
  <2> PICK i \in Idents, n \in Names, q \in Procs : i = ws[c] /\ n = name[c] /\ q = mine[c]
    BY <1>8 DEF RunRegister, IInv, TypeOK, ThreadInv, Tabling, RunInv, ProcInv, ProcOK, Seen
  <2>1. slot[q] = <<i, n>> /\ <<i, n>> # None
    BY <1>8 DEF RunRegister, IInv, RunInv, Tabling
  <2>2. /\ UNCHANGED <<items, status, nodes, slot>>
        /\ capture' = [capture EXCEPT ![q] = "start"]
        /\ \A d \in Clients \ {c} : pc'[d] = pc[d] /\ ws'[d] = ws[d]
    BY <1>8 DEF RunRegister, IInv, TypeOK
  <2>3. capture'[q] = "start" /\ \A p \in Procs : capture[p] # "gone" => capture'[p] # "gone"
    BY <2>2 DEF IInv, TypeOK
  <2>4. Seen(i)'
    <3>0. slot' = slot
      BY <2>2
    <3>1. slot'[q] # None /\ slot'[q][1] = i /\ capture'[q] # "gone"
      BY <2>1, <2>3, <3>0
    <3> QED
      BY <3>1 DEF Seen
  <2> QED
    BY <2>2, <2>3, <2>4, SeenFrame
<1>9. ASSUME NEW c \in Clients, StopBegin(c) PROVE StatusHasReason'
  BY <1>9, SeenFrame DEF StopBegin, IInv, TypeOK, ThreadInv, Tabling
<1>10. ASSUME NEW c \in Clients, NEW n \in Names, StopNext(c, n) PROVE StatusHasReason'
  <2>1. CASE Skips(c, n)
    BY <2>1, SeenFrame DEF Skips, Kept, IInv, TypeOK, ThreadInv, Tabling
  <2>2. CASE Signals(c, n)
    <3> PICK i \in Idents : i = ws[c]
      BY <2>2 DEF Signals, IInv, TypeOK, ThreadInv
    <3> PICK p \in Procs : p = processes[i][n]
      BY <2>2 DEF Signals, IInv, TypeOK
    <3>0. processes[i][n] # None /\ n \in Names
      BY <1>10, <2>2 DEF Signals
    <3>1. slot[p] = <<i, n>> /\ <<i, n>> # None
      BY <3>0 DEF IInv, TableInv
    <3>2. capture[p] # "gone" \/ i \notin items
      BY <2>2, <3>1 DEF Signals, IInv, ProcInv, ProcOK
    <3>3. /\ UNCHANGED <<items, status, nodes, slot, capture, ws>>
          /\ \A d \in Clients \ {c} : pc'[d] = pc[d]
      BY <2>2 DEF Signals, Kept, IInv, TypeOK
    <3>4. i \in items => Seen(i)'
      <4>1. slot'[p] # None /\ slot'[p][1] = i /\ (i \in items => capture'[p] # "gone")
        BY <3>1, <3>2, <3>3
      <4> QED
        BY <4>1 DEF Seen
    <3> QED
      BY <3>3, <3>4, SeenFrame
  <2> QED
    BY <1>10, <2>1, <2>2, StopNextCases
<1>11. ASSUME NEW c \in Clients, StopWaited(c) PROVE StatusHasReason'
  BY <1>11, SeenFrame DEF StopWaited, IInv, TypeOK, ThreadInv, Tabling
<1>12. ASSUME NEW c \in Clients, TermTimeout(c) PROVE StatusHasReason'
  BY <1>12, SeenFrame DEF TermTimeout, IInv, TypeOK, ThreadInv, Tabling, RunInv, ProcInv, ProcOK
<1>13. ASSUME NEW c \in Clients, KillTimeout(c) PROVE StatusHasReason'
  BY <1>13, SeenFrame DEF KillTimeout, GiveUp, IInv, TypeOK, ThreadInv, Tabling
<1>14. ASSUME NEW c \in Clients, StopScan(c) PROVE StatusHasReason'
  BY <1>14, SeenFrame DEF StopScan, Return, IInv, TypeOK, ThreadInv, Tabling
<1>15. ASSUME NEW c \in Clients, StopSettle(c) PROVE StatusHasReason'
  BY <1>15, SeenFrame DEF StopSettle, Return, IInv, TypeOK, ThreadInv, Tabling
<1>16. ASSUME NEW c \in Clients, DeleteCheck(c) PROVE StatusHasReason'
  BY <1>16, SeenFrame DEF DeleteCheck, IInv, TypeOK, ThreadInv, Tabling
<1>17. ASSUME NEW c \in Clients, DeleteTree(c) PROVE StatusHasReason'
  BY <1>17, SeenFrame DEF DeleteTree, IInv, TypeOK, ThreadInv, Tabling
<1>18. ASSUME NEW c \in Clients, DeleteForget(c) PROVE StatusHasReason'
  BY <1>18, SeenFrame DEF DeleteForget, IInv, TypeOK, ThreadInv, Tabling
<1>19. ASSUME NEW c \in Clients, PutLookup(c) PROVE StatusHasReason'
  BY <1>19, SeenFrame DEF PutLookup, IInv, TypeOK, ThreadInv, Tabling
<1>20. ASSUME NEW c \in Clients, PutWrite(c) PROVE StatusHasReason'
  BY <1>20, SeenFrame DEF PutWrite, IInv, TypeOK, ThreadInv, Tabling
<1>21. ASSUME NEW c \in Clients, BuildLookup(c) PROVE StatusHasReason'
  BY <1>21, SeenFrame DEF BuildLookup, IInv, TypeOK, ThreadInv, Tabling
<1>22. ASSUME NEW c \in Clients, BuildTake(c) PROVE StatusHasReason'
  BY <1>22, SeenFrame DEF BuildTake, IInv, TypeOK, ThreadInv, Tabling
<1>23. ASSUME NEW c \in Clients, BuildAnnounce(c) PROVE StatusHasReason'
  BY <1>23, SeenFrame DEF BuildAnnounce, IInv, TypeOK, ThreadInv, Tabling
<1>24. ASSUME NEW c \in Clients, BuildSettle(c) PROVE StatusHasReason'
  BY <1>24, SeenFrame DEF BuildSettle, IInv, TypeOK, ThreadInv, Tabling
<1>25. ASSUME NEW c \in Clients, BuildUnlock(c) PROVE StatusHasReason'
  BY <1>25, SeenFrame DEF BuildUnlock, IInv, TypeOK, ThreadInv, Tabling
<1>26. ASSUME NEW p \in Procs, Exit(p) PROVE StatusHasReason'
  BY <1>26, SeenFrame DEF Exit, IInv, TypeOK, ThreadInv, Tabling, RunInv, ProcInv, ProcOK
<1>27. ASSUME NEW p \in Procs, Dies(p) PROVE StatusHasReason'
  BY <1>27, SeenFrame DEF Dies, IInv, TypeOK, ThreadInv, Tabling, RunInv, ProcInv, ProcOK
<1>28. ASSUME NEW p \in Procs, CaptureStart(p) PROVE StatusHasReason'
  BY <1>28, SeenFrame DEF CaptureStart, IInv, TypeOK, ThreadInv, Tabling, RunInv, ProcInv,
     ProcOK
<1>29. ASSUME NEW p \in Procs, CaptureBreak(p) PROVE StatusHasReason'
  BY <1>29, SeenFrame DEF CaptureBreak, IInv, TypeOK, ThreadInv, Tabling
<1>30. ASSUME NEW p \in Procs, CaptureScan(p) PROVE StatusHasReason'
  <2>1. CASE Running(slot[p][1]) = {}
    BY <1>30, <2>1, SeenFrame DEF CaptureScan, IInv, TypeOK
  <2>2. CASE Running(slot[p][1]) # {}
    BY <1>30, <2>2, SeenFrame DEF CaptureScan, IInv, TypeOK
  <2> QED
    BY <2>1, <2>2
<1>31. ASSUME NEW p \in Procs, CaptureSettle(p) PROVE StatusHasReason'
  BY <1>31, SeenFrame DEF CaptureSettle, IInv, TypeOK, ThreadInv, Tabling, RunInv,
     ProcInv, ProcOK
<1>32. ASSUME NEW c \in Clients, RunRecord(c) PROVE StatusHasReason'
  <2>1. /\ ws[c] \in Idents /\ name[c] \in Names
        /\ UNCHANGED <<items, status, slot, capture, ws>> /\ pc' = [pc EXCEPT ![c] = "announce"]
        /\ nodes' = [nodes EXCEPT ![ws[c]][name[c]] = [status |-> "running", pid |-> mine[c]]]
    BY <1>32 DEF RunRecord, IInv, TypeOK, ThreadInv, Tabling
  <2>2. ASSUME NEW i \in items, status[i] = "running" PROVE Seen(i)'
    <3>1. Seen(i) /\ i \in Idents
      BY <2>2 DEF StatusHasReason, Seen, At, IInv, TypeOK
    <3>2. CASE i = ws[c]
      BY <2>1, <3>2 DEF Seen, IInv, TypeOK
    <3>3. CASE i # ws[c]
      <4>1. Running(i)' = Running(i)
        BY <2>1, <3>1, <3>3 DEF Running, IInv, TypeOK
      <4>2. \A d \in Clients : pc[d] \in Seers => pc'[d] \in Seers
        BY <2>1 DEF IInv, TypeOK
      <4> QED
        BY <2>1, <3>1, <4>1, <4>2 DEF Seen
    <3> QED
      BY <3>2, <3>3
  <2> QED
    BY <2>1, <2>2 DEF StatusHasReason, Seen, At
<1>33. ASSUME NEW c \in Clients, StopMark(c) PROVE StatusHasReason'
  <2>1. /\ ws[c] \in Idents /\ name[c] \in Names
        /\ UNCHANGED <<items, status, slot, capture, ws>> /\ pc' = [pc EXCEPT ![c] = "stopping"]
        /\ nodes' = [nodes EXCEPT ![ws[c]][name[c]].status = "stopped"]
    BY <1>33 DEF StopMark, Mark, IInv, TypeOK, ThreadInv
  <2>2. ASSUME NEW i \in items, status[i] = "running" PROVE Seen(i)'
    <3>1. Seen(i) /\ i \in Idents
      BY <2>2 DEF StatusHasReason, Seen, At, IInv, TypeOK
    <3>2. CASE i = ws[c]
      BY <2>1, <3>2 DEF Seen, IInv, TypeOK
    <3>3. CASE i # ws[c]
      <4>1. Running(i)' = Running(i)
        BY <2>1, <3>1, <3>3 DEF Running, IInv, TypeOK
      <4>2. \A d \in Clients : pc[d] \in Seers => pc'[d] \in Seers
        BY <2>1 DEF IInv, TypeOK
      <4> QED
        BY <2>1, <3>1, <4>1, <4>2 DEF Seen
    <3> QED
      BY <3>2, <3>3
  <2> QED
    BY <2>1, <2>2 DEF StatusHasReason, Seen, At
<1>34. ASSUME NEW p \in Procs, CaptureMark(p) PROVE StatusHasReason'
  <2> PICK j \in Idents, m \in Names : slot[p] = <<j, m>> /\ slot[p] # None
    BY <1>34 DEF CaptureMark, IInv, TypeOK, ProcInv, ProcOK
  <2>1. /\ UNCHANGED <<items, status, slot, pc, ws>> /\ capture' = [capture EXCEPT ![p] = "scan"]
        /\ nodes' = [nodes EXCEPT ![j][m].status = Outcome(p)]
    BY <1>34 DEF CaptureMark, Mark
  <2>2. ASSUME NEW i \in items, status[i] = "running" PROVE Seen(i)'
    <3>1. Seen(i) /\ i \in Idents
      BY <2>2 DEF StatusHasReason, Seen, At, IInv, TypeOK
    <3>2. CASE i = j
      <4>1. slot' = slot /\ capture'[p] = "scan"
        BY <2>1 DEF IInv, TypeOK
      <4>2. slot'[p] # None /\ slot'[p][1] = i /\ capture'[p] # "gone"
        BY <3>2, <4>1
      <4> QED
        BY <4>2 DEF Seen
    <3>3. CASE i # j
      <4>1. Running(i)' = Running(i)
        BY <2>1, <3>1, <3>3 DEF Running, IInv, TypeOK
      <4>2. \A q \in Procs : capture[q] # "gone" => capture'[q] # "gone"
        BY <2>1 DEF IInv, TypeOK
      <4> QED
        BY <2>1, <3>1, <4>1, <4>2 DEF Seen
    <3> QED
      BY <3>2, <3>3
  <2> QED
    BY <2>1, <2>2 DEF StatusHasReason, Seen, At
<1>35. CASE UNCHANGED vars
  BY <1>35, SeenFrame DEF vars, IInv, TypeOK
<1> QED
  BY <1>1, <1>2, <1>3, <1>4, <1>5, <1>6, <1>7, <1>8, <1>9, <1>10, <1>11, <1>12, <1>13,
     <1>14, <1>15, <1>16, <1>17, <1>18, <1>19, <1>20, <1>21, <1>22, <1>23, <1>24, <1>25,
     <1>26, <1>27, <1>28, <1>29, <1>30, <1>31, <1>32, <1>33, <1>34, <1>35 DEF Next, Handler, Capture

(* A workspace that says "running" has a record that says so, or somebody  *)
(* who will look again (process.py:85-86,105-106).                         *)
THEOREM StatusKeepsReason == Spec => []StatusHasReason
<1>1. Init => StatusHasReason
  BY DEF Init, StatusHasReason
<1>2. IInv /\ StatusHasReason /\ [Next]_vars => StatusHasReason'
  BY SeenStep
<1> QED
  BY <1>1, <1>2, RefInvariant, PTL DEF Spec
=============================================================================
