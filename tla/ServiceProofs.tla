---------------------------- MODULE ServiceProofs ----------------------------
(***************************************************************************)
(* The supervisor implements NodeService: what a client sees of the nodes, *)
(* name by name, moves only as a service without goroutines would move it. *)
(* The proof takes each section of the code under Server.mu to one step of *)
(* NodeService, or to none.                                                *)
(***************************************************************************)
EXTENDS SupervisorProofs

Places == Workspaces \X Names
View   == [p \in Places |-> Shown(p[1], p[2])]
Mode   == IF closing THEN "closed" ELSE IF estop THEN "tripped" ELSE "open"

Entry(s, r, a, o) == [status |-> s, restarts |-> r, asked |-> a, order |-> o]

(* Where a client finds node n. *)
Place(n) == <<home[n], name[n]>>

LEMMA EntryFacts ==
  ASSUME NEW e, NEW s, NEW r, NEW a, NEW o, e = Entry(s, r, a, o)
  PROVE  e.status = s /\ e.restarts = r /\ e.asked = a /\ e.order = o
BY DEF Entry

LEMMA ShownFacts ==
  ASSUME IInv, NEW p \in Places
  PROVE  /\ p[1] \in Workspaces /\ p[2] \in Names
         /\ View[p] = LET n == table[p[1]][p[2]] IN
                      IF n = None THEN Entry("absent", 0, FALSE, None)
                      ELSE Entry(status[n], restarts[n], stopping[n], req[n])
         /\ table[p[1]][p[2]] # None => table[p[1]][p[2]] \in Nodes /\ p = Place(table[p[1]][p[2]])
<1>1. p[1] \in Workspaces /\ p[2] \in Names /\ p = <<p[1], p[2]>>
  BY DEF Places
<1>2. View[p] = Shown(p[1], p[2])
  BY DEF View
<1>3. table[p[1]][p[2]] \in Nodes \union {None}
  BY <1>1 DEF IInv, TypeOK, WorkspaceTypes
<1> QED
  BY <1>1, <1>2, <1>3 DEF Shown, Entry, IInv, TableInv, Place

LEMMA NodeShown ==
  ASSUME IInv, NEW n \in Nodes, Active(n)
  PROVE  /\ Place(n) \in Places /\ table[home[n]][name[n]] = n /\ n # None
         /\ View[Place(n)] = Entry(status[n], restarts[n], stopping[n], req[n])
<1>1. /\ home[n] \in Workspaces /\ name[n] \in Names /\ table[home[n]][name[n]] = n
      /\ n # None
  BY NoneAssumption DEF IInv, NodeInv, NodeOK, Active, TableInv
<1>2. Place(n) \in Places /\ Place(n)[1] = home[n] /\ Place(n)[2] = name[n]
  BY <1>1 DEF Place, Places
<1> QED
  BY <1>1, <1>2, ShownFacts

(* A step of one node changes what is shown at its place. *)
LEMMA OneMoves ==
  ASSUME IInv, NEW n \in Nodes, Active(n), NEW s, status' = [status EXCEPT ![n] = s],
         UNCHANGED <<table, req, stopping>>, NEW r, restarts' = [restarts EXCEPT ![n] = r]
  PROVE  View' = [View EXCEPT ![Place(n)] = Entry(s, r, stopping[n], req[n])]
<1>1. \A m \in Nodes : /\ status'[m] = IF m = n THEN s ELSE status[m]
                       /\ restarts'[m] = IF m = n THEN r ELSE restarts[m]
  BY DEF IInv, TypeOK, NodeTypes
<1>2. ASSUME NEW p \in Places
      PROVE  View'[p] = IF p = Place(n) THEN Entry(s, r, stopping[n], req[n]) ELSE View[p]
  <2> DEFINE m == table[p[1]][p[2]]
  <2>1. View'[p] = IF m = None THEN Entry("absent", 0, FALSE, None)
                   ELSE Entry(status'[m], restarts'[m], stopping[m], req[m])
    BY <1>2 DEF View, Shown, Entry
  <2>2. m # None => m \in Nodes
    BY <1>2, ShownFacts
  <2>3. p = Place(n) => m = n
    BY NodeShown, <1>2 DEF Place
  <2>4. m = n => p = Place(n)
    BY ShownFacts, NodeShown, <1>2
  <2>5. CASE p = Place(n)
    <3>1. m = n /\ n # None
      BY <2>3, <2>5, NodeShown
    <3>2. View'[p] = Entry(status'[n], restarts'[n], stopping[n], req[n])
      BY <2>1, <3>1, Zenon
    <3> QED
      BY <1>1, <2>5, <3>2
  <2>6. CASE p # Place(n)
    <3>1. m # None => m \in Nodes /\ m # n
      BY <2>2, <2>3, <2>4, <2>6
    <3>2. View[p] = IF m = None THEN Entry("absent", 0, FALSE, None)
                    ELSE Entry(status[m], restarts[m], stopping[m], req[m])
      BY <1>2, ShownFacts
    <3> QED
      BY <1>1, <2>1, <2>6, <3>1, <3>2, Zenon
  <2> QED
    BY <2>5, <2>6
<1> QED
  BY <1>2 DEF View
-----------------------------------------------------------------------------
(* The actions of NodeService, in the variables of the supervisor.         *)

Registry == <<made, items, Mode>>

LEMMA RunMaps ==
  ASSUME NEW p \in Places, NEW r \in Requests, Mode = "open", p[1] \in items,
         View[p].status \notin {"running", "starting"},
         View' = [View EXCEPT ![p] = Entry("running", 0, FALSE, r)], UNCHANGED Registry
  PROVE  Service!Run(p, r)
BY Zenon DEF Service!Run, Service!Busy, Service!Entry, Places, View, Mode, Entry, Registry

LEMMA FallMaps ==
  ASSUME NEW p \in Places, NEW q, NEW a, NEW r, a = FALSE,
         View[p] = Entry("running", q, a, r), Mode # "closed",
         r.restart # "never", q < r.max,
         View' = [View EXCEPT ![p] = Entry("starting", q + 1, a, r)], UNCHANGED Registry
  PROVE  Service!Fall(p)
<1> DEFINE s == View[p]
<1>1. s.status = "running" /\ s.restarts = q /\ s.asked = a /\ s.order = r
  BY EntryFacts
<1>2. Service!Fall(p) <=>
        /\ Mode # "closed" /\ s.status = "running" /\ ~s.asked
        /\ s.order.restart # "never" /\ s.restarts < s.order.max
        /\ View' = [View EXCEPT ![p] = Entry("starting", s.restarts + 1, s.asked, s.order)]
        /\ UNCHANGED Registry
  BY Zenon DEF Service!Fall, Service!Entry, Places, View, Mode, Registry, Entry
<1> HIDE DEF s
<1> QED
  BY <1>1, <1>2, Zenon

LEMMA RiseMaps ==
  ASSUME NEW p \in Places, NEW q, NEW a, NEW r, a = FALSE,
         View[p] = Entry("starting", q, a, r), Mode # "closed", p[1] \in items,
         View' = [View EXCEPT ![p] = Entry("running", q, a, r)], UNCHANGED Registry
  PROVE  Service!Rise(p)
<1> DEFINE s == View[p]
<1>1. s.status = "starting" /\ s.restarts = q /\ s.asked = a /\ s.order = r
  BY EntryFacts
<1>2. Service!Rise(p) <=>
        /\ Mode # "closed" /\ p[1] \in items /\ s.status = "starting" /\ ~s.asked
        /\ View' = [View EXCEPT ![p] = Entry("running", s.restarts, s.asked, s.order)]
        /\ UNCHANGED Registry
  BY Zenon DEF Service!Rise, Service!Entry, Places, View, Mode, Registry, Entry
<1> HIDE DEF s
<1> QED
  BY <1>1, <1>2, Zenon

LEMMA EndMaps ==
  ASSUME NEW p \in Places, NEW st \in {"running", "starting"}, NEW q, NEW a, NEW r,
         NEW last \in {"stopped", "error"},
         View[p] = Entry(st, q, a, r), last = "error" => ~a,
         \/ Mode' = Mode
         \/ last = "error" /\ r.mode = "native" /\ Mode = "open" /\ Mode' = "tripped",
         View' = [View EXCEPT ![p] = Entry(last, q, a, r)], UNCHANGED <<made, items>>
  PROVE  Service!End(p)
<1> DEFINE s == View[p]
<1>1. s.status = st /\ s.restarts = q /\ s.asked = a /\ s.order = r
  BY EntryFacts
<1>2. Service!End(p) <=>
        /\ s.status \in {"running", "starting"}
        /\ \E x \in {"stopped", "error"} :
             /\ x = "error" => ~s.asked
             /\ View' = [View EXCEPT ![p] = Entry(x, s.restarts, s.asked, s.order)]
             /\ \/ UNCHANGED Mode
                \/ x = "error" /\ s.order.mode = "native" /\ Mode = "open" /\ Mode' = "tripped"
        /\ UNCHANGED <<made, items>>
  BY Zenon DEF Service!End, Service!Busy, Service!Entry, Places, View, Mode, Entry
<1> HIDE DEF s
<1> QED
  BY <1>1, <1>2, Zenon

LEMMA AskMaps ==
  ASSUME NEW w \in Workspaces, NEW P \in SUBSET Places,
         \A p \in P : p[1] = w /\ View[p].status \in {"running", "starting"},
         View' = [p \in Places |->
                    IF p \in P
                      THEN Entry(View[p].status, View[p].restarts, TRUE, View[p].order)
                      ELSE View[p]],
         UNCHANGED Registry
  PROVE  Service!Ask(w)
<1>1. Service!Ask(w) <=>
        /\ \E Q \in SUBSET {p \in Places : p[1] = w /\ View[p].status \in {"running", "starting"}} :
             View' = [p \in Places |->
                        IF p \in Q
                          THEN Entry(View[p].status, View[p].restarts, TRUE, View[p].order)
                          ELSE View[p]]
        /\ UNCHANGED Registry
  BY Zenon DEF Service!Ask, Service!Places, Service!Busy, Service!Entry, Places, View, Mode,
     Registry, Entry
<1>2. P \in SUBSET {p \in Places : p[1] = w /\ View[p].status \in {"running", "starting"}}
  OBVIOUS
<1> QED
  BY <1>1, <1>2, Zenon

LEMMA RemoveMaps ==
  ASSUME NEW w \in Workspaces,
         \A p \in Places : p[1] = w /\ View[p].status \in {"running", "starting"} => View[p].asked,
         items' = items \ {w}, UNCHANGED <<made, Mode, View>>
  PROVE  Service!Remove(w)
BY Zenon DEF Service!Remove, Service!Places, Service!Busy, Places, View, Mode
-----------------------------------------------------------------------------
(* The sections of the code.                                               *)

(* A node object that was not used yet was never restarted. *)
Unused == \A n \in Nodes : status[n] = "absent" => restarts[n] = 0

LEMMA UnusedStep == ASSUME IInv, Unused, [Next]_vars PROVE Unused'
<1>1. ASSUME NEW n \in Nodes, NEW g \in Gens, Capture(n, g) PROVE Unused'
  <2>1. Active(n) /\ Ageing
    BY <1>1, CaptureAges DEF Capture, CaptureExit, RestartWake, IInv, NodeInv, NodeOK, GenOK, Active
  <2>2. \A m \in Nodes \ {n} : restarts'[m] = restarts[m]
    BY <1>1 DEF Capture, CaptureExit, RestartWake, IInv, TypeOK, NodeTypes
  <2> QED
    BY <2>1, <2>2 DEF Unused, Ageing, Active
<1>2. ASSUME NEW c \in Clients, Handler(c) PROVE restarts' = restarts
  BY <1>2 DEF Handler, RunRefused, RunAccepted, StopMark, StopReturn, DeleteMark,
     DeleteRemove, BuildBegin, BuildRefused, BuildEnd, nodeVars
<1>3. ASSUME NEW t \in Sweepers, Sweeping(t) PROVE restarts' = restarts
  BY <1>3 DEF Sweeping, SweepMark, SweepReturn, SweepEnd, nodeVars
<1>4. ASSUME NEW c \in Clients, NEW op \in {"run", "stop", "delete", "build"},
             Receive(c, op) \/ Create(c)
      PROVE  restarts' = restarts
  BY <1>4 DEF Receive, Create, nodeVars
<1>5. ASSUME NEW n \in Nodes, NEW g \in Gens, ProcessExit(n, g) \/ ProcessDies(n, g)
      PROVE  restarts' = restarts
  BY <1>5 DEF ProcessExit, ProcessDies, nodeVars
<1>6. ASSUME NEW t \in Threads, Stopping(t) PROVE restarts' = restarts
  BY <1>6 DEF Stopping, NodeDone, TermTimeout, KillTimeout, nodeVars
<1>7. SafetyTick \/ SafetySnapshot \/ SafetyHalt \/ CloseBegin \/ CloseAdmission
        \/ UNCHANGED vars => restarts' = restarts
  BY DEF SafetyTick, SafetySnapshot, SafetyHalt, CloseBegin, CloseAdmission, vars, nodeVars
<1>8. \A n \in Nodes : status'[n] = "absent" => status[n] = "absent"
  <2>1. ASSUME NEW c \in Clients, NEW n \in Nodes, NEW k \in Names, NEW r \in Requests,
               RunAccepted(c, n, k, r)
        PROVE  \A m \in Nodes : status'[m] = "absent" => status[m] = "absent"
    BY <2>1 DEF RunAccepted, Start, IInv, TypeOK, NodeTypes
  <2> QED
    BY <2>1, CaptureAges, HandlerAges, OtherAges, SweepingAges DEF Next, Ageing
<1>9. restarts' = restarts => Unused'
  BY <1>8 DEF Unused
<1> QED
  BY <1>1, <1>2, <1>3, <1>4, <1>5, <1>6, <1>7, <1>9 DEF Next

(* Mark asks the nodes it marks, which are all in one workspace. *)
LEMMA MarkAsks ==
  ASSUME IInv, NEW t, NEW w \in Workspaces, NEW ks, Mark(t, w, ks),
         UNCHANGED <<table, status, restarts, req, made, items, closing, estop>>
  PROVE  Service!Ask(w)
<1> DEFINE P == {p \in Places : p[1] = w /\ table[w][p[2]] \in Victims(w, ks)}
<1>1. \A p \in P : p[1] = w /\ View[p].status \in {"running", "starting"}
  <2> SUFFICES ASSUME NEW p \in P PROVE View[p].status \in {"running", "starting"}
    OBVIOUS
  <2> DEFINE n == table[p[1]][p[2]]
  <2>1. n \in Nodes /\ Active(n) /\ p = Place(n)
    BY ShownFacts, NoneAssumption DEF Victims, NodesOf
  <2>2. View[p] = Entry(status[n], restarts[n], stopping[n], req[n])
    BY <2>1, NodeShown
  <2> QED
    BY <2>1, <2>2, EntryFacts DEF Active
<1>2. ASSUME NEW p \in Places
      PROVE  View'[p] = IF p \in P
                        THEN Entry(View[p].status, View[p].restarts, TRUE, View[p].order)
                        ELSE View[p]
  <2> DEFINE n == table[p[1]][p[2]]
  <2>1. View'[p] = IF n = None THEN Entry("absent", 0, FALSE, None)
                   ELSE Entry(status[n], restarts[n], stopping'[n], req[n])
    BY <1>2 DEF View, Shown, Entry
  <2>2. View[p] = IF n = None THEN Entry("absent", 0, FALSE, None)
                  ELSE Entry(status[n], restarts[n], stopping[n], req[n])
    BY <1>2, ShownFacts
  <2>3. n # None => n \in Nodes /\ p = Place(n)
    BY <1>2, ShownFacts
  <2>4. n # None => stopping'[n] = (stopping[n] \/ n \in Victims(w, ks))
    BY <2>3 DEF Mark
  <2>5. CASE p \in P
    <3>1. n # None /\ n \in Victims(w, ks)
      BY <2>5 DEF Victims, NodesOf
    <3>2. stopping'[n] = TRUE
      BY <2>4, <3>1
    <3>3. View[p] = Entry(status[n], restarts[n], stopping[n], req[n])
      BY <2>2, <3>1, Zenon
    <3>4. View[p].status = status[n] /\ View[p].restarts = restarts[n] /\ View[p].order = req[n]
      BY <3>3, EntryFacts
    <3> QED
      BY <2>1, <2>5, <3>1, <3>2, <3>4, Zenon
  <2>6. CASE p \notin P
    <3>1. n # None => n \notin Victims(w, ks)
      <4> SUFFICES ASSUME n # None, n \in Victims(w, ks) PROVE FALSE
        OBVIOUS
      <4>1. PICK k \in Names : n = table[w][k]
        BY DEF Victims, NodesOf
      <4>2. home[n] = w /\ p[1] = home[n]
        BY <2>3, <4>1 DEF IInv, TableInv, Place
      <4> QED
        BY <1>2, <2>6, <4>2
    <3>2. n # None => stopping'[n] = stopping[n]
      BY <2>3, <2>4, <3>1 DEF IInv, TypeOK, NodeTypes
    <3> QED
      BY <2>1, <2>2, <2>6, <3>2
  <2> QED
    BY <2>5, <2>6
<1>3. View' = [p \in Places |->
                 IF p \in P
                   THEN Entry(View[p].status, View[p].restarts, TRUE, View[p].order)
                   ELSE View[p]]
  BY <1>2 DEF View
<1>4. UNCHANGED Registry
  BY DEF Registry, Mode
<1>5. P \in SUBSET Places
  OBVIOUS
<1> HIDE DEF P
<1> QED
  BY <1>1, <1>3, <1>4, <1>5, AskMaps

Simulated == [Service!Next]_(Service!vars)

(* What a client sees is made of these variables. *)
LEMMA Unseen ==
  ASSUME UNCHANGED <<made, items, closing, estop, table, status, stopping, restarts, req>>
  PROVE  Simulated
<1>1. View' = View /\ Mode' = Mode
  BY DEF View, Mode, Shown
<1>2. UNCHANGED Service!vars <=> UNCHANGED <<made, items, Mode, View>>
  BY Zenon DEF Service!vars, View, Mode, Places
<1> QED
  BY <1>1, <1>2 DEF Simulated

LEMMA RunStep ==
  ASSUME IInv, Unused, NEW c \in Clients, NEW n \in Nodes, NEW k \in Names, NEW r \in Requests,
         RunAccepted(c, n, k, r)
  PROVE  Service!Run(<<ws[c], k>>, r)
<1> DEFINE w == ws[c]
           p == <<w, k>>
<1>1. /\ w \in Workspaces /\ status[n] = "absent" /\ ~stopping[n] /\ restarts[n] = 0
      /\ ~estop /\ ~closing /\ w \in items /\ NameFree(w, k) /\ n # None
  BY NoneAssumption DEF RunAccepted, Admits, IInv, LockInv, ClientOK, Handling, NodeInv, NodeOK,
     Unused
<1>2. /\ \A m \in Nodes : /\ status'[m] = IF m = n THEN "running" ELSE status[m]
                          /\ req'[m] = IF m = n THEN r ELSE req[m]
      /\ \A x \in Workspaces, j \in Names :
           table'[x][j] = IF x = w /\ j = k THEN n ELSE table[x][j]
      /\ UNCHANGED <<made, items, closing, estop, stopping, restarts>>
  BY <1>1 DEF RunAccepted, Start, IInv, TypeOK, NodeTypes, WorkspaceTypes
<1>3. p \in Places /\ p[1] = w /\ p[2] = k
  BY <1>1 DEF Places
<1>4. Mode = "open" /\ UNCHANGED Registry
  BY <1>1, <1>2 DEF Mode, Registry
<1>5. View[p].status \notin {"running", "starting"}
  <2>1. CASE table[w][k] = None
    <3>1. View[p] = Entry("absent", 0, FALSE, None)
      BY <1>3, <2>1, ShownFacts
    <3> QED
      BY <3>1 DEF Entry
  <2>2. CASE table[w][k] # None
    <3> DEFINE m == table[w][k]
    <3>1. View[p] = Entry(status[m], restarts[m], stopping[m], req[m])
      BY <1>3, <2>2, ShownFacts
    <3>2. View[p].status = status[m]
      BY <3>1, EntryFacts
    <3> QED
      BY <1>1, <2>2, <3>2 DEF NameFree, Active
  <2> QED
    BY <2>1, <2>2
<1>6. ASSUME NEW q \in Places
      PROVE  View'[q] = IF q = p THEN Entry("running", 0, FALSE, r) ELSE View[q]
  <2> DEFINE m == table'[q[1]][q[2]]
  <2>1. View'[q] = IF m = None THEN Entry("absent", 0, FALSE, None)
                   ELSE Entry(status'[m], restarts'[m], stopping'[m], req'[m])
    BY <1>6 DEF View, Shown, Entry
  <2>2. q[1] \in Workspaces /\ q[2] \in Names /\ (q = p <=> q[1] = w /\ q[2] = k)
    BY <1>3, <1>6 DEF Places
  <2>3. CASE q = p
    <3>1. m = n
      BY <1>1, <1>2, <2>2, <2>3
    <3>2. View'[q] = Entry(status'[n], restarts'[n], stopping'[n], req'[n])
      BY <1>1, <2>1, <3>1, Zenon
    <3>3. restarts'[n] = 0 /\ stopping'[n] = FALSE
      BY <1>1, <1>2 DEF IInv, TypeOK, NodeTypes
    <3>4. status'[n] = "running" /\ req'[n] = r
      BY <1>2
    <3> QED
      BY <2>3, <3>2, <3>3, <3>4, Zenon
  <2>4. CASE q # p
    <3> DEFINE o == table[q[1]][q[2]]
    <3>1. m = o /\ (o # None => o \in Nodes /\ status[o] # "absent")
      BY <1>2, <1>6, <2>2, <2>4, ShownFacts DEF IInv, TableInv
    <3>2. o # None => /\ status'[o] = status[o] /\ req'[o] = req[o]
                      /\ restarts'[o] = restarts[o] /\ stopping'[o] = stopping[o]
      BY <1>1, <1>2, <3>1
    <3>3. View[q] = IF o = None THEN Entry("absent", 0, FALSE, None)
                    ELSE Entry(status[o], restarts[o], stopping[o], req[o])
      BY <1>6, ShownFacts
    <3> QED
      BY <2>1, <2>4, <3>1, <3>2, <3>3, Zenon
  <2> QED
    BY <2>3, <2>4
<1>7. View' = [View EXCEPT ![p] = Entry("running", 0, FALSE, r)]
  BY <1>6 DEF View
<1> HIDE DEF p, w
<1> QED
  BY <1>1, <1>3, <1>4, <1>5, <1>7, RunMaps DEF p, w

LEMMA CaptureStep ==
  ASSUME IInv, NEW n \in Nodes, NEW g \in Gens, Capture(n, g)
  PROVE  Service!Fall(Place(n)) \/ Service!Rise(Place(n)) \/ Service!End(Place(n))
<1> DEFINE p == Place(n)
           q == restarts[n]
           a == stopping[n]
           r == req[n]
           st == status[n]
<1>1. /\ Active(n) /\ TypeOK /\ UNCHANGED <<made, items, closing, table, req, stopping>>
      /\ CaptureExit(n, g) => status[n] = "running"
      /\ RestartWake(n, g) => status[n] = "starting"
  BY DEF Capture, CaptureExit, RestartWake, IInv, NodeInv, NodeOK, GenOK, Active
<1>2. p \in Places /\ p[1] = home[n] /\ View[p] = Entry(st, q, a, r)
  BY <1>1, NodeShown DEF Place
<1>3. restarts = [restarts EXCEPT ![n] = q]
  BY <1>1 DEF TypeOK, NodeTypes
<1>4. ASSUME Finish(n, g), UNCHANGED restarts,
             \/ estop' = estop
             \/ NativeFailure(n, g) /\ estop'
      PROVE  Service!End(p)
  <2>1. PICK last \in {"stopped", "error"} :
          /\ status' = [status EXCEPT ![n] = last]
          /\ last = "error" <=> proc[<<n, g>>] = "failed" /\ ~stopping[n]
    BY <1>4 DEF Finish
  <2>2. View' = [View EXCEPT ![p] = Entry(last, q, a, r)]
    BY <1>1, <1>3, <1>4, <2>1, OneMoves
  <2>3. \/ Mode' = Mode
        \/ last = "error" /\ r.mode = "native" /\ Mode = "open" /\ Mode' = "tripped"
    BY <1>1, <1>4, <2>1 DEF Mode, NativeFailure
  <2>4. st \in {"running", "starting"} /\ (last = "error" => ~a) /\ UNCHANGED <<made, items>>
    BY <1>1, <2>1 DEF Active
  <2> HIDE DEF p, q, a, r, st
  <2> QED
    BY <1>2, <2>2, <2>3, <2>4, EndMaps
<1>5. CASE CaptureExit(n, g) /\ Restarts(n, g)
  <2>1. /\ restarts' = [restarts EXCEPT ![n] = q + 1]
        /\ status' = [status EXCEPT ![n] = "starting"]
        /\ estop' = (estop \/ (Safety /\ NativeFailure(n, g)))
    BY <1>5 DEF CaptureExit
  <2>2. ~a /\ ~closing /\ ~NativeFailure(n, g) /\ r.restart # "never" /\ q < r.max
    BY <1>5 DEF Restarts
  <2>3. a = FALSE
    BY <1>1, <2>2 DEF TypeOK, NodeTypes
  <2>4. Mode # "closed" /\ UNCHANGED Registry
    BY <1>1, <2>1, <2>2 DEF Mode, Registry, TypeOK, WorkspaceTypes
  <2>5. View' = [View EXCEPT ![p] = Entry("starting", q + 1, a, r)]
    BY <1>1, <2>1, OneMoves
  <2>6. View[p] = Entry("running", q, a, r)
    BY <1>1, <1>2, <1>5
  <2>7. Service!Fall(p)
    <3> HIDE DEF p, q, a, r
    <3> QED
      BY <1>2, <2>2, <2>3, <2>4, <2>5, <2>6, FallMaps
  <2> QED
    BY <2>7
<1>6. CASE CaptureExit(n, g) /\ ~Restarts(n, g)
  <2>1. Finish(n, g) /\ UNCHANGED restarts /\ estop' = (estop \/ (Safety /\ NativeFailure(n, g)))
    BY <1>6 DEF CaptureExit
  <2>2. estop' = estop \/ (NativeFailure(n, g) /\ estop')
    BY <1>1, <2>1, SafetyAssumption DEF TypeOK, WorkspaceTypes
  <2> QED
    BY <1>4, <2>1, <2>2
<1>7. CASE RestartWake(n, g) /\ Finish(n, g)
  BY <1>4, <1>7 DEF RestartWake
<1>8. CASE RestartWake(n, g) /\ ~Overtaken(n) /\ Start(n, home[n])
  <2>1. /\ status' = [status EXCEPT ![n] = "running"] /\ UNCHANGED <<restarts, estop>>
        /\ ~a /\ ~closing
    BY <1>8 DEF RestartWake, Start, Overtaken
  <2>2. a = FALSE
    BY <1>1, <2>1 DEF TypeOK, NodeTypes
  <2>3. p[1] \in items
    BY <1>1, <1>2, <2>1 DEF IInv, LockInv
  <2>4. Mode # "closed" /\ UNCHANGED Registry
    BY <1>1, <2>1 DEF Mode, Registry
  <2>5. View' = [View EXCEPT ![p] = Entry("running", q, a, r)]
    BY <1>1, <1>3, <2>1, OneMoves
  <2>6. View[p] = Entry("starting", q, a, r)
    BY <1>1, <1>2, <1>8
  <2>7. Service!Rise(p)
    <3> HIDE DEF p, q, a, r
    <3> QED
      BY <1>2, <2>2, <2>3, <2>4, <2>5, <2>6, RiseMaps
  <2> QED
    BY <2>7
<1> QED
  BY <1>5, <1>6, <1>7, <1>8 DEF Capture, CaptureExit, RestartWake

(* DELETE: the busy nodes of the workspace have all been told to stop. *)
LEMMA RemoveStep ==
  ASSUME IInv, NEW c \in Clients, DeleteRemove(c)
  PROVE  Service!Remove(ws[c]) \/ Simulated
<1>1. /\ ws[c] \in Workspaces /\ items' \in {items, items \ {ws[c]}}
      /\ UNCHANGED <<made, closing, estop, table, status, stopping, restarts, req>>
      /\ \A n \in Nodes : Active(n) /\ home[n] = ws[c] => stopping[n]
  BY DEF DeleteRemove, IInv, LockInv, ClientOK, Handling, nodeVars
<1>2. CASE items' = items
  BY <1>1, <1>2, Unseen
<1>3. CASE items' = items \ {ws[c]}
  <2>1. ASSUME NEW p \in Places, p[1] = ws[c], View[p].status \in {"running", "starting"}
        PROVE  View[p].asked
    <3> DEFINE n == table[p[1]][p[2]]
    <3>1. n # None
      <4>1. ASSUME n = None PROVE View[p].status = "absent"
        <5>1. View[p] = Entry("absent", 0, FALSE, None)
          BY <4>1, ShownFacts
        <5> QED
          BY <5>1 DEF Entry
      <4> QED
        BY <2>1, <4>1
    <3>2. /\ n \in Nodes /\ p = Place(n)
          /\ View[p] = Entry(status[n], restarts[n], stopping[n], req[n])
      BY <2>1, <3>1, ShownFacts
    <3>3. View[p].status = status[n] /\ View[p].asked = stopping[n]
      BY <3>2, EntryFacts
    <3>4. home[n] = ws[c]
      BY <2>1, <3>2 DEF Place
    <3>5. stopping[n]
      BY <1>1, <2>1, <3>2, <3>3, <3>4 DEF Active
    <3> QED
      BY <3>3, <3>5, Zenon
  <2>2. UNCHANGED <<made, Mode, View>>
    BY <1>1 DEF Mode, View, Shown
  <2> QED
    BY <1>1, <1>3, <2>1, <2>2, RemoveMaps
<1> QED
  BY <1>1, <1>2, <1>3

(* Each action of NodeService is a step of it. *)
LEMMA Steps ==
  /\ Service!Register \/ Service!Trip \/ Service!Close => Simulated
  /\ \A w \in Workspaces : Service!Ask(w) \/ Service!Remove(w) => Simulated
  /\ \A p \in Places : Service!Fall(p) \/ Service!Rise(p) \/ Service!End(p) => Simulated
  /\ \A p \in Places, r \in Requests : Service!Run(p, r) => Simulated
<1>1. /\ Service!Register \/ Service!Trip \/ Service!Close => Service!Next
      /\ \A w \in Workspaces : Service!Ask(w) \/ Service!Remove(w) => Service!Next
  BY Zenon DEF Service!Next
<1>2. /\ \A p \in Places : Service!Fall(p) \/ Service!Rise(p) \/ Service!End(p) => Service!Next
      /\ \A p \in Places, r \in Requests : Service!Run(p, r) => Service!Next
  BY Zenon DEF Service!Next, Service!Places, Places
<1>3. Service!Next => Simulated
  BY DEF Simulated
<1> QED
  BY <1>1, <1>2, <1>3, Zenon

(* What only the registry, E-Stop or Close change is seen at once. *)
LEMMA RegistrySteps ==
  ASSUME IInv, UNCHANGED <<table, status, stopping, restarts, req>>
  PROVE  /\ \A c \in Clients : Create(c) => Service!Register
         /\ SafetyTick => Service!Trip \/ Simulated
         /\ CloseAdmission => Service!Close
<1>1. View' = View
  BY DEF View, Shown
<1>2. ASSUME NEW c \in Clients, Create(c) PROVE Service!Register
  <2>1. /\ Mode # "closed" /\ UNCHANGED <<Mode, View>>
        /\ \E w \in Workspaces \ made : made' = made \union {w} /\ items' = items \union {w}
    BY <1>1, <1>2 DEF Create, Mode
  <2> QED
    BY <2>1, Zenon DEF Service!Register, View, Mode, Places
<1>3. ASSUME SafetyTick PROVE Service!Trip \/ Simulated
  <2>1. UNCHANGED <<made, items, closing>> /\ (estop => estop') /\ estop' \in BOOLEAN
    BY <1>3 DEF SafetyTick, wsVars, IInv, TypeOK, WorkspaceTypes
  <2>2. CASE estop' = estop
    BY <1>1, <2>1, <2>2, Unseen
  <2>3. CASE estop' # estop /\ closing
    <3>1. UNCHANGED <<made, items, Mode, View>>
      BY <1>1, <2>1, <2>3 DEF Mode
    <3>2. UNCHANGED Service!vars
      BY <3>1, Zenon DEF Service!vars, View, Mode, Places
    <3> QED
      BY <3>2 DEF Simulated
  <2>4. CASE estop' # estop /\ ~closing
    <3>1. Mode = "open" /\ Mode' = "tripped" /\ UNCHANGED <<made, items, View>>
      BY <1>1, <2>1, <2>4 DEF Mode, IInv, TypeOK, WorkspaceTypes
    <3> QED
      BY <3>1, Zenon DEF Service!Trip, View, Mode, Places
  <2> QED
    BY <2>2, <2>3, <2>4
<1>4. ASSUME CloseAdmission PROVE Service!Close
  <2>1. Mode' = "closed" /\ UNCHANGED <<made, items, View>>
    BY <1>1, <1>4 DEF CloseAdmission, Mode
  <2> QED
    BY <2>1, Zenon DEF Service!Close, View, Mode, Places
<1> QED
  BY <1>2, <1>3, <1>4

LEMMA HandlerStep ==
  ASSUME IInv, Unused, NEW c \in Clients, Handler(c)
  PROVE  Simulated
<1>1. CASE StopMark(c) \/ DeleteMark(c)
  <2>1. ws[c] \in Workspaces
    BY <1>1 DEF StopMark, DeleteMark, IInv, LockInv, ClientOK, Handling
  <2>2. PICK ks : Mark(c, ws[c], ks)
    BY <1>1 DEF StopMark, DeleteMark
  <2>3. UNCHANGED <<table, status, restarts, req, made, items, closing, estop>>
    BY <1>1 DEF StopMark, DeleteMark, wsVars
  <2> QED
    BY <2>1, <2>2, <2>3, MarkAsks, Steps
<1>2. ASSUME NEW n \in Nodes, NEW k \in Names, NEW r \in Requests, RunAccepted(c, n, k, r)
      PROVE  Simulated
  <2>1. Service!Run(<<ws[c], k>>, r)
    BY <1>2, RunStep
  <2>2. <<ws[c], k>> \in Places
    BY <1>2 DEF RunAccepted, IInv, LockInv, ClientOK, Handling, Places
  <2> QED
    BY <2>1, <2>2, Steps
<1>3. CASE DeleteRemove(c)
  <2>1. ws[c] \in Workspaces
    BY <1>3 DEF DeleteRemove, IInv, LockInv, ClientOK, Handling
  <2> QED
    BY <1>3, <2>1, RemoveStep, Steps
<1>4. CASE RunRefused(c) \/ StopReturn(c) \/ BuildBegin(c) \/ BuildRefused(c) \/ BuildEnd(c)
  BY <1>4, Unseen DEF RunRefused, StopReturn, BuildBegin, BuildRefused, BuildEnd, wsVars, nodeVars
<1> QED
  BY <1>1, <1>2, <1>3, <1>4 DEF Handler

LEMMA SimulationStep == ASSUME IInv, Unused, [Next]_vars PROVE Simulated
<1>1. ASSUME NEW c \in Clients, NEW op \in {"run", "stop", "delete", "build"}, Receive(c, op)
      PROVE  Simulated
  BY <1>1, Unseen DEF Receive, wsVars, nodeVars
<1>2. ASSUME NEW c \in Clients, Create(c) PROVE Simulated
  BY <1>2, RegistrySteps, Steps DEF Create, nodeVars
<1>3. ASSUME NEW n \in Nodes, NEW g \in Gens, ProcessExit(n, g) \/ ProcessDies(n, g)
      PROVE  Simulated
  BY <1>3, Unseen DEF ProcessExit, ProcessDies, wsVars, nodeVars
<1>4. ASSUME NEW n \in Nodes, NEW g \in Gens, Capture(n, g) PROVE Simulated
  <2>1. Active(n)
    BY <1>4 DEF Capture, CaptureExit, RestartWake, IInv, NodeInv, NodeOK, GenOK, Active
  <2>2. Place(n) \in Places
    BY <2>1, NodeShown
  <2> QED
    BY <1>4, <2>2, CaptureStep, Steps
<1>5. ASSUME NEW t \in Threads, Stopping(t) PROVE Simulated
  BY <1>5, Unseen DEF Stopping, NodeDone, TermTimeout, KillTimeout, wsVars, nodeVars
<1>6. ASSUME NEW t \in Sweepers, SweepMark(t) PROVE Simulated
  <2>1. PICK w \in Workspaces : Mark(t, w, Names)
    BY <1>6 DEF SweepMark, Sweepers, Threads, IInv, TypeOK, ThreadTypes
  <2>2. UNCHANGED <<table, status, restarts, req, made, items, closing, estop>>
    BY <1>6 DEF SweepMark, wsVars
  <2> QED
    BY <2>1, <2>2, MarkAsks, Steps
<1>7. ASSUME NEW t \in Sweepers, SweepReturn(t) \/ SweepEnd(t) PROVE Simulated
  BY <1>7, Unseen DEF SweepReturn, SweepEnd, wsVars, nodeVars
<1>8. CASE SafetyTick \/ CloseAdmission
  BY <1>8, RegistrySteps, Steps DEF SafetyTick, CloseAdmission, wsVars, nodeVars
<1>9. CASE SafetySnapshot \/ SafetyHalt \/ CloseBegin \/ UNCHANGED vars
  BY <1>9, Unseen DEF SafetySnapshot, SafetyHalt, CloseBegin, vars, wsVars, nodeVars
<1> QED
  BY <1>1, <1>2, <1>3, <1>4, <1>5, <1>6, <1>7, <1>8, <1>9, HandlerStep DEF Next, Sweeping

(* What a client sees of the service is a behaviour of NodeService: the    *)
(* goroutines of process.go, server.go and safety.go together run, restart *)
(* and end the node of each name, one node at a time, as if there were no  *)
(* goroutines.                                                             *)
THEOREM SupervisorImplementsService == Spec => ImplementsService
<1>1. Init => Unused /\ Service!Init
  <2> SUFFICES ASSUME Init PROVE Unused /\ Service!Init
    OBVIOUS
  <2>1. Unused
    BY DEF Init, Unused
  <2>2. Mode = "open"
    BY DEF Init, Mode
  <2>3. ASSUME NEW p \in Places PROVE Shown(p[1], p[2]) = Entry("absent", 0, FALSE, None)
    BY <2>3 DEF Init, Shown, Entry, Places
  <2>4. View = [p \in Places |-> Entry("absent", 0, FALSE, None)]
    BY <2>3 DEF View
  <2>5. items \in SUBSET Workspaces /\ made = items
    BY DEF Init
  <2> QED
    BY <2>1, <2>2, <2>4, <2>5, Zenon
    DEF Service!Init, Service!Entry, Service!Places, View, Mode, Places, Entry
<1>2. IInv /\ Unused /\ [Next]_vars => Unused'
  BY UnusedStep
<1>3. IInv /\ Unused /\ [Next]_vars => [Service!Next]_(Service!vars)
  BY SimulationStep DEF Simulated
<1> QED
  BY <1>1, <1>2, <1>3, Inductive, PTL DEF Spec, ImplementsService, Service!Spec
=============================================================================
