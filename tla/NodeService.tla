----------------------------- MODULE NodeService -----------------------------
(***************************************************************************)
(* What the service promises to a client that lists its workspaces and the *)
(* node last run under each name there, whatever goroutines, processes and *)
(* locks it is made of.  A node is run once and ends once; between the two *)
(* it may be restarted within the order it was run with, until it is told  *)
(* to stop or the service closes.  A workspace leaves the list only when   *)
(* all its busy nodes have been told to stop, and never comes back.  That  *)
(* a node was told to stop is not shown, but whoever told it knows.        *)
(***************************************************************************)
EXTENDS Naturals

CONSTANTS Workspaces, Names, Requests, None

VARIABLES
  known,   \* the workspaces there have ever been
  listed,  \* those a client finds
  mode,    \* "open", "tripped" by an E-Stop, or "closed"
  shown    \* for each workspace and name, what there is to know of its node

vars == <<known, listed, mode, shown>>

Places  == Workspaces \X Names

Entry(status, restarts, asked, order) ==
  [status |-> status, restarts |-> restarts, asked |-> asked, order |-> order]

Busy(p) == shown[p].status \in {"running", "starting"}

Init ==
  /\ listed \in SUBSET Workspaces /\ known = listed
  /\ mode = "open"
  /\ shown = [p \in Places |-> Entry("absent", 0, FALSE, None)]

Register ==
  /\ mode # "closed"
  /\ \E w \in Workspaces \ known : known' = known \union {w} /\ listed' = listed \union {w}
  /\ UNCHANGED <<mode, shown>>

Run(p, r) ==
  /\ mode = "open" /\ p[1] \in listed /\ ~Busy(p)
  /\ shown' = [shown EXCEPT ![p] = Entry("running", 0, FALSE, r)]
  /\ UNCHANGED <<known, listed, mode>>

(* A generation has ended and another one is due. *)
Fall(p) ==
  LET s == shown[p] IN
  /\ mode # "closed" /\ s.status = "running" /\ ~s.asked
  /\ s.order.restart # "never" /\ s.restarts < s.order.max
  /\ shown' = [shown EXCEPT ![p] = Entry("starting", s.restarts + 1, s.asked, s.order)]
  /\ UNCHANGED <<known, listed, mode>>

Rise(p) ==
  LET s == shown[p] IN
  /\ mode # "closed" /\ p[1] \in listed /\ s.status = "starting" /\ ~s.asked
  /\ shown' = [shown EXCEPT ![p] = Entry("running", s.restarts, s.asked, s.order)]
  /\ UNCHANGED <<known, listed, mode>>

(* An end that was asked for is no error; that of a native node is one     *)
(* which may trip the service.                                             *)
End(p) ==
  LET s == shown[p] IN
  /\ Busy(p)
  /\ \E last \in {"stopped", "error"} :
       /\ last = "error" => ~s.asked
       /\ shown' = [shown EXCEPT ![p] = Entry(last, s.restarts, s.asked, s.order)]
       /\ \/ UNCHANGED mode
          \/ last = "error" /\ s.order.mode = "native" /\ mode = "open" /\ mode' = "tripped"
  /\ UNCHANGED <<known, listed>>

(* Some busy nodes of a workspace are told to stop, at once. *)
Ask(w) ==
  /\ \E P \in SUBSET {p \in Places : p[1] = w /\ Busy(p)} :
       shown' = [p \in Places |->
                   LET s == shown[p] IN
                   IF p \in P THEN Entry(s.status, s.restarts, TRUE, s.order) ELSE s]
  /\ UNCHANGED <<known, listed, mode>>

Remove(w) ==
  /\ \A p \in Places : p[1] = w /\ Busy(p) => shown[p].asked
  /\ listed' = listed \ {w}
  /\ UNCHANGED <<known, mode, shown>>

Trip  == mode = "open" /\ mode' = "tripped" /\ UNCHANGED <<known, listed, shown>>
Close == mode' = "closed" /\ UNCHANGED <<known, listed, shown>>

Next ==
  \/ Register \/ Trip \/ Close
  \/ \E w \in Workspaces : Ask(w) \/ Remove(w)
  \/ \E p \in Places : Fall(p) \/ Rise(p) \/ End(p) \/ \E r \in Requests : Run(p, r)

Spec == Init /\ [][Next]_vars
=============================================================================
