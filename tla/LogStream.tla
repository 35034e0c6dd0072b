----------------------------- MODULE LogStream -----------------------------
(***************************************************************************)
(* The log of one workspace and the page that follows it: the bounded      *)
(* buffer filled by Server.log, the WebSocket goroutine that copies it     *)
(* every 250 ms (pkg/server/websocket.go), and the client that reconnects  *)
(* and drops what it has already shown (frontend/src/main.tsx).            *)
(*                                                                         *)
(* An entry is its sequence number, which starts again with the service,   *)
(* and an identity of its own, the place it has in the whole history.      *)
(* Other events, pings and the backoff of the client's timer are left out; *)
(* a missed deadline of either side is a loss of the connection.           *)
(***************************************************************************)
EXTENDS Naturals, Sequences

CONSTANTS
  LogLimit,     \* The entries a workspace keeps (1000 in the code).
  ShownLimit,   \* The entries the page keeps (500).
  MaxEntries,   \* Bound: entries logged.
  MaxFaults,    \* Bound: connections lost and pages loaded again.
  MaxRestarts   \* Bound: restarts of the service.

ASSUME LimitAssumption == LogLimit \in Nat \ {0} /\ ShownLimit \in Nat \ {0}
ASSUME BoundAssumption == MaxEntries \in Nat /\ MaxFaults \in Nat /\ MaxRestarts \in Nat

VARIABLES
  \* the service
  items,     \* the workspace is registered in Server.items
  sequence,  \* Workspace.Sequence
  logs,      \* Workspace.Logs; its order is that of the sequence numbers
  cursor,    \* the local variable sequence of stream()
  outbox,    \* events collected by stream() and not written yet
  \* the connection
  conn, wire,
  \* the page
  last, shown,
  \* history: entries logged, those shown since the page was loaded
  made, seen, faults, restarts

serviceVars == <<items, sequence, logs>>
streamVars  == <<cursor, outbox>>
pageVars    == <<last, shown, seen>>
boundVars   == <<made, faults, restarts>>
vars        == <<serviceVars, streamVars, conn, wire, pageVars, boundVars>>

Entries == [sequence: 1 .. MaxEntries, id: 1 .. MaxEntries]

Distinct(E) == \A e, f \in E : e.sequence = f.sequence => e = f

TypeOK ==
  /\ items \in BOOLEAN
  /\ sequence \in 0 .. MaxEntries
  /\ logs \subseteq Entries /\ Distinct(logs)
  /\ \A e \in logs : e.sequence \in (sequence - LogLimit + 1) .. sequence
  /\ cursor \in 0 .. MaxEntries
  /\ outbox \subseteq Entries
  /\ conn \in {"closed", "open", "subscribed", "closing"}
  /\ wire \in Seq(Entries)
  /\ last \in 0 .. MaxEntries
  /\ shown \in Seq(1 .. MaxEntries) /\ Len(shown) <= ShownLimit
  /\ seen \subseteq 1 .. MaxEntries
  /\ made \in 0 .. MaxEntries /\ faults \in 0 .. MaxFaults /\ restarts \in 0 .. MaxRestarts

Init ==
  /\ items = TRUE /\ sequence = 0 /\ logs = {}
  /\ cursor = 0 /\ outbox = {}
  /\ conn = "closed" /\ wire = <<>>
  /\ last = 0 /\ shown = <<>>
  /\ made = 0 /\ seen = {} /\ faults = 0 /\ restarts = 0

-----------------------------------------------------------------------------
(* The service.                                                            *)

BugTrimmed(E) == {e \in E : e.sequence + LogLimit >= sequence'}  \* one too many
Trimmed(E)    == {e \in E : e.sequence + LogLimit > sequence'}

(* Server.log *)
Log ==
  /\ made < MaxEntries
  /\ made' = made + 1
  /\ sequence' = sequence + 1
  /\ logs' = Trimmed(logs \union {[sequence |-> sequence', id |-> made']})
  /\ UNCHANGED <<items, streamVars, conn, wire, pageVars, faults, restarts>>

(* DELETE of the workspace. *)
Delete ==
  /\ items /\ items' = FALSE
  /\ UNCHANGED <<sequence, logs, streamVars, conn, wire, pageVars, boundVars>>

Broken == IF conn = "closed" THEN "closed" ELSE "closing"

(* The service ends and starts again: New() reads the workspace from its   *)
(* file, which has neither Logs nor Sequence.                              *)
Restart ==
  /\ restarts < MaxRestarts /\ restarts' = restarts + 1
  /\ sequence' = 0 /\ logs' = {}
  /\ outbox' = {} /\ conn' = Broken
  /\ UNCHANGED <<items, cursor, wire, pageVars, made, faults>>

-----------------------------------------------------------------------------
(* stream().                                                               *)

BugFrom == sequence     \* only what is logged from now on
From    == 0

Subscribe ==
  /\ conn = "open"
  /\ conn' = "subscribed" /\ cursor' = From /\ outbox' = {}
  /\ UNCHANGED <<serviceVars, wire, pageVars, boundVars>>

(* A tick, under Server.mu. *)
Collect ==
  /\ conn = "subscribed" /\ outbox = {} /\ items
  /\ outbox' = {e \in logs : e.sequence > cursor}
  /\ cursor' \in {e.sequence : e \in outbox'} \union {cursor}
  /\ \A e \in outbox' : e.sequence <= cursor'
  /\ UNCHANGED <<serviceVars, conn, wire, pageVars, boundVars>>

Hangup ==
  /\ conn = "subscribed" /\ outbox = {} /\ ~items
  /\ conn' = "closing"
  /\ UNCHANGED <<serviceVars, streamVars, wire, pageVars, boundVars>>

(* WriteJSON, in the order of the buffer. *)
Write ==
  /\ conn = "subscribed"
  /\ \E e \in outbox :
       /\ \A f \in outbox : e.sequence <= f.sequence
       /\ outbox' = outbox \ {e}
       /\ wire' = Append(wire, e)
  /\ UNCHANGED <<serviceVars, cursor, conn, pageVars, boundVars>>

(* A failed write or read, a deadline, a network that went away. *)
Lose ==
  /\ faults < MaxFaults /\ faults' = faults + 1
  /\ conn \in {"open", "subscribed"}
  /\ conn' = "closing" /\ outbox' = {}
  /\ UNCHANGED <<serviceVars, cursor, wire, pageVars, made, restarts>>

-----------------------------------------------------------------------------
(* The page.                                                               *)

BugRetries == faults = 0         \* onclose sets no timer
Retries    == TRUE

(* connect(), at once or from the timer; it fails without a workspace. *)
Connect ==
  /\ conn = "closed" /\ items /\ Retries
  /\ conn' = "open"
  /\ UNCHANGED <<serviceVars, streamVars, wire, pageVars, boundVars>>

BugFresh(e) == TRUE             \* every connection shows the buffer again
Fresh(e)    == e.sequence > last

Latest(s) == IF Len(s) > ShownLimit THEN Tail(s) ELSE s

(* onmessage *)
Deliver ==
  /\ wire # <<>>
  /\ LET e == Head(wire) IN
     \/ /\ Fresh(e)
        /\ last' = e.sequence
        /\ shown' = Latest(Append(shown, e.id))
        /\ seen' = seen \union {e.id}
     \/ ~Fresh(e) /\ UNCHANGED pageVars
  /\ wire' = Tail(wire)
  /\ UNCHANGED <<serviceVars, streamVars, conn, boundVars>>

(* onclose; what was in flight is lost. *)
OnClose ==
  /\ conn = "closing"
  /\ conn' = "closed" /\ wire' = <<>>
  /\ UNCHANGED <<serviceVars, streamVars, pageVars, boundVars>>

(* The effect runs again: the page was loaded, or the workspace selected. *)
Reload ==
  /\ faults < MaxFaults /\ faults' = faults + 1
  /\ last' = 0 /\ shown' = <<>> /\ seen' = {}
  /\ conn' = "closed" /\ wire' = <<>> /\ outbox' = {}
  /\ UNCHANGED <<serviceVars, cursor, made, restarts>>

Next ==
  \/ Log \/ Delete \/ Restart
  \/ Subscribe \/ Collect \/ Hangup \/ Write \/ Lose
  \/ Connect \/ Deliver \/ OnClose \/ Reload

Spec == Init /\ [][Next]_vars

(* Goroutines and timers run, frames arrive, a lost connection is noticed. *)
Fairness ==
  /\ WF_vars(Subscribe) /\ WF_vars(Collect) /\ WF_vars(Hangup) /\ WF_vars(Write)
  /\ WF_vars(Connect) /\ WF_vars(Deliver) /\ WF_vars(OnClose)

FairSpec == Spec /\ Fairness

-----------------------------------------------------------------------------
(* main.tsx shows an entry when v.sequence > last: across reconnections,   *)
(* each with a stream that starts over, and across restarts of the         *)
(* service, the console shows no entry twice and none out of order.        *)
ShownInOrder == \A i, j \in DOMAIN shown : i < j => shown[i] < shown[j]

Missing == {e \in logs : e.sequence <= last /\ e.id \notin seen}

(* last stands for all the entries up to it: those still in the buffer     *)
(* have been shown, so that the stream loses only what was trimmed before  *)
(* it came by.  A restart of the service breaks this.                      *)
NothingSkipped == restarts = 0 => Missing = {}

(* design-original.md: "WebSocket connections deliver log streams".  It    *)
(* does not hold: a page that stays open while the service restarts keeps  *)
(* last, and drops the new entries until their numbers have caught up.     *)
StreamsDeliver == Missing = {}

(* Every entry is shown in the end, through any number of lost connections *)
(* and slow writes, unless it was trimmed or its workspace deleted, or the *)
(* service was restarted: StreamsDeliver shows what happens then.          *)
EntriesArrive ==
  \A i \in 1 .. MaxEntries :
    made >= i ~> \/ i \in seen \/ i \notin {e.id : e \in logs}
                 \/ ~items \/ restarts > 0
=============================================================================
