-------------------------- MODULE LogStreamProofs --------------------------
(***************************************************************************)
(* Proofs about the log stream, for every size of the buffers and any      *)
(* number of entries, lost connections, reloads and restarts.              *)
(***************************************************************************)
EXTENDS LogStream, TLAPS

Flying == {wire[i] : i \in DOMAIN wire}
Coming == outbox \union logs

(* Where two entries that may still be delivered are ordered by sequence,  *)
(* they are ordered by age; what the page would accept is newer than all   *)
(* it shows.                                                               *)
Later(e, f) == e.sequence < f.sequence => e.id < f.id

OrderInv ==
  /\ sequence <= made /\ \A e \in Coming : e.sequence <= sequence
  /\ \A e \in Flying \union Coming : e.id <= made
  /\ \A i \in DOMAIN shown : shown[i] <= made
  /\ ShownInOrder
  /\ \A e \in Flying \union Coming :
       Fresh(e) => \A i \in DOMAIN shown : shown[i] < e.id
  /\ \A i, j \in DOMAIN wire : i < j => Later(wire[i], wire[j])
  /\ \A e \in Flying, f \in Coming : Later(e, f)
  /\ \A e, f \in Coming : Later(e, f)

(* Until the service restarts, an entry is its sequence number, and those  *)
(* in the buffer were shown, are on their way, or have yet to be           *)
(* collected.                                                              *)
Passed(f) == f.sequence <= last \/ f \in Flying

NoGapInv ==
  restarts = 0 =>
    /\ sequence = made /\ last <= sequence /\ cursor <= sequence
    /\ \A e \in Flying \union Coming : e.sequence = e.id
    /\ \A i, j \in DOMAIN wire : i < j => wire[i].sequence < wire[j].sequence
    /\ \A e \in Flying, f \in outbox : e.sequence < f.sequence
    /\ conn = "subscribed" =>
         /\ \A e \in Flying \union outbox : e.sequence <= cursor
         /\ \A f \in logs : f.sequence <= cursor => Passed(f) \/ f \in outbox
    /\ conn \in {"closed", "open"} => wire = <<>>
    /\ conn # "subscribed" => outbox = {}
    /\ \A e \in Flying, f \in logs : f.sequence <= e.sequence => Passed(f)
    /\ Missing = {}

LogInv == TypeOK /\ OrderInv /\ NoGapInv

-----------------------------------------------------------------------------
(* The wire. *)

LEMMA Indices ==
  ASSUME NEW S, NEW s \in Seq(S)
  PROVE  Len(s) \in Nat /\ \A i \in DOMAIN s : i \in Nat /\ 1 <= i /\ i <= Len(s) /\ s[i] \in S
OBVIOUS

LEMMA Sent ==
  ASSUME NEW S, NEW s \in Seq(S), NEW x \in S
  PROVE  /\ Append(s, x) \in Seq(S)
         /\ DOMAIN Append(s, x) = DOMAIN s \union {Len(s) + 1}
         /\ Append(s, x)[Len(s) + 1] = x
         /\ \A i \in DOMAIN s : Append(s, x)[i] = s[i] /\ i <= Len(s) /\ i \in Nat
OBVIOUS

LEMMA Received ==
  ASSUME NEW S, NEW s \in Seq(S), s # <<>>
  PROVE  /\ Tail(s) \in Seq(S) /\ Len(Tail(s)) = Len(s) - 1
         /\ 1 \in DOMAIN s /\ Head(s) = s[1] /\ Head(s) \in S
         /\ \A i \in DOMAIN Tail(s) :
              i \in Nat /\ i + 1 \in DOMAIN s /\ i + 1 > 1 /\ Tail(s)[i] = s[i + 1]
OBVIOUS

LEMMA InFlight ==
  ASSUME wire \in Seq(Entries)
  PROVE  Flying \subseteq Entries /\ (wire = <<>> => Flying = {})
BY DEF Flying

(* What the page shows is cut from the front: t is s and then x, less at   *)
(* most the first.                                                         *)
Cut(s, x, t) ==
  \E d \in {0, 1} : \A i \in DOMAIN t :
    /\ i \in Nat
    /\ \/ i + d \in DOMAIN s /\ t[i] = s[i + d]
       \/ i + d = Len(s) + 1 /\ t[i] = x

LEMMA LatestFacts ==
  ASSUME NEW S, NEW s \in Seq(S), NEW x \in S, Len(s) <= ShownLimit
  PROVE  /\ Latest(Append(s, x)) \in Seq(S) /\ Len(Latest(Append(s, x))) <= ShownLimit
         /\ Cut(s, x, Latest(Append(s, x)))
<1> USE LimitAssumption DEF Cut
<1>1. Append(s, x) \in Seq(S) /\ Append(s, x) # <<>> /\ Len(Append(s, x)) = Len(s) + 1
  OBVIOUS
<1>2. CASE Len(Append(s, x)) > ShownLimit
  <2>1. Latest(Append(s, x)) = Tail(Append(s, x))
    BY <1>2 DEF Latest
  <2>2. \A i \in DOMAIN Tail(Append(s, x)) :
          /\ i \in Nat /\ Tail(Append(s, x))[i] = Append(s, x)[i + 1]
          /\ i + 1 \in DOMAIN s \/ i + 1 = Len(s) + 1
    BY <1>1
  <2> QED
    BY <1>1, <2>1, <2>2
<1>3. CASE Len(Append(s, x)) <= ShownLimit
  <2>1. Latest(Append(s, x)) = Append(s, x)
    BY <1>1, <1>3 DEF Latest
  <2>2. \A i \in DOMAIN Append(s, x) :
          i \in Nat /\ (i + 0 \in DOMAIN s \/ i + 0 = Len(s) + 1)
    OBVIOUS
  <2> QED
    BY <1>1, <1>3, <2>1, <2>2
<1> QED
  BY <1>1, <1>2, <1>3

-----------------------------------------------------------------------------
(* Types. *)

LEMMA InitLogInv == Init => LogInv
<1> SUFFICES ASSUME Init PROVE LogInv
  OBVIOUS
<1> USE LimitAssumption, BoundAssumption DEF Init
<1>1. TypeOK
  BY DEF TypeOK, Distinct
<1>2. Flying = {} /\ Coming = {} /\ DOMAIN shown = {} /\ DOMAIN wire = {}
  BY DEF Flying, Coming
<1>3. OrderInv
  BY <1>2 DEF OrderInv, ShownInOrder
<1>4. NoGapInv
  BY <1>2 DEF NoGapInv, Missing, Coming
<1> QED
  BY <1>1, <1>3, <1>4 DEF LogInv

LEMMA TypeStep == ASSUME TypeOK, OrderInv, [Next]_vars PROVE TypeOK'
<1>0. sequence <= made
  BY DEF OrderInv
<1> USE LimitAssumption, BoundAssumption DEF TypeOK
<1>1. CASE Log
  <2> DEFINE e == [sequence |-> sequence', id |-> made']
  <2>1. sequence' \in 1 .. MaxEntries /\ made' \in 1 .. MaxEntries
    BY <1>0, <1>1 DEF Log
  <2> QED
    BY <1>1, <2>1 DEF Log, Trimmed, Distinct, Entries, streamVars, pageVars
<1>2. CASE Delete \/ Restart \/ Hangup \/ Lose \/ Connect \/ OnClose \/ Reload
  <2>0. <<>> \in Seq(Entries) /\ <<>> \in Seq(1 .. MaxEntries) /\ Len(<<>>) <= ShownLimit
    OBVIOUS
  <2>1. CASE Delete \/ Hangup \/ Connect \/ OnClose
    <3>1. CASE Delete
      BY <3>1 DEF Delete, Distinct, streamVars, pageVars, boundVars
    <3>2. CASE Hangup
      BY <3>2 DEF Hangup, Distinct, serviceVars, streamVars, pageVars, boundVars
    <3>3. CASE Connect
      BY <3>3 DEF Connect, Distinct, serviceVars, streamVars, pageVars, boundVars
    <3>4. CASE OnClose
      BY <2>0, <3>4 DEF OnClose, Distinct, serviceVars, streamVars, pageVars, boundVars
    <3> QED
      BY <2>1, <3>1, <3>2, <3>3, <3>4
  <2>2. CASE Restart
    BY <2>2 DEF Restart, Broken, Distinct, pageVars
  <2>3. CASE Lose
    BY <2>3 DEF Lose, Distinct, serviceVars, pageVars
  <2>4. CASE Reload
    BY <2>0, <2>4 DEF Reload, Distinct, serviceVars
  <2> QED
    BY <1>2, <2>1, <2>2, <2>3, <2>4
<1>3. CASE Subscribe \/ Collect
  <2>1. CASE Subscribe
    BY <2>1 DEF Subscribe, From, Distinct, serviceVars, pageVars, boundVars
  <2>2. CASE Collect
    <3>1. outbox' \subseteq Entries /\ cursor' \in 0 .. MaxEntries
      BY <2>2 DEF Collect, Entries
    <3> QED
      BY <2>2, <3>1 DEF Collect, Distinct, serviceVars, pageVars, boundVars
  <2> QED
    BY <1>3, <2>1, <2>2
<1>4. CASE Write
  BY <1>4, Sent DEF Write, Distinct, serviceVars, pageVars, boundVars
<1>5. CASE Deliver
  <2>1. wire' \in Seq(Entries) /\ Head(wire) \in Entries
    BY <1>5, Received DEF Deliver
  <2>2. CASE UNCHANGED pageVars
    BY <1>5, <2>1, <2>2 DEF Deliver, Distinct, serviceVars, streamVars, pageVars, boundVars
  <2>3. CASE ~ UNCHANGED pageVars
    <3> DEFINE e == Head(wire)
    <3>1. last' = e.sequence /\ shown' = Latest(Append(shown, e.id)) /\ seen' = seen \union {e.id}
      BY <1>5, <2>3 DEF Deliver
    <3>2. e.sequence \in 1 .. MaxEntries /\ e.id \in 1 .. MaxEntries
      BY <2>1 DEF Entries
    <3>3. shown' \in Seq(1 .. MaxEntries) /\ Len(shown') <= ShownLimit
      BY <3>1, <3>2, LatestFacts
    <3> QED
      <4>1. UNCHANGED <<serviceVars, streamVars, conn, boundVars>>
        BY <1>5 DEF Deliver
      <4>2. last' \in 0 .. MaxEntries
        <5> HIDE DEF e
        <5> QED
          BY <3>1, <3>2
      <4>3. seen' \subseteq 1 .. MaxEntries
        <5> HIDE DEF e
        <5> QED
          BY <3>1, <3>2
      <4> QED
        BY <2>1, <3>3, <4>1, <4>2, <4>3 DEF Distinct, serviceVars, streamVars, boundVars
  <2> QED
    BY <2>2, <2>3
<1>6. CASE UNCHANGED vars
  BY <1>6 DEF vars, Distinct, serviceVars, streamVars, pageVars, boundVars
<1> QED
  BY <1>1, <1>2, <1>3, <1>4, <1>5, <1>6 DEF Next

-----------------------------------------------------------------------------
(* The order of what is shown. *)

LEMMA EntryFacts ==
  ASSUME TypeOK
  PROVE  /\ \A e \in Entries : e.sequence \in Nat /\ e.id \in Nat /\ e.sequence > 0
         /\ Flying \subseteq Entries /\ Coming \subseteq Entries
         /\ \A i \in DOMAIN wire : i \in Nat /\ wire[i] \in Flying
         /\ \A i \in DOMAIN shown : i \in Nat /\ shown[i] \in Nat
         /\ made \in Nat /\ sequence \in Nat /\ last \in Nat /\ cursor \in Nat
<1> USE BoundAssumption DEF TypeOK
<1>1. \A e \in Entries : e.sequence \in Nat /\ e.id \in Nat /\ e.sequence > 0
  BY DEF Entries
<1>2. Flying \subseteq Entries /\ \A i \in DOMAIN wire : i \in Nat /\ wire[i] \in Flying
  BY DEF Flying
<1>3. Coming \subseteq Entries
  BY DEF Coming
<1>4. \A i \in DOMAIN shown : i \in Nat /\ shown[i] \in Nat
  <2>1. shown \in Seq(1 .. MaxEntries)
    OBVIOUS
  <2>2. \A i \in DOMAIN shown : i \in Nat /\ shown[i] \in 1 .. MaxEntries
    BY <2>1
  <2> QED
    BY <2>2
<1>5. made \in Nat /\ sequence \in Nat /\ last \in Nat /\ cursor \in Nat
  OBVIOUS
<1> QED
  BY <1>1, <1>2, <1>3, <1>4, <1>5

(* Entries leave, the page is as it was. *)
LEMMA FewerEntries ==
  ASSUME OrderInv, sequence' <= made', made' = made,
         sequence' = sequence \/ Coming' = {},
         Flying' \subseteq Flying, Coming' \subseteq Coming,
         UNCHANGED <<last, shown>>,
         \A i, j \in DOMAIN wire' : i < j => Later(wire'[i], wire'[j])
  PROVE  OrderInv'
BY DEF OrderInv, ShownInOrder, Fresh, Later

LEMMA OrderStep == ASSUME LogInv, [Next]_vars PROVE OrderInv'
<1> USE DEF LogInv
<1>0. TypeOK /\ TypeOK'
  BY TypeStep
<1>1. CASE Log
  <2> DEFINE new == [sequence |-> sequence', id |-> made']
  <2>1. /\ wire' = wire /\ Flying' = Flying /\ Coming' \subseteq Coming \union {new}
        /\ UNCHANGED <<last, shown>> /\ made' = made + 1 /\ sequence' = sequence + 1
    BY <1>1 DEF Log, Trimmed, streamVars, pageVars, Flying, Coming
  <2>2. new.id = made + 1 /\ new.sequence = sequence + 1
    BY <2>1
  <2>3. \A e \in Flying \union Coming : e.id < new.id /\ e.id \in Nat
    BY <1>0, <2>2, EntryFacts DEF OrderInv
  <2>4. \A i \in DOMAIN shown : shown[i] < new.id /\ shown[i] \in Nat
    BY <1>0, <2>2, EntryFacts DEF OrderInv
  <2>5. made \in Nat /\ sequence \in Nat /\ sequence' <= made'
    BY <1>0, <2>1, EntryFacts DEF OrderInv
  <2>6. \A f \in Coming : f.sequence < new.sequence /\ f.sequence \in Nat
    BY <1>0, <2>2, EntryFacts DEF OrderInv
  <2> HIDE DEF new
  <2>7. \A e \in Coming' : e.sequence <= sequence'
    BY <2>1, <2>2, <2>5, <2>6
  <2>8. \A e \in Flying' \union Coming' : e.id <= made'
    BY <2>1, <2>2, <2>3, <2>5
  <2>9. \A i \in DOMAIN shown' : shown'[i] <= made'
    BY <2>1, <2>2, <2>4, <2>5
  <2>10. \A e \in Flying \union Coming : Later(e, new)
    BY <2>3 DEF Later
  <2>11. \A f \in Coming \union {new} : Later(new, f)
    BY <2>2, <2>5, <2>6 DEF Later
  <2>12. \A e \in Flying' \union Coming' :
           Fresh(e)' => \A i \in DOMAIN shown' : shown'[i] < e.id
    BY <2>1, <2>4 DEF OrderInv, Fresh
  <2>13. ShownInOrder'
    BY <2>1 DEF OrderInv, ShownInOrder
  <2>14. \A i, j \in DOMAIN wire' : i < j => Later(wire'[i], wire'[j])
    BY <2>1 DEF OrderInv
  <2>15. \A e \in Flying', f \in Coming' : Later(e, f)
    BY <2>1, <2>10 DEF OrderInv
  <2>16. \A e, f \in Coming' : Later(e, f)
    BY <2>1, <2>10, <2>11 DEF OrderInv
  <2> QED
    BY <2>5, <2>7, <2>8, <2>9, <2>12, <2>13, <2>14, <2>15, <2>16 DEF OrderInv
<1>2. CASE Delete \/ Restart \/ Subscribe \/ Hangup \/ Lose \/ Connect \/ OnClose \/ UNCHANGED vars
  <2>1. wire' = wire \/ wire' = <<>>
    BY <1>2 DEF Delete, Restart, Subscribe, Hangup, Lose, Connect, OnClose, vars
  <2>2. Flying' \subseteq Flying
    BY <2>1 DEF Flying
  <2>3. Coming' \subseteq Coming
    BY <1>2 DEF Delete, Restart, Subscribe, Hangup, Lose, Connect, OnClose, vars,
       serviceVars, streamVars, Coming
  <2>4. UNCHANGED <<last, shown, made>> /\ sequence' \in {0, sequence}
    BY <1>2 DEF Delete, Restart, Subscribe, Hangup, Lose, Connect, OnClose, vars,
       serviceVars, pageVars, boundVars
  <2>5. sequence' <= made'
    BY <1>0, <2>4, EntryFacts DEF OrderInv
  <2>7. sequence' = sequence \/ Coming' = {}
    BY <1>2 DEF Delete, Restart, Subscribe, Hangup, Lose, Connect, OnClose, vars,
       serviceVars, Coming
  <2>6. \A i, j \in DOMAIN wire' : i < j => Later(wire'[i], wire'[j])
    BY <2>1 DEF OrderInv
  <2> QED
    BY <2>2, <2>3, <2>4, <2>5, <2>6, <2>7, FewerEntries
<1>3. CASE Collect
  <2>1. Coming' \subseteq Coming /\ Flying' = Flying /\ wire' = wire
    BY <1>3 DEF Collect, serviceVars, Coming, Flying
  <2>2. UNCHANGED <<last, shown, made, sequence>>
    BY <1>3 DEF Collect, serviceVars, pageVars, boundVars
  <2> QED
    BY <2>1, <2>2, FewerEntries DEF OrderInv
<1>4. CASE Write
  <2>1. PICK e \in outbox : /\ \A f \in outbox : e.sequence <= f.sequence
                            /\ outbox' = outbox \ {e}
                            /\ wire' = Append(wire, e)
    BY <1>4 DEF Write
  <2>2. UNCHANGED <<last, shown, made, sequence, logs>>
    BY <1>4 DEF Write, serviceVars, pageVars, boundVars
  <2>3. /\ DOMAIN wire' = DOMAIN wire \union {Len(wire) + 1} /\ wire'[Len(wire) + 1] = e
        /\ \A i \in DOMAIN wire : wire'[i] = wire[i] /\ i <= Len(wire) /\ i \in Nat
        /\ Len(wire) \in Nat
    <3>1. wire \in Seq(Entries) /\ e \in Entries
      BY <1>0, <2>1 DEF TypeOK
    <3> QED
      BY <2>1, <3>1, Sent
  <2>4. Flying' = Flying \union {e} /\ Coming' \subseteq Coming /\ e \in Coming
    BY <2>1, <2>2, <2>3 DEF Flying, Coming
  <2>5. \A i, j \in DOMAIN wire' : i < j => Later(wire'[i], wire'[j])
    <3> SUFFICES ASSUME NEW i \in DOMAIN wire', NEW j \in DOMAIN wire', i < j
                 PROVE  Later(wire'[i], wire'[j])
      OBVIOUS
    <3>1. i \in DOMAIN wire /\ wire'[i] = wire[i] /\ wire[i] \in Flying
      BY <2>3 DEF Flying
    <3>2. CASE j \in DOMAIN wire
      BY <2>3, <3>1, <3>2 DEF OrderInv
    <3>3. CASE j = Len(wire) + 1
      BY <2>3, <2>4, <3>1, <3>3 DEF OrderInv
    <3> QED
      BY <2>3, <3>2, <3>3
  <2> QED
    BY <2>2, <2>4, <2>5 DEF OrderInv, ShownInOrder, Fresh, Later
<1>5. CASE Deliver
  <2> DEFINE e == Head(wire)
  <2>1. /\ wire' \in Seq(Entries) /\ 1 \in DOMAIN wire /\ e = wire[1] /\ e \in Entries
        /\ \A i \in DOMAIN wire' :
             i \in Nat /\ i + 1 \in DOMAIN wire /\ i + 1 > 1 /\ wire'[i] = wire[i + 1]
    BY <1>0, <1>5, Received DEF Deliver, TypeOK
  <2>2. UNCHANGED <<made, sequence, logs, outbox>>
    BY <1>5 DEF Deliver, serviceVars, streamVars, boundVars
  <2>3. Flying' \subseteq Flying /\ Coming' = Coming /\ e \in Flying
    BY <2>1, <2>2 DEF Flying, Coming
  <2>4. \A i, j \in DOMAIN wire' : i < j => Later(wire'[i], wire'[j])
    BY <2>1 DEF OrderInv
  <2>5. \A f \in Flying' \union Coming' : Later(e, f)
    BY <2>1, <2>2, <2>3 DEF OrderInv, Flying
  <2>6. CASE UNCHANGED pageVars
    BY <2>2, <2>3, <2>4, <2>6, FewerEntries DEF pageVars, OrderInv
  <2>7. CASE ~ UNCHANGED pageVars
    <3>1. Fresh(e) /\ last' = e.sequence /\ shown' = Latest(Append(shown, e.id))
      BY <1>5, <2>7 DEF Deliver
    <3>2. e.id \in 1 .. MaxEntries /\ e.id \in Nat
      BY <2>1, BoundAssumption DEF Entries
    <3>3. \A i \in DOMAIN shown : shown[i] < e.id
      BY <2>3, <3>1 DEF OrderInv
    <3>4. PICK d \in {0, 1} : \A i \in DOMAIN shown' :
            /\ i \in Nat
            /\ \/ i + d \in DOMAIN shown /\ shown'[i] = shown[i + d]
               \/ i + d = Len(shown) + 1 /\ shown'[i] = e.id
      <4>1. shown \in Seq(1 .. MaxEntries) /\ Len(shown) <= ShownLimit
        BY <1>0 DEF TypeOK
      <4>2. Cut(shown, e.id, Latest(Append(shown, e.id)))
        <5> HIDE DEF e
        <5> QED
          BY <3>2, <4>1, LatestFacts
      <4>3. Cut(shown, e.id, shown')
        BY <3>1, <4>2
      <4> QED
        BY <4>3 DEF Cut
    <3> HIDE DEF e
    <3>5. \A i \in DOMAIN shown : i \in Nat /\ i <= Len(shown) /\ shown[i] \in Nat
      <4>1. shown \in Seq(1 .. MaxEntries)
        BY <1>0 DEF TypeOK
      <4>2. \A i \in DOMAIN shown : i \in Nat /\ i <= Len(shown) /\ shown[i] \in 1 .. MaxEntries
        BY <4>1, Indices
      <4> QED
        BY <4>2
    <3>6. \A i \in DOMAIN shown' : shown'[i] <= e.id /\ shown'[i] \in Nat
      BY <3>2, <3>3, <3>4, <3>5
    <3>7. ShownInOrder'
      <4> SUFFICES ASSUME NEW i \in DOMAIN shown', NEW j \in DOMAIN shown', i < j
                   PROVE  shown'[i] < shown'[j]
        BY DEF ShownInOrder
      <4>1. i \in Nat /\ j \in Nat /\ Len(shown) \in Nat
        BY <1>0, <3>4 DEF TypeOK
      <4>2. i + d \in DOMAIN shown /\ shown'[i] = shown[i + d]
        <5>1. j + d <= Len(shown) + 1
          BY <3>4, <3>5, <4>1
        <5> QED
          BY <3>4, <4>1, <5>1
      <4>3. CASE j + d \in DOMAIN shown /\ shown'[j] = shown[j + d]
        BY <4>1, <4>2, <4>3 DEF OrderInv, ShownInOrder
      <4>4. CASE shown'[j] = e.id
        BY <3>3, <4>2, <4>4
      <4> QED
        BY <3>4, <4>3, <4>4
    <3>8. \A f \in Flying' \union Coming' :
            Fresh(f)' => \A i \in DOMAIN shown' : shown'[i] < f.id
      <4> SUFFICES ASSUME NEW f \in Flying' \union Coming', Fresh(f)'
                   PROVE  \A i \in DOMAIN shown' : shown'[i] < f.id
        OBVIOUS
      <4>1. f.id \in Nat /\ f.sequence \in Nat /\ e.sequence < f.sequence
        BY <1>0, <2>3, <3>1, EntryFacts DEF Fresh
      <4>2. e.id < f.id
        BY <2>5, <4>1 DEF Later
      <4> QED
        BY <3>2, <3>6, <4>1, <4>2
    <3>9. \A i \in DOMAIN shown' : shown'[i] <= made'
      <4>1. e.id <= made /\ made \in Nat
        BY <1>0, <2>3, EntryFacts DEF OrderInv
      <4> QED
        BY <2>2, <3>2, <3>6, <4>1
    <3> QED
      BY <2>2, <2>3, <2>4, <3>7, <3>8, <3>9 DEF OrderInv
  <2> QED
    BY <2>6, <2>7
<1>6. CASE Reload
  <2>1. /\ Flying' = {} /\ DOMAIN wire' = {} /\ DOMAIN shown' = {}
        /\ Coming' \subseteq Coming /\ UNCHANGED <<made, sequence>>
    BY <1>6 DEF Reload, serviceVars, Flying, Coming
  <2> QED
    BY <2>1 DEF OrderInv, ShownInOrder, Later
<1> QED
  BY <1>1, <1>2, <1>3, <1>4, <1>5, <1>6 DEF Next

-----------------------------------------------------------------------------
(* Nothing is skipped. *)

(* Entries leave the buffer, nothing else moves; the cursor may go to any  *)
(* value that leaves nothing behind.                                       *)
LEMMA GapFrame ==
  ASSUME TypeOK, NoGapInv, restarts = 0,
         UNCHANGED <<last, seen, made, sequence, wire, logs, outbox>>,
         \/ UNCHANGED <<cursor, conn>>
         \/ conn = "closed" /\ conn' = "open" /\ UNCHANGED cursor
         \/ conn = "open" /\ conn' = "subscribed" /\ cursor' = 0
         \/ outbox = {} /\ conn = "subscribed" /\ conn' = "closing" /\ UNCHANGED cursor
  PROVE  NoGapInv'
<1>1. Flying' = Flying /\ Coming' = Coming /\ Missing' = Missing
  BY DEF Flying, Coming, Missing
<1>2. \A f \in logs : f.sequence \in Nat /\ f.sequence > 0
  BY EntryFacts DEF Coming
<1>3. conn' = "open" => wire = <<>>
  BY DEF NoGapInv
<1>4. CASE UNCHANGED <<cursor, conn>>
  BY <1>1, <1>4 DEF NoGapInv, Passed
<1>5. CASE conn = "closed" /\ conn' = "open" /\ UNCHANGED cursor
  BY <1>1, <1>3, <1>5 DEF NoGapInv, Passed
<1>6. CASE conn = "open" /\ conn' = "subscribed" /\ cursor' = 0
  <2>1. wire = <<>> /\ outbox = {} /\ Flying = {} /\ sequence \in Nat
    BY <1>6, InFlight, EntryFacts DEF NoGapInv, TypeOK
  <2> QED
    BY <1>1, <1>2, <1>6, <2>1 DEF NoGapInv, Passed
<1>7. CASE outbox = {} /\ conn = "subscribed" /\ conn' = "closing" /\ UNCHANGED cursor
  BY <1>1, <1>7 DEF NoGapInv, Passed
<1> QED
  BY <1>4, <1>5, <1>6, <1>7

(* What was in flight is lost, or what had been collected. *)
LEMMA GapLoss ==
  ASSUME TypeOK, NoGapInv, restarts = 0,
         UNCHANGED <<seen, made, sequence, logs, cursor>>,
         \/ conn' = "closing" /\ outbox' = {} /\ UNCHANGED <<wire, last>>
         \/ conn' = "closed" /\ outbox' = {} /\ wire' = <<>> /\ UNCHANGED last
  PROVE  NoGapInv'
<1>1. Missing' = Missing
  BY DEF Missing
<1>2. CASE conn' = "closing" /\ outbox' = {} /\ UNCHANGED <<wire, last>>
  <2>1. Flying' = Flying /\ Coming' \subseteq Coming
    BY <1>2 DEF Flying, Coming
  <2> QED
    BY <1>1, <1>2, <2>1 DEF NoGapInv, Passed
<1>3. CASE conn' = "closed" /\ outbox' = {} /\ wire' = <<>> /\ UNCHANGED last
  <2>1. Flying' = {} /\ DOMAIN wire' = {} /\ Coming' \subseteq Coming
    BY <1>3 DEF Flying, Coming
  <2> QED
    BY <1>1, <1>3, <2>1 DEF NoGapInv, Passed
<1> QED
  BY <1>2, <1>3

LEMMA GapLog == ASSUME LogInv, restarts = 0, Log PROVE NoGapInv'
<1> DEFINE new == [sequence |-> sequence', id |-> made']
<1>0. TypeOK /\ sequence \in Nat /\ made = sequence /\ last \in Nat /\ cursor \in Nat
  BY EntryFacts DEF LogInv, NoGapInv
<1>1. /\ made' = made + 1 /\ sequence' = sequence + 1
      /\ logs' \subseteq logs \union {new}
      /\ UNCHANGED <<last, seen, wire, conn, cursor, outbox, restarts>>
  BY DEF Log, Trimmed, streamVars, pageVars
<1>2. Flying' = Flying /\ Coming' \subseteq Coming \union {new}
  BY <1>1 DEF Flying, Coming
<1>3. new.id = sequence + 1 /\ new.sequence = sequence + 1
  BY <1>0, <1>1
<1> HIDE DEF new
<1>4. \A e \in Flying \union Coming : e.id <= made /\ e.sequence = e.id /\ e.sequence \in Nat
  BY <1>0, EntryFacts DEF LogInv, OrderInv, NoGapInv
<1>5. last <= sequence /\ cursor <= sequence
  BY DEF LogInv, NoGapInv
<1>6. Missing' = {}
  BY <1>0, <1>1, <1>3, <1>5 DEF LogInv, NoGapInv, Missing
<1>7. \A e \in Flying', f \in logs' : f.sequence <= e.sequence => Passed(f)'
  BY <1>0, <1>1, <1>2, <1>3, <1>4 DEF LogInv, NoGapInv, Passed
<1>8. conn' = "subscribed" =>
        \A f \in logs' : f.sequence <= cursor' => Passed(f)' \/ f \in outbox'
  BY <1>0, <1>1, <1>2, <1>3, <1>5 DEF LogInv, NoGapInv, Passed
<1>9. sequence' = made' /\ last' <= sequence' /\ cursor' <= sequence'
  BY <1>0, <1>1, <1>5
<1>10. \A e \in Flying' \union Coming' : e.sequence = e.id
  BY <1>2, <1>3, <1>4
<1>11. /\ \A i, j \in DOMAIN wire' : i < j => wire'[i].sequence < wire'[j].sequence
       /\ \A e \in Flying', f \in outbox' : e.sequence < f.sequence
       /\ conn' = "subscribed" => \A e \in Flying' \union outbox' : e.sequence <= cursor'
       /\ conn' \in {"closed", "open"} => wire' = <<>>
       /\ conn' # "subscribed" => outbox' = {}
  BY <1>1, <1>2 DEF LogInv, NoGapInv
<1> QED
  BY <1>6, <1>7, <1>8, <1>9, <1>10, <1>11 DEF NoGapInv

LEMMA GapCollect == ASSUME LogInv, restarts = 0, Collect PROVE NoGapInv'
<1>0. TypeOK /\ cursor \in Nat /\ sequence \in Nat
  BY EntryFacts DEF LogInv
<1>1. /\ conn = "subscribed" /\ outbox = {}
      /\ outbox' = {e \in logs : e.sequence > cursor}
      /\ UNCHANGED <<last, seen, made, sequence, wire, logs, conn, restarts>>
      /\ \A e \in outbox' : e.sequence <= cursor'
      /\ cursor' \in {e.sequence : e \in outbox'} \union {cursor}
  BY DEF Collect, serviceVars, pageVars, boundVars
<1>2. Flying' = Flying /\ Coming' = Coming /\ Missing' = Missing
  BY <1>1 DEF Flying, Coming, Missing
<1>3. \A f \in logs : f.sequence \in Nat /\ f.sequence <= sequence
  BY <1>0, EntryFacts DEF LogInv, OrderInv, Coming
<1>4. cursor <= cursor' /\ cursor' <= sequence /\ cursor' \in Nat
  BY <1>0, <1>1, <1>3 DEF LogInv, NoGapInv
<1>5. \A e \in Flying : e.sequence <= cursor /\ e.sequence \in Nat
  BY <1>0, <1>1, EntryFacts DEF LogInv, NoGapInv
<1>6. \A e \in Flying', f \in outbox' : e.sequence < f.sequence
  BY <1>0, <1>1, <1>2, <1>3, <1>5
<1>7. \A e \in Flying' \union outbox' : e.sequence <= cursor'
  BY <1>0, <1>1, <1>2, <1>4, <1>5
<1>8. \A f \in logs' : f.sequence <= cursor' => Passed(f)' \/ f \in outbox'
  BY <1>0, <1>1, <1>2, <1>3 DEF LogInv, NoGapInv, Passed
<1>9. \A e \in Flying', f \in logs' : f.sequence <= e.sequence => Passed(f)'
  BY <1>1, <1>2 DEF LogInv, NoGapInv, Passed
<1> QED
  BY <1>1, <1>2, <1>4, <1>6, <1>7, <1>8, <1>9 DEF LogInv, NoGapInv

LEMMA GapWrite == ASSUME LogInv, restarts = 0, Write PROVE NoGapInv'
<1>0. TypeOK /\ conn = "subscribed"
  BY DEF LogInv, Write
<1>1. PICK e \in outbox : /\ \A f \in outbox : e.sequence <= f.sequence
                          /\ outbox' = outbox \ {e}
                          /\ wire' = Append(wire, e)
  BY DEF Write
<1>2. UNCHANGED <<last, seen, made, sequence, logs, cursor, conn, restarts>>
  BY DEF Write, serviceVars, pageVars, boundVars
<1>3. /\ DOMAIN wire' = DOMAIN wire \union {Len(wire) + 1} /\ wire'[Len(wire) + 1] = e
      /\ \A i \in DOMAIN wire : wire'[i] = wire[i] /\ i <= Len(wire) /\ i \in Nat
      /\ Len(wire) \in Nat
  <2>1. wire \in Seq(Entries) /\ e \in Entries
    BY <1>0, <1>1 DEF TypeOK
  <2> QED
    BY <1>1, <2>1, Sent
<1>4. /\ Flying' = Flying \union {e} /\ Coming' \subseteq Coming /\ e \in Coming
      /\ Missing' = Missing
  BY <1>1, <1>2, <1>3 DEF Flying, Coming, Missing
<1>5. \A f \in Flying \union Coming : f.sequence \in Nat /\ f.id = f.sequence /\ f \in Entries
  BY <1>0, EntryFacts DEF LogInv, NoGapInv
<1>6. \A f, g \in Entries : f.sequence = g.sequence /\ f.id = g.id => f = g
  BY DEF Entries
<1>7. \A f \in outbox : f # e => e.sequence < f.sequence
  <2>1. \A f \in outbox : f \in Coming /\ e.sequence <= f.sequence
    BY <1>1 DEF Coming
  <2> QED
    BY <1>4, <1>5, <1>6, <2>1
<1>8. \A i, j \in DOMAIN wire' : i < j => wire'[i].sequence < wire'[j].sequence
  <2> SUFFICES ASSUME NEW i \in DOMAIN wire', NEW j \in DOMAIN wire', i < j
               PROVE  wire'[i].sequence < wire'[j].sequence
    OBVIOUS
  <2>1. i \in DOMAIN wire /\ wire'[i] = wire[i] /\ wire[i] \in Flying
    BY <1>3 DEF Flying
  <2>2. CASE j \in DOMAIN wire
    BY <1>3, <2>1, <2>2 DEF LogInv, NoGapInv
  <2>3. CASE j = Len(wire) + 1
    BY <1>1, <1>3, <2>1, <2>3 DEF LogInv, NoGapInv
  <2> QED
    BY <1>3, <2>2, <2>3
<1>9. \A f \in Flying', g \in outbox' : f.sequence < g.sequence
  BY <1>1, <1>4, <1>7 DEF LogInv, NoGapInv
<1>10. \A f \in Flying' \union outbox' : f.sequence <= cursor'
  BY <1>0, <1>1, <1>2, <1>4 DEF LogInv, NoGapInv
<1>11. \A f \in logs' : f.sequence <= cursor' => Passed(f)' \/ f \in outbox'
  BY <1>0, <1>1, <1>2, <1>4 DEF LogInv, NoGapInv, Passed
<1>12. \A f \in Flying', g \in logs' : g.sequence <= f.sequence => Passed(g)'
  <2> SUFFICES ASSUME NEW f \in Flying', NEW g \in logs, g.sequence <= f.sequence
               PROVE  g.sequence <= last \/ g \in Flying'
    BY <1>2 DEF Passed
  <2>1. g.sequence \in Nat /\ g \in Coming
    BY <1>5 DEF Coming
  <2>2. CASE f \in Flying
    BY <1>4, <2>2 DEF LogInv, NoGapInv, Passed
  <2>3. CASE f = e
    <3>1. g.sequence <= cursor
      <4>1. e.sequence <= cursor /\ e.sequence \in Nat /\ cursor \in Nat
        BY <1>0, <1>4, <1>5, EntryFacts DEF LogInv, NoGapInv
      <4> QED
        BY <2>1, <2>3, <4>1
    <3>2. Passed(g) \/ g \in outbox
      BY <1>0, <3>1 DEF LogInv, NoGapInv
    <3>3. CASE g \in outbox
      BY <1>4, <1>5, <1>7, <2>1, <2>3, <3>3
    <3> QED
      BY <1>4, <3>2, <3>3 DEF Passed
  <2> QED
    BY <1>4, <2>2, <2>3
<1>13. \A f \in Flying' \union Coming' : f.sequence = f.id
  BY <1>4, <1>5
<1> QED
  BY <1>0, <1>2, <1>4, <1>8, <1>9, <1>10, <1>11, <1>12, <1>13 DEF LogInv, NoGapInv

LEMMA GapDeliver == ASSUME LogInv, restarts = 0, Deliver PROVE NoGapInv'
<1> DEFINE e == Head(wire)
<1>0. TypeOK /\ last \in Nat /\ sequence \in Nat
  BY EntryFacts DEF LogInv
<1>1. /\ 1 \in DOMAIN wire /\ e = wire[1] /\ e \in Entries
      /\ \A i \in DOMAIN wire' :
           i \in Nat /\ i + 1 \in DOMAIN wire /\ i + 1 > 1 /\ wire'[i] = wire[i + 1]
      /\ Len(wire') = Len(wire) - 1 /\ wire' \in Seq(Entries)
  BY <1>0, Received DEF Deliver, TypeOK
<1>2. UNCHANGED <<made, sequence, logs, cursor, conn, outbox, restarts>>
  BY DEF Deliver, serviceVars, streamVars, boundVars
<1>3. \/ ~Fresh(e) /\ UNCHANGED <<last, seen>>
      \/ Fresh(e) /\ last' = e.sequence /\ seen' = seen \union {e.id}
  BY DEF Deliver, pageVars
<1> HIDE DEF e
<1>4. Flying' \subseteq Flying /\ Coming' = Coming /\ e \in Flying
  BY <1>1, <1>2 DEF Flying, Coming
<1>5. Flying \subseteq Flying' \union {e}
  <2> SUFFICES ASSUME NEW i \in DOMAIN wire, i # 1 PROVE wire[i] \in Flying'
    BY <1>1 DEF Flying
  <2>1. wire \in Seq(Entries)
    BY <1>0 DEF TypeOK
  <2>2. i \in Nat /\ 1 <= i /\ i <= Len(wire) /\ DOMAIN wire' = 1 .. Len(wire')
    BY <1>1, <2>1, Indices
  <2>3. i - 1 \in DOMAIN wire' /\ wire'[i - 1] = wire[(i - 1) + 1]
    BY <1>1, <2>1, <2>2, Indices
  <2> QED
    BY <2>2, <2>3 DEF Flying
<1>6. \A f \in Flying \union Coming : f.sequence \in Nat /\ f.sequence = f.id /\ f.id <= made
  BY <1>0, EntryFacts DEF LogInv, NoGapInv, OrderInv
<1>7. last <= last' /\ e.sequence <= last' /\ last' <= sequence /\ last' \in Nat
  BY <1>0, <1>3, <1>4, <1>6 DEF Fresh, LogInv, NoGapInv
<1>8. \A f \in logs : f.sequence \in Nat /\ (Passed(f) => Passed(f)')
  BY <1>0, <1>5, <1>6, <1>7 DEF Passed, Coming
<1>9. \A f \in Flying' : e.sequence < f.sequence
  <2> SUFFICES ASSUME NEW i \in DOMAIN wire' PROVE e.sequence < wire'[i].sequence
    BY DEF Flying
  <2> QED
    BY <1>1 DEF LogInv, NoGapInv
<1>10. Missing' = {}
  <2> SUFFICES ASSUME NEW f \in logs, f.sequence <= last' PROVE f.id \in seen'
    BY <1>2 DEF Missing
  <2>1. CASE f.sequence <= last
    <3>1. f.id \in seen
      BY <2>1 DEF LogInv, NoGapInv, Missing
    <3> QED
      BY <1>3, <3>1
  <2>2. CASE ~(f.sequence <= last)
    <3>1. Fresh(e) /\ last' = e.sequence /\ seen' = seen \union {e.id}
      BY <1>3, <2>2
    <3>2. f \in Flying
      BY <1>4, <2>2, <3>1 DEF LogInv, NoGapInv, Passed
    <3>3. f = e
      BY <1>4, <1>5, <1>6, <1>9, <3>1, <3>2
    <3> QED
      BY <3>1, <3>3
  <2> QED
    BY <2>1, <2>2
<1>11. \A i, j \in DOMAIN wire' : i < j => wire'[i].sequence < wire'[j].sequence
  <2> SUFFICES ASSUME NEW i \in DOMAIN wire', NEW j \in DOMAIN wire', i < j
               PROVE  wire'[i].sequence < wire'[j].sequence
    OBVIOUS
  <2>1. \A k, l \in DOMAIN wire : k < l => wire[k].sequence < wire[l].sequence
    BY DEF LogInv, NoGapInv
  <2>2. /\ i + 1 \in DOMAIN wire /\ wire'[i] = wire[i + 1]
        /\ j + 1 \in DOMAIN wire /\ wire'[j] = wire[j + 1] /\ i + 1 < j + 1
    BY <1>1
  <2> QED
    BY <2>1, <2>2
<1>12. conn' \in {"closed", "open"} => wire' = <<>>
  <2>1. wire # <<>>
    BY DEF Deliver
  <2> QED
    BY <1>2, <2>1 DEF LogInv, NoGapInv
<1>13. conn' = "subscribed" =>
         /\ \A f \in Flying' \union outbox' : f.sequence <= cursor'
         /\ \A f \in logs' : f.sequence <= cursor' => Passed(f)' \/ f \in outbox'
  BY <1>2, <1>4, <1>8 DEF LogInv, NoGapInv
<1>14. \A g \in Flying', f \in logs' : f.sequence <= g.sequence => Passed(f)'
  BY <1>2, <1>4, <1>8 DEF LogInv, NoGapInv
<1> QED
  BY <1>2, <1>4, <1>7, <1>10, <1>11, <1>12, <1>13, <1>14 DEF LogInv, NoGapInv

LEMMA GapStep == ASSUME LogInv, [Next]_vars PROVE NoGapInv'
<1>0. TypeOK /\ NoGapInv /\ restarts \in Nat
  BY BoundAssumption DEF LogInv, TypeOK
<1>1. CASE restarts # 0
  <2>1. restarts' # 0
    BY <1>0, <1>1 DEF Next, Log, Delete, Restart, Subscribe, Collect, Hangup, Write, Lose,
       Connect, Deliver, OnClose, Reload, vars, boundVars
  <2> QED
    BY <2>1 DEF NoGapInv
<1>2. CASE restarts = 0
  <2>1. CASE Log
    BY <1>2, <2>1, GapLog
  <2>2. CASE Delete \/ Subscribe \/ Hangup \/ Connect \/ UNCHANGED vars
    <3>1. CASE Delete
      BY <1>0, <1>2, <3>1, GapFrame DEF Delete, streamVars, pageVars, boundVars
    <3>2. CASE Subscribe
      <4>1. outbox = {}
        BY <1>2, <3>2 DEF LogInv, NoGapInv, Subscribe
      <4> QED
        BY <1>0, <1>2, <3>2, <4>1, GapFrame DEF Subscribe, From, serviceVars, pageVars, boundVars
    <3>3. CASE Hangup
      BY <1>0, <1>2, <3>3, GapFrame DEF Hangup, serviceVars, streamVars, pageVars, boundVars
    <3>4. CASE Connect
      BY <1>0, <1>2, <3>4, GapFrame DEF Connect, serviceVars, streamVars, pageVars, boundVars
    <3>5. CASE UNCHANGED vars
      BY <1>0, <1>2, <3>5, GapFrame DEF vars, serviceVars, streamVars, pageVars, boundVars
    <3> QED
      BY <2>2, <3>1, <3>2, <3>3, <3>4, <3>5
  <2>3. CASE Restart
    BY <1>2, <2>3 DEF Restart, NoGapInv
  <2>4. CASE Collect
    BY <1>2, <2>4, GapCollect
  <2>5. CASE Write
    BY <1>2, <2>5, GapWrite
  <2>6. CASE Lose
    BY <1>0, <1>2, <2>6, GapLoss DEF Lose, serviceVars, pageVars
  <2>7. CASE OnClose
    <3>1. outbox = {}
      BY <1>2, <2>7 DEF LogInv, NoGapInv, OnClose
    <3> QED
      BY <1>0, <1>2, <2>7, <3>1, GapLoss DEF OnClose, serviceVars, streamVars, pageVars, boundVars
  <2>8. CASE Deliver
    BY <1>2, <2>8, GapDeliver
  <2>9. CASE Reload
    <3>1. /\ Flying' = {} /\ DOMAIN wire' = {} /\ outbox' = {} /\ wire' = <<>> /\ conn' = "closed"
          /\ Coming' \subseteq Coming /\ last' = 0 /\ UNCHANGED <<made, sequence, logs, cursor>>
      BY <2>9 DEF Reload, serviceVars, Flying, Coming
    <3>2. Missing' = {}
      <4>1. \A f \in logs : f.sequence \in Nat /\ f.sequence > 0
        BY <1>0, EntryFacts DEF Coming
      <4> QED
        BY <3>1, <4>1 DEF Missing
    <3>3. last' <= sequence'
      BY <1>0, <3>1, EntryFacts
    <3> QED
      BY <1>0, <1>2, <3>1, <3>2, <3>3 DEF NoGapInv
  <2> QED
    BY <2>1, <2>2, <2>3, <2>4, <2>5, <2>6, <2>7, <2>8, <2>9 DEF Next
<1> QED
  BY <1>1, <1>2

-----------------------------------------------------------------------------
LEMMA LogInductive == Spec => []LogInv
<1>1. LogInv /\ [Next]_vars => LogInv'
  BY TypeStep, OrderStep, GapStep DEF LogInv
<1> QED
  BY InitLogInv, <1>1, PTL DEF Spec

(* Every variable keeps its type; the buffers of the service and of the    *)
(* page keep their bounds.                                                 *)
THEOREM LogTypeCorrect == Spec => []TypeOK
<1>1. LogInv => TypeOK
  BY DEF LogInv
<1> QED
  BY LogInductive, <1>1, PTL

(* The console of the page shows no entry twice and none out of order,     *)
(* over any number of connections and restarts of the service.             *)
THEOREM ConsoleInOrder == Spec => []ShownInOrder
<1>1. LogInv => ShownInOrder
  BY DEF LogInv, OrderInv
<1> QED
  BY LogInductive, <1>1, PTL

(* While the service runs, the page never passes over an entry that the    *)
(* buffer still has.                                                       *)
THEOREM NoGaps == Spec => []NothingSkipped
<1>1. LogInv => NothingSkipped
  BY DEF LogInv, NoGapInv, NothingSkipped
<1> QED
  BY LogInductive, <1>1, PTL
=============================================================================
