------------------------ MODULE ApprovalMirrorProofs ------------------------
(***************************************************************************)
(* Proofs about the mirror of over-limit requests (ApprovalMirror), for    *)
(* every number of requests, handlers, deliveries, faults and owner calls. *)
(*                                                                         *)
(* Each statement is first reduced to its effect on the tables and on the  *)
(* handler that runs it.  All effects keep two frames: rows keep key and   *)
(* shape and are not reopened, alerts keep kind and row.  Within them what *)
(* one handler relies on survives the statements of the others, and it     *)
(* remains to see who adds a row, a link, a rejection or an approval.      *)
(***************************************************************************)
EXTENDS ApprovalMirror, DataTheorems

\* What an event on the log says is so: its request and its payment have a
\* service and an amount, and the request it calls rejected is cancelled.
EventTrue(e) ==
    /\ e.name = "SpendRequested" => e.key \in Keys /\ e.shape \in Shapes
    /\ e.name = "Spent" => e.shape \in Shapes
    /\ e.name = "SpendRejected" => /\ e.key \in Keys
                                   /\ request[e.key].state = "cancelled"

\* Every event is true, and delivered no more often than the replays allow.
EventsTrue ==
    \A i \in DOMAIN log : /\ log[i].delivered <= used.replays + 1
                          /\ EventTrue(log[i])

\* A handler between two statements: the row it works on exists, the alert it
\* will link is about that row, and a row it gives the verdict of is decided.
Ready(h) ==
    /\ h.pc # "idle" => h.row \in DOMAIN rows
    /\ h.pc = "backref" => /\ h.alert \in DOMAIN alerts
                           /\ alerts[h.alert].row = h.row
                           /\ alerts[h.alert].kind = "ApprovalRequired"
    /\ h.pc = "flip" => h.kind = "ApprovalApproved"
    /\ h.pc = "clear" => h.alert <= Len(alerts)
    /\ h.pc \in {"clear", "verdict"} => rows[h.row].status # "pending"
    /\ h.pc = "verdict" => h.kind # "none"

HandlersReady == \A w \in Workers : Ready(worker[w])

\* The types, and what the events and the handlers rest on.
Base == TypeOK /\ EventsTrue /\ HandlersReady

\* What an instruction does: an event, not yet delivered, at the log's end.
OnChain ==
    /\ UNCHANGED <<vaultKnown, rows, alerts, worker>>
    /\ request' \in [Keys -> Requests]
    /\ \A k \in Keys : request[k].state = "cancelled"
                       => request'[k].state = "cancelled"
    /\ used' \in Counters
    /\ used'.replays = used.replays
    /\ log' \in Seq(Events)
    /\ \E e \in Events : /\ e.delivered = 0 /\ EventTrue(e)'
                         /\ Extends(log', log, e)

\* Each instruction on chain appends one true event and leaves the tables.
LEMMA ChainSteps == ASSUME Base, Chain PROVE OnChain
<1> USE DEF Base
<1>1. ASSUME NEW k \in Keys, NEW s \in Shapes, request_spend(k, s) PROVE OnChain
  <2> DEFINE e == [name |-> "SpendRequested", key |-> k, shape |-> s, delivered |-> 0]
  <2>1. e \in Events
    BY ApprovalAssumption DEF Events
  <2>2. log' \in Seq(Events) /\ Extends(log', log, e)
    BY <1>1, <2>1, AppendIs DEF request_spend, Emitted, TypeOK
  <2>3. [state |-> "queued", shape |-> s] \in Requests
    BY DEF Requests
  <2>4. request' \in [Keys -> Requests]
    BY <1>1, <2>3 DEF request_spend, TypeOK
  <2>5. \A j \in Keys : request[j].state = "cancelled" => request'[j].state = "cancelled"
    BY <1>1 DEF request_spend, TypeOK
  <2>6. e.delivered = 0 /\ EventTrue(e)'
    BY DEF EventTrue
  <2> HIDE DEF e
  <2> QED BY <1>1, <2>1, <2>2, <2>4, <2>5, <2>6 DEF OnChain, request_spend, TypeOK, tables
<1>2. ASSUME NEW k \in Keys, approve_spend(k) PROVE OnChain
  <2> DEFINE q == [request[k] EXCEPT !.state = "approved"]
  <2>0. request[k].shape \in Shapes /\ q \in Requests
    BY <1>2 DEF approve_spend, TypeOK, Requests
  <2>s. PICK s \in Shapes : s = request[k].shape
    BY <2>0
  <2> DEFINE e == [name |-> "Spent", key |-> None, shape |-> s, delivered |-> 0]
  <2>1. e \in Events
    BY <2>0, ApprovalAssumption DEF Events
  <2>2. log' \in Seq(Events) /\ Extends(log', log, e)
    BY <1>2, <2>s, <2>1, AppendIs DEF approve_spend, Emitted, TypeOK
  <2>3. request' = [request EXCEPT ![k] = q]
    BY <1>2 DEF approve_spend
  <2>6. e.delivered = 0 /\ EventTrue(e)'
    BY <2>0 DEF EventTrue
  <2> HIDE DEF e, q
  <2>4. request' \in [Keys -> Requests]
    BY <2>0, <2>3 DEF TypeOK
  <2>5. \A j \in Keys : request[j].state = "cancelled" => request'[j].state = "cancelled"
    BY <1>2, <2>3 DEF approve_spend, TypeOK
  <2> QED BY <1>2, <2>1, <2>2, <2>4, <2>5, <2>6 DEF OnChain, approve_spend, TypeOK, tables
<1>3. ASSUME NEW k \in Keys, cancel_spend(k) PROVE OnChain
  <2> DEFINE e == [name |-> "SpendRejected", key |-> k, shape |-> None, delivered |-> 0]
             q == [request[k] EXCEPT !.state = "cancelled"]
  <2>0. q \in Requests /\ q.state = "cancelled"
    BY <1>3 DEF cancel_spend, TypeOK, Requests
  <2>1. e \in Events
    BY ApprovalAssumption DEF Events
  <2>2. log' \in Seq(Events) /\ Extends(log', log, e)
    BY <1>3, <2>1, AppendIs DEF cancel_spend, Emitted, TypeOK
  <2>3. request' = [request EXCEPT ![k] = q]
    BY <1>3 DEF cancel_spend
  <2> HIDE DEF q
  <2>4. request' \in [Keys -> Requests] /\ request'[k] = q
    BY <2>0, <2>3 DEF TypeOK
  <2>5. \A j \in Keys : request[j].state = "cancelled" => request'[j].state = "cancelled"
    BY <1>3, <2>0, <2>3 DEF cancel_spend, TypeOK
  <2>6. e.delivered = 0 /\ EventTrue(e)'
    BY <2>0, <2>4 DEF EventTrue
  <2> HIDE DEF e
  <2> QED BY <1>3, <2>1, <2>2, <2>4, <2>5, <2>6 DEF OnChain, cancel_spend, TypeOK, tables
<1>4. ASSUME NEW s \in Shapes, spend(s) PROVE OnChain
  <2> DEFINE e == [name |-> "Spent", key |-> None, shape |-> s, delivered |-> 0]
  <2>1. e \in Events
    BY ApprovalAssumption DEF Events
  <2>2. log' \in Seq(Events) /\ Extends(log', log, e)
    BY <1>4, <2>1, AppendIs DEF spend, Emitted, TypeOK
  <2>6. e.delivered = 0 /\ EventTrue(e)'
    BY DEF EventTrue
  <2>3. /\ used' \in Counters
        /\ used'.replays = used.replays
    <3>1. used.direct + 1 \in 0..MaxDirect
      BY <1>4, ApprovalAssumption DEF spend, TypeOK, Counters
    <3>2. used' = [used EXCEPT !.direct = used.direct + 1]
      BY <1>4 DEF spend
    <3> QED BY <3>1, <3>2, ZenonT(60) DEF TypeOK, Counters
  <2> HIDE DEF e
  <2> QED BY <1>4, <2>1, <2>2, <2>3, <2>6 DEF OnChain, spend, TypeOK, tables
<1> QED BY <1>1, <1>2, <1>3, <1>4 DEF Chain

\* What dispatch does to the log: event i is delivered once more.
DeliveredAgain(i) ==
    /\ used' \in Counters /\ used.replays <= used'.replays
    /\ log' \in Seq(Events)
    /\ \E e \in Events : /\ e.delivered = log[i].delivered + 1
                         /\ e.delivered <= used'.replays + 1
                         /\ e.name = log[i].name /\ e.key = log[i].key
                         /\ e.shape = log[i].shape
                         /\ Differs(log', log, i, e)

\* dispatch delivers its event once more, within the bound on replays.
LEMMA DispatchLog ==
    ASSUME Base, NEW w \in Workers, NEW i \in DOMAIN log, dispatch(w, i)
    PROVE  DeliveredAgain(i)
<1> USE DEF Base
<1>0. i \in 1..Len(log) /\ log[i] \in Events
  BY LenProperties, ElementOfSeq DEF TypeOK
<1>1. log[i].delivered \in Nat /\ log[i].delivered <= used.replays + 1
  BY <1>0, ApprovalAssumption DEF EventsTrue, Events
<1>2. used \in Counters /\ used.replays \in 0..MaxReplays
  BY DEF TypeOK, Counters
<1>3. /\ used' \in Counters /\ used.replays <= used'.replays
      /\ used'.replays \in 0..MaxReplays
      /\ log[i].delivered + 1 <= used'.replays + 1
  <2>1. CASE log[i].delivered = 0
    BY <1>1, <1>2, <2>1, ApprovalAssumption DEF dispatch
  <2>2. CASE log[i].delivered # 0
    <3>1. used.replays + 1 \in 0..MaxReplays
      BY <1>1, <1>2, <2>2, ApprovalAssumption DEF dispatch
    <3>2. used' = [used EXCEPT !.replays = used.replays + 1]
      BY <2>2 DEF dispatch
    <3>3. used' \in Counters
      BY <1>2, <3>1, <3>2, ZenonT(60) DEF Counters
    <3>4. used'.replays = used.replays + 1
      BY <1>2, <3>2 DEF Counters
    <3> QED BY <1>1, <1>2, <3>1, <3>3, <3>4
  <2> QED BY <2>1, <2>2
<1> DEFINE e == [log[i] EXCEPT !.delivered = log[i].delivered + 1]
<1>4. log[i].delivered + 1 \in 0..(MaxReplays + 1)
  BY <1>1, <1>3, ApprovalAssumption
<1>5. e \in Events
  BY <1>0, <1>4, ZenonT(60) DEF Events
<1>6. /\ e.delivered = log[i].delivered + 1 /\ e.name = log[i].name
      /\ e.key = log[i].key /\ e.shape = log[i].shape
  BY <1>0 DEF Events
<1>7. log' = [log EXCEPT ![i] = e]
  BY DEF dispatch
<1> HIDE DEF e
<1>8. log' \in Seq(Events) /\ Differs(log', log, i, e)
  BY <1>5, <1>7, ExceptIs DEF TypeOK
<1> QED BY <1>3, <1>5, <1>6, <1>8 DEF DeliveredAgain

\* The state of a handler.
H(pc, i, a, kind) == [pc |-> pc, row |-> i, alert |-> a, kind |-> kind]

\* Handler w goes on as h, the others stay where they are.
Moved(w, h) ==
    /\ worker' \in [Workers -> Handlers]
    /\ worker'[w] = h
    /\ \A v \in Workers : v # w => worker'[v] = worker[v]

\* A handler that goes on is the only one to move.
LEMMA ContinueMoves ==
    ASSUME TypeOK, NEW w \in Workers, NEW pc, NEW i, NEW a, NEW kind,
           H(pc, i, a, kind) \in Handlers, Continue(w, pc, i, a, kind)
    PROVE  Moved(w, H(pc, i, a, kind))
<1> DEFINE h == H(pc, i, a, kind)
<1>1. worker' = [worker EXCEPT ![w] = h]
  BY DEF Continue, H
<1> HIDE DEF h
<1>2. worker \in [Workers -> Handlers] /\ h \in Handlers
  BY DEF TypeOK, h
<1>3. Moved(w, h)
  BY <1>1, <1>2 DEF Moved
<1> QED BY <1>3 DEF h

\* A handler that ends is the only one to move.
LEMMA FinishMoves ==
    ASSUME TypeOK, NEW w \in Workers, Finish(w) PROVE Moved(w, Idle)
<1>1. Idle \in Handlers
  BY DEF Idle, Handlers
<1>2. worker \in [Workers -> Handlers] /\ worker' = [worker EXCEPT ![w] = Idle]
  BY DEF TypeOK, Finish
<1> QED BY <1>1, <1>2 DEF Moved

\* The tables as sequences: their places, and what is in them.
LEMMA RowFacts ==
    ASSUME TypeOK
    PROVE  /\ Len(rows) \in Nat /\ DOMAIN rows = 1..Len(rows)
           /\ Len(alerts) \in Nat /\ DOMAIN alerts = 1..Len(alerts)
           /\ \A i \in DOMAIN rows : rows[i] \in Rows
           /\ \A a \in DOMAIN alerts : alerts[a] \in Alerts
<1>1. rows \in Seq(Rows) /\ alerts \in Seq(Alerts)
  BY DEF TypeOK
<1> QED BY <1>1, LenProperties, ElementOfSeq

----------------------------------------------------------------------------

\* A row is inserted, for a key that has none or for no key, and w will emit
\* its alert: spend_requested_alert on a new key, POST /api/spends/request.
Opened(w) ==
    \E k \in Keys \cup {None}, s \in Shapes :
       /\ k \in Keys => RowsOf(k) = {}
       /\ rows' \in Seq(Rows) /\ Extends(rows', rows, NewRow(k, s))
       /\ UNCHANGED alerts
       /\ Moved(w, H("emit", Len(rows) + 1, 0, "ApprovalRequired"))

\* The upsert found the key's row: w emits its alert again.
Asked(w) ==
    \E i \in DOMAIN rows :
       UNCHANGED tables /\ Moved(w, H("emit", i, 0, "ApprovalRequired"))

\* The subquery of spend_approved_mirror found a pending row of shape s.
Found(w, s) ==
    \E i \in PendingOf(s) :
       UNCHANGED tables /\ Moved(w, H("flip", i, 0, "ApprovalApproved"))

\* Row i is decided and w clears its alert: decide, spend_rejected_mirror and
\* the update of spend_approved_mirror.
Settled(w, i, status, kind) ==
    /\ i \in DOMAIN rows /\ status \in {"approved", "rejected"}
    /\ rows' \in Seq(Rows)
    /\ Differs(rows', rows, i, [rows[i] EXCEPT !.status = status])
    /\ UNCHANGED alerts
    /\ Moved(w, H("clear", i, rows[i].alert, kind))

\* The INSERT gives the effect Opened.
LEMMA OpensRow ==
    ASSUME TypeOK, NEW w \in Workers, NEW k \in Keys \cup {None}, NEW s \in Shapes,
           k \in Keys => RowsOf(k) = {},
           rows' = Append(rows, NewRow(k, s)), UNCHANGED alerts,
           Continue(w, "emit", Len(rows) + 1, 0, "ApprovalRequired")
    PROVE  Opened(w)
<1>1. NewRow(k, s) \in Rows
  BY DEF NewRow, Rows
<1>2. rows' \in Seq(Rows) /\ Extends(rows', rows, NewRow(k, s))
  BY <1>1, AppendIs DEF TypeOK
<1>3. H("emit", Len(rows) + 1, 0, "ApprovalRequired") \in Handlers
  BY RowFacts DEF H, Handlers
<1>4. Moved(w, H("emit", Len(rows) + 1, 0, "ApprovalRequired"))
  BY <1>3, ContinueMoves
<1> QED BY <1>2, <1>4 DEF Opened

\* The UPDATE of a row's status gives the effect Settled.
LEMMA SettlesRow ==
    ASSUME TypeOK, NEW w \in Workers, NEW i \in DOMAIN rows,
           NEW status \in {"approved", "rejected"},
           NEW kind \in {"none", "ApprovalApproved", "ApprovalRejected"},
           rows' = Decided(i, status), UNCHANGED alerts,
           Continue(w, "clear", i, rows[i].alert, kind)
    PROVE  Settled(w, i, status, kind)
<1> DEFINE r == [rows[i] EXCEPT !.status = status]
<1>0. i \in Nat /\ rows[i] \in Rows /\ rows[i].alert \in Nat
  BY RowFacts DEF Rows
<1>1. r \in Rows
  BY <1>0, ZenonT(60) DEF Rows
<1>2. rows' = [rows EXCEPT ![i] = r] /\ rows \in Seq(Rows)
  BY DEF Decided, TypeOK
<1>3. rows' \in Seq(Rows) /\ Differs(rows', rows, i, r)
  <2> HIDE DEF r
  <2>1. /\ [rows EXCEPT ![i] = r] \in Seq(Rows)
        /\ Differs([rows EXCEPT ![i] = r], rows, i, r)
    BY <1>1, <1>2, ExceptIs
  <2> QED BY <1>2, <2>1
<1>4. H("clear", i, rows[i].alert, kind) \in Handlers
  BY <1>0 DEF H, Handlers
<1>5. Moved(w, H("clear", i, rows[i].alert, kind))
  BY <1>4, ContinueMoves
<1> QED BY <1>3, <1>5 DEF Settled

\* What dispatch does to the tables, for each of the three events.
Delivery(w, i) ==
    /\ worker[w].pc = "idle"
    /\ UNCHANGED <<request, vaultKnown>>
    /\ \/ UNCHANGED <<tables, worker>>
       \/ Opened(w)
       \/ Asked(w)
       \/ log[i].name = "Spent" /\ Found(w, log[i].shape)
       \/ \E j \in DOMAIN rows :
             /\ rows[j].status = "pending" /\ rows[j].key \in Keys
             /\ request[rows[j].key].state = "cancelled"
             /\ Settled(w, j, "rejected", "ApprovalRejected")

\* Every branch of dispatch has one of these effects on the tables.
LEMMA DispatchTables ==
    ASSUME Base, NEW w \in Workers, NEW i \in DOMAIN log, dispatch(w, i)
    PROVE  Delivery(w, i)
<1> USE DEF Base
<1>0. /\ worker[w].pc = "idle" /\ UNCHANGED <<request, vaultKnown, alerts>>
  BY DEF dispatch
<1>1. EventTrue(log[i]) /\ log[i] \in Events
  BY LenProperties, ElementOfSeq DEF EventsTrue, TypeOK
<1>2. CASE log[i].name = "SpendRequested"
  <2>1. spend_requested_alert(w, log[i])
    BY <1>2 DEF dispatch
  <2>2. CASE ~vaultKnown
    BY <1>0, <2>1, <2>2 DEF spend_requested_alert, Delivery, tables
  <2>3. CASE vaultKnown /\ RowsOf(log[i].key) = {}
    <3>1. log[i].key \in Keys /\ log[i].shape \in Shapes
      BY <1>1, <1>2 DEF EventTrue
    <3>2. /\ rows' = Append(rows, NewRow(log[i].key, log[i].shape))
          /\ Continue(w, "emit", Len(rows) + 1, 0, "ApprovalRequired")
      BY <2>1, <2>3 DEF spend_requested_alert
    <3>3. Opened(w)
      BY <1>0, <2>3, <3>1, <3>2, OpensRow
    <3> QED BY <1>0, <3>3 DEF Delivery
  <2>4. CASE vaultKnown /\ RowsOf(log[i].key) # {}
    <3>1. PICK j \in RowsOf(log[i].key) :
             Continue(w, "emit", j, 0, "ApprovalRequired")
      BY <2>1, <2>4 DEF spend_requested_alert
    <3>2. UNCHANGED tables
      BY <1>0, <2>1, <2>4 DEF spend_requested_alert, tables
    <3>3. j \in DOMAIN rows /\ j \in Nat
      BY RowFacts DEF RowsOf
    <3>4. H("emit", j, 0, "ApprovalRequired") \in Handlers
      BY <3>3 DEF H, Handlers
    <3>5. Asked(w)
      BY <3>1, <3>2, <3>3, <3>4, ContinueMoves DEF Asked
    <3> QED BY <1>0, <3>5 DEF Delivery
  <2> QED BY <2>2, <2>3, <2>4
<1>3. CASE log[i].name = "Spent"
  <2>1. spend_approved_mirror(w, log[i])
    BY <1>3 DEF dispatch
  <2>2. UNCHANGED tables
    BY <1>0, <2>1 DEF spend_approved_mirror, tables
  <2>3. CASE PendingOf(log[i].shape) = {}
    BY <1>0, <2>1, <2>2, <2>3 DEF spend_approved_mirror, Delivery
  <2>4. CASE PendingOf(log[i].shape) # {}
    <3> DEFINE S == PendingOf(log[i].shape)  j == Min(S)
    <3>1. S \in SUBSET (1..Len(rows)) /\ Len(rows) \in Nat
      BY RowFacts DEF PendingOf
    <3>2. j \in S
      BY <2>4, <3>1, MinIn
    <3>3. Continue(w, "flip", j, 0, "ApprovalApproved")
      BY <2>1, <2>4 DEF spend_approved_mirror
    <3>4. H("flip", j, 0, "ApprovalApproved") \in Handlers
      BY <3>1, <3>2 DEF H, Handlers
    <3> HIDE DEF j
    <3>5. Moved(w, H("flip", j, 0, "ApprovalApproved"))
      BY <3>3, <3>4, ContinueMoves
    <3>6. Found(w, log[i].shape)
      BY <2>2, <3>2, <3>5 DEF Found
    <3> QED BY <1>0, <1>3, <3>6 DEF Delivery
  <2> QED BY <2>3, <2>4
<1>4. CASE log[i].name = "SpendRejected"
  <2>1. spend_rejected_mirror(w, log[i])
    BY <1>4 DEF dispatch
  <2> DEFINE open == {j \in RowsOf(log[i].key) : rows[j].status = "pending"}
  <2>2. CASE open = {}
    BY <1>0, <2>1, <2>2 DEF spend_rejected_mirror, Delivery, tables
  <2>3. CASE open # {}
    <3>1. PICK j \in open :
             /\ rows' = Decided(j, "rejected")
             /\ Continue(w, "clear", j, rows[j].alert, "ApprovalRejected")
      BY <2>1, <2>3 DEF spend_rejected_mirror
    <3>2. /\ j \in DOMAIN rows /\ rows[j].status = "pending"
          /\ rows[j].key \in Keys /\ request[rows[j].key].state = "cancelled"
      BY <1>1, <1>4 DEF RowsOf, EventTrue
    <3>3. Settled(w, j, "rejected", "ApprovalRejected")
      BY <1>0, <3>1, <3>2, SettlesRow
    <3> QED BY <1>0, <3>2, <3>3 DEF Delivery
  <2> QED BY <2>2, <2>3
<1> QED BY <1>1, <1>2, <1>3, <1>4 DEF Events

\* Nothing on chain changes, and no replay is used up.
OffChain ==
    /\ UNCHANGED chain /\ vaultKnown' \in BOOLEAN
    /\ used' \in Counters /\ used'.replays = used.replays

\* Alerts are marked as read; none is added or changed otherwise.
Seen ==
    /\ UNCHANGED rows
    /\ alerts' \in Seq(Alerts) /\ Len(alerts') = Len(alerts)
    /\ \A a \in DOMAIN alerts : /\ alerts'[a].kind = alerts[a].kind
                                /\ alerts'[a].row = alerts[a].row

\* An alert about w's row is stored.
Told(w, kind, h) ==
    /\ UNCHANGED rows
    /\ alerts' \in Seq(Alerts)
    /\ Extends(alerts', alerts,
               [kind |-> kind, row |-> worker[w].row, read |-> FALSE])
    /\ Moved(w, h)

\* w's alert is linked to w's row.
Linked(w) ==
    /\ UNCHANGED alerts
    /\ rows' \in Seq(Rows)
    /\ Differs(rows', rows, worker[w].row,
               [rows[worker[w].row] EXCEPT !.alert = worker[w].alert])
    /\ Moved(w, Idle)

\* What a handler's later statements do to the tables.
Progress(w) ==
    \/ /\ worker[w].pc = "emit"
       /\ Told(w, "ApprovalRequired",
               H("backref", worker[w].row, Len(alerts) + 1, "ApprovalRequired"))
    \/ worker[w].pc = "backref" /\ Linked(w)
    \/ /\ worker[w].pc = "flip"
       /\ Settled(w, worker[w].row, "approved", "ApprovalApproved")
    \/ /\ worker[w].pc = "clear" /\ Seen
       /\ \/ worker[w].kind = "none" /\ Moved(w, Idle)
          \/ /\ worker[w].kind # "none"
             /\ Moved(w, H("verdict", worker[w].row, worker[w].alert,
                           worker[w].kind))
    \/ worker[w].pc = "verdict" /\ Told(w, worker[w].kind, Idle)

\* Each later statement of a handler has its effect, off chain.
LEMMA ResumeSteps ==
    ASSUME Base, NEW w \in Workers, Resume(w)
    PROVE  OffChain /\ Progress(w)
<1> USE DEF Base
<1>0. /\ worker[w] \in Handlers /\ worker[w].row \in Nat /\ worker[w].alert \in Nat
      /\ Ready(worker[w]) /\ vaultKnown \in BOOLEAN /\ used \in Counters
      /\ rows \in Seq(Rows) /\ alerts \in Seq(Alerts)
      /\ worker[w].kind \in {"none", "ApprovalRequired", "ApprovalApproved",
                             "ApprovalRejected"}
  BY DEF TypeOK, HandlersReady, Handlers
<1>1. CASE EmitRequired(w)
  <2> DEFINE i == worker[w].row
             e == [kind |-> "ApprovalRequired", row |-> i, read |-> FALSE]
             h == H("backref", i, Len(alerts) + 1, "ApprovalRequired")
  <2>1. e \in Alerts /\ h \in Handlers
    BY <1>0, RowFacts DEF Alerts, H, Handlers
  <2>2. alerts' = Append(alerts, e)
    BY <1>1 DEF EmitRequired, Emit
  <2>3. alerts' \in Seq(Alerts) /\ Extends(alerts', alerts, e)
    BY <1>0, <2>1, <2>2, AppendIs
  <2>4. Moved(w, h)
    BY <1>1, <2>1, ContinueMoves DEF EmitRequired
  <2>5. Told(w, "ApprovalRequired", h)
    BY <1>1, <2>3, <2>4 DEF Told, EmitRequired
  <2> QED BY <1>0, <1>1, <2>5 DEF OffChain, Progress, EmitRequired, chain
<1>2. CASE Backref(w)
  <2> DEFINE i == worker[w].row  r == [rows[i] EXCEPT !.alert = worker[w].alert]
  <2>1. i \in DOMAIN rows /\ rows[i] \in Rows
    BY <1>0, <1>2, RowFacts DEF Backref, Ready
  <2>2. r \in Rows
    BY <1>0, <2>1, ZenonT(60) DEF Rows
  <2>3. rows' = [rows EXCEPT ![i] = r]
    BY <1>2 DEF Backref
  <2>4. /\ [rows EXCEPT ![i] = r] \in Seq(Rows)
        /\ Differs([rows EXCEPT ![i] = r], rows, i, r)
    <3> HIDE DEF r, i
    <3> QED BY <1>0, <2>1, <2>2, ExceptIs
  <2>5. Linked(w)
    BY <1>2, <2>3, <2>4, FinishMoves DEF Linked, Backref
  <2> QED BY <1>0, <1>2, <2>5 DEF OffChain, Progress, Backref, chain
<1>3. CASE Flip(w)
  <2>1. worker[w].row \in DOMAIN rows
    BY <1>0, <1>3 DEF Flip, Ready
  <2>2. Settled(w, worker[w].row, "approved", "ApprovalApproved")
    BY <1>3, <2>1, SettlesRow DEF Flip
  <2> QED BY <1>0, <1>3, <2>2 DEF OffChain, Progress, Flip, chain
<1>4. CASE ClearBadge(w)
  <2> DEFINE a == worker[w].alert  r == [alerts[a] EXCEPT !.read = TRUE]
  <2>1. Seen
    <3>1. CASE a = 0
      BY <1>0, <1>4, <3>1 DEF ClearBadge, Seen
    <3>2. CASE a # 0
      <4>1. a \in DOMAIN alerts /\ alerts[a] \in Alerts
        BY <1>0, <1>4, <3>2, RowFacts DEF ClearBadge, Ready
      <4>2. r \in Alerts
        BY <4>1, ZenonT(60) DEF Alerts
      <4>3. r.kind = alerts[a].kind /\ r.row = alerts[a].row
        BY <4>1 DEF Alerts
      <4>4. alerts' = [alerts EXCEPT ![a] = r] /\ UNCHANGED rows
        BY <1>4, <3>2 DEF ClearBadge
      <4> HIDE DEF r, a
      <4>5. /\ [alerts EXCEPT ![a] = r] \in Seq(Alerts)
            /\ Differs([alerts EXCEPT ![a] = r], alerts, a, r)
        BY <1>0, <4>1, <4>2, ExceptIs
      <4> QED BY <4>3, <4>4, <4>5, RowFacts DEF Seen, Differs
    <3> QED BY <3>1, <3>2
  <2>2. CASE worker[w].kind = "none"
    BY <1>0, <1>4, <2>1, <2>2, FinishMoves DEF OffChain, Progress, ClearBadge, chain
  <2>3. CASE worker[w].kind # "none"
    <3>1. H("verdict", worker[w].row, a, worker[w].kind) \in Handlers
      BY <1>0 DEF H, Handlers
    <3>2. Continue(w, "verdict", worker[w].row, a, worker[w].kind)
      BY <1>4, <2>3 DEF ClearBadge
    <3>3. Moved(w, H("verdict", worker[w].row, a, worker[w].kind))
      BY <3>1, <3>2, ContinueMoves
    <3> QED BY <1>0, <1>4, <2>1, <2>3, <3>3 DEF OffChain, Progress, ClearBadge, chain
  <2> QED BY <2>2, <2>3
<1>5. CASE EmitVerdict(w)
  <2> DEFINE e == [kind |-> worker[w].kind, row |-> worker[w].row, read |-> FALSE]
  <2>1. e \in Alerts
    BY <1>0, <1>5 DEF EmitVerdict, Ready, Alerts
  <2>2. alerts' = Append(alerts, e)
    BY <1>5 DEF EmitVerdict, Emit
  <2>3. alerts' \in Seq(Alerts) /\ Extends(alerts', alerts, e)
    BY <1>0, <2>1, <2>2, AppendIs
  <2>4. Told(w, worker[w].kind, Idle)
    BY <1>5, <2>3, FinishMoves DEF Told, EmitVerdict
  <2> QED BY <1>0, <1>5, <2>4 DEF OffChain, Progress, EmitVerdict, chain
<1> QED BY <1>1, <1>2, <1>3, <1>4, <1>5 DEF Resume

\* The owner's calls insert a row, decide a pending one, or read alerts.
LEMMA OwnerSteps ==
    ASSUME Base, Owner
    PROVE  /\ OffChain
           /\ \/ \E w \in Workers : worker[w].pc = "idle" /\ Opened(w)
              \/ \E w \in Workers, i \in DOMAIN rows,
                    status \in {"approved", "rejected"} :
                    /\ worker[w].pc = "idle" /\ rows[i].status = "pending"
                    /\ Settled(w, i, status, "none")
              \/ Seen /\ UNCHANGED worker
<1> USE DEF Base
<1>0. /\ vaultKnown \in BOOLEAN /\ used \in Counters
      /\ rows \in Seq(Rows) /\ alerts \in Seq(Alerts)
  BY DEF TypeOK
<1>1. ASSUME used.owner < MaxOwner, used' = [used EXCEPT !.owner = @ + 1]
      PROVE  used' \in Counters /\ used'.replays = used.replays
  <2>1. used.owner + 1 \in 0..MaxOwner
    BY <1>0, <1>1, ApprovalAssumption DEF Counters
  <2>2. used' = [used EXCEPT !.owner = used.owner + 1]
    BY <1>1
  <2> QED BY <1>0, <2>1, <2>2, ZenonT(60) DEF Counters
<1>2. ASSUME NEW w \in Workers, NEW s \in Shapes, http_request(w, s)
      PROVE  OffChain /\ worker[w].pc = "idle" /\ Opened(w)
  <2>1. Opened(w)
    BY <1>2, OpensRow, ApprovalAssumption DEF http_request
  <2> QED BY <1>0, <1>1, <1>2, <2>1 DEF OffChain, http_request, chain
<1>3. ASSUME NEW w \in Workers, NEW i \in DOMAIN rows,
             NEW status \in {"approved", "rejected"}, decide(w, i, status)
      PROVE  /\ OffChain /\ worker[w].pc = "idle" /\ rows[i].status = "pending"
             /\ Settled(w, i, status, "none")
  <2>1. Settled(w, i, status, "none")
    BY <1>3, SettlesRow DEF decide
  <2> QED BY <1>0, <1>1, <1>3, <2>1 DEF OffChain, decide, chain
<1>4. ASSUME mark_read PROVE OffChain /\ Seen /\ UNCHANGED worker
  <2>1. PICK A : alerts' = [a \in DOMAIN alerts |->
                              [alerts[a] EXCEPT !.read = @ \/ a \in A]]
    BY <1>4 DEF mark_read
  <2>2. ASSUME NEW a \in 1..Len(alerts)
        PROVE  /\ [alerts[a] EXCEPT !.read = @ \/ a \in A] \in Alerts
               /\ [alerts[a] EXCEPT !.read = @ \/ a \in A].kind = alerts[a].kind
               /\ [alerts[a] EXCEPT !.read = @ \/ a \in A].row = alerts[a].row
    <3>1. alerts[a] \in Alerts
      BY <2>2, RowFacts
    <3> QED BY <3>1, ZenonT(60) DEF Alerts
  <2>3. Seen
    <3>1. DOMAIN alerts = 1..Len(alerts) /\ Len(alerts) \in Nat
      BY RowFacts
    <3>2. \A a \in 1..Len(alerts) : /\ alerts'[a] \in Alerts
                                   /\ alerts'[a].kind = alerts[a].kind
                                   /\ alerts'[a].row = alerts[a].row
      BY <2>1, <2>2, <3>1
    <3>3. alerts' = [a \in 1..Len(alerts) |-> alerts'[a]]
      BY <2>1, <3>1
    <3>4. alerts' \in Seq(Alerts) /\ Len(alerts') = Len(alerts)
      BY <3>1, <3>2, <3>3
    <3>5. UNCHANGED rows
      BY <1>4 DEF mark_read
    <3> QED BY <3>1, <3>2, <3>4, <3>5 DEF Seen
  <2> QED BY <1>0, <1>1, <1>4, <2>3 DEF OffChain, mark_read, chain
<1> QED BY <1>2, <1>3, <1>4 DEF Owner

\* A handler that fails leaves the tables as they are.
LEMMA FailSteps ==
    ASSUME Base, NEW w \in Workers, Fail(w)
    PROVE  OffChain /\ UNCHANGED tables /\ Moved(w, Idle)
<1> USE DEF Base
<1>0. vaultKnown \in BOOLEAN /\ used \in Counters
  BY DEF TypeOK
<1>1. used.faults + 1 \in 0..MaxFaults
  BY <1>0, ApprovalAssumption DEF Counters, Fail
<1>2. used' = [used EXCEPT !.faults = used.faults + 1]
  BY DEF Fail
<1>3. used' \in Counters /\ used'.replays = used.replays
  BY <1>0, <1>1, <1>2, ZenonT(60) DEF Counters
<1> QED BY <1>0, <1>3, FinishMoves DEF OffChain, Fail, chain

\* A rejection settles the pending row of a cancelled request.
Rejecting(w) ==
    \E j \in DOMAIN rows :
       /\ rows[j].status = "pending" /\ rows[j].key \in Keys
       /\ request[rows[j].key].state = "cancelled"
       /\ Settled(w, j, "rejected", "ApprovalRejected")

\* The owner settles a pending row.
Deciding(w) ==
    \E i \in DOMAIN rows, status \in {"approved", "rejected"} :
       rows[i].status = "pending" /\ Settled(w, i, status, "none")

\* A handler that was idle does its first statement.
Started(w) ==
    /\ worker[w].pc = "idle"
    /\ Opened(w) \/ Asked(w) \/ (\E s \in Shapes : Found(w, s))
       \/ Rejecting(w) \/ Deciding(w)

\* All that a step does to the tables and the handlers.
TablesStep ==
    \/ UNCHANGED <<tables, worker>>
    \/ Seen /\ UNCHANGED worker
    \/ \E w \in Workers : Started(w)
    \/ \E w \in Workers : Progress(w)
    \/ \E w \in Workers : UNCHANGED tables /\ Moved(w, Idle)

\* The steps that are neither an instruction nor a delivery.
Quiet ==
    /\ OffChain
    /\ \/ UNCHANGED <<tables, worker>>
       \/ Seen /\ UNCHANGED worker
       \/ \E w \in Workers : worker[w].pc = "idle" /\ (Opened(w) \/ Deciding(w))
       \/ \E w \in Workers : Progress(w)
       \/ \E w \in Workers : UNCHANGED tables /\ Moved(w, Idle)

\* Every step is an instruction, a delivery or quiet.
LEMMA Steps ==
    ASSUME Base, [Next]_vars
    PROVE  \/ OnChain
           \/ \E w \in Workers, i \in DOMAIN log : DeliveredAgain(i) /\ Delivery(w, i)
           \/ Quiet
<1>1. CASE Chain
  BY <1>1, ChainSteps
<1>2. CASE IndexVault
  BY <1>2 DEF IndexVault, Quiet, OffChain, Base, TypeOK
<1>3. CASE Deliver
  BY <1>3, DispatchLog, DispatchTables DEF Deliver
<1>4. CASE Owner
  <2>1. OffChain
    BY <1>4, OwnerSteps
  <2>2. \/ \E w \in Workers : worker[w].pc = "idle" /\ Opened(w)
        \/ \E w \in Workers : worker[w].pc = "idle" /\ Deciding(w)
        \/ Seen /\ UNCHANGED worker
    BY <1>4, OwnerSteps DEF Deciding
  <2> QED BY <2>1, <2>2 DEF Quiet
<1>5. ASSUME NEW w \in Workers, Resume(w) PROVE Quiet
  BY <1>5, ResumeSteps DEF Quiet
<1>6. ASSUME NEW w \in Workers, Fail(w) PROVE Quiet
  BY <1>6, FailSteps DEF Quiet
<1>7. CASE UNCHANGED vars
  BY <1>7 DEF vars, Quiet, OffChain, Base, TypeOK
<1> QED BY <1>1, <1>2, <1>3, <1>4, <1>5, <1>6, <1>7 DEF Next

\* Every step changes the tables in one of the ways of TablesStep.
LEMMA TablesSteps ==
    ASSUME Base, [Next]_vars PROVE TablesStep
<1>1. CASE OnChain
  BY <1>1 DEF OnChain, TablesStep, tables
<1>2. ASSUME NEW w \in Workers, NEW i \in DOMAIN log, Delivery(w, i)
      PROVE  TablesStep
  <2>1. log[i].name = "Spent" => log[i].shape \in Shapes
    BY DEF Base, EventsTrue, EventTrue
  <2>2. \/ UNCHANGED <<tables, worker>>
        \/ Opened(w) \/ Asked(w) \/ (\E s \in Shapes : Found(w, s)) \/ Rejecting(w)
    BY <1>2, <2>1 DEF Delivery, Rejecting
  <2>3. worker[w].pc = "idle"
    BY <1>2 DEF Delivery
  <2> QED BY <2>2, <2>3 DEF TablesStep, Started
<1>3. CASE Quiet
  BY <1>3 DEF Quiet, TablesStep, Started
<1> QED BY <1>1, <1>2, <1>3, Steps

----------------------------------------------------------------------------

\* No row disappears, changes its key or shape, or is pending again.
RowsFrame ==
    /\ Len(rows) <= Len(rows') /\ rows' \in Seq(Rows)
    /\ \A i \in DOMAIN rows : /\ i \in DOMAIN rows'
                              /\ rows'[i].key = rows[i].key
                              /\ rows'[i].shape = rows[i].shape
                              /\ rows[i].status # "pending"
                                 => rows'[i].status # "pending"

\* No alert disappears or changes its kind or row.
AlertsFrame ==
    /\ Len(alerts) <= Len(alerts') /\ alerts' \in Seq(Alerts)
    /\ \A a \in DOMAIN alerts : /\ a \in DOMAIN alerts'
                                /\ alerts'[a].kind = alerts[a].kind
                                /\ alerts'[a].row = alerts[a].row

\* An insert keeps the frame.
LEMMA OpenedFrame ==
    ASSUME Base, NEW w \in Workers, Opened(w) PROVE RowsFrame /\ AlertsFrame
<1>1. PICK e : /\ rows' \in Seq(Rows) /\ Extends(rows', rows, e)
               /\ UNCHANGED alerts
  BY DEF Opened
<1>2. /\ Len(rows) \in Nat /\ DOMAIN rows = 1..Len(rows)
      /\ Len(rows') = Len(rows) + 1 /\ DOMAIN rows' = 1..(Len(rows) + 1)
      /\ \A i \in DOMAIN rows : rows'[i] = rows[i]
  BY <1>1, RowFacts DEF Base, Extends
<1>3. RowsFrame
  BY <1>1, <1>2 DEF RowsFrame
<1>4. AlertsFrame
  BY <1>1, RowFacts DEF Base, TypeOK, AlertsFrame
<1> QED BY <1>3, <1>4

\* A decision keeps the frame.
LEMMA SettledFrame ==
    ASSUME Base, NEW w \in Workers, NEW i, NEW status, NEW kind,
           Settled(w, i, status, kind)
    PROVE  RowsFrame /\ AlertsFrame
<1> DEFINE r == [rows[i] EXCEPT !.status = status]
<1>0. /\ i \in DOMAIN rows /\ status # "pending" /\ UNCHANGED alerts
      /\ rows' \in Seq(Rows) /\ Differs(rows', rows, i, r)
  BY DEF Settled
<1>1. rows[i] \in Rows
  BY <1>0, RowFacts DEF Base
<1>2. r.key = rows[i].key /\ r.shape = rows[i].shape /\ r.status = status
  BY <1>1 DEF Rows
<1> HIDE DEF r
<1> QED BY <1>0, <1>2, RowFacts DEF Base, TypeOK, RowsFrame, AlertsFrame, Differs

\* A link keeps the frame.
LEMMA LinkedFrame ==
    ASSUME Base, NEW w \in Workers, worker[w].pc = "backref", Linked(w)
    PROVE  RowsFrame /\ AlertsFrame
<1> DEFINE i == worker[w].row  r == [rows[i] EXCEPT !.alert = worker[w].alert]
<1>0. /\ i \in DOMAIN rows /\ UNCHANGED alerts
      /\ rows' \in Seq(Rows) /\ Differs(rows', rows, i, r)
  BY DEF Linked, Base, HandlersReady, Ready
<1>1. rows[i] \in Rows
  BY <1>0, RowFacts DEF Base
<1>2. r.key = rows[i].key /\ r.shape = rows[i].shape /\ r.status = rows[i].status
  BY <1>1 DEF Rows
<1> HIDE DEF r, i
<1> QED BY <1>0, <1>2, RowFacts DEF Base, TypeOK, RowsFrame, AlertsFrame, Differs

\* A stored alert keeps the frame.
LEMMA ToldFrame ==
    ASSUME Base, NEW w \in Workers, NEW kind, NEW h, Told(w, kind, h)
    PROVE  RowsFrame /\ AlertsFrame
<1>1. PICK e : /\ alerts' \in Seq(Alerts) /\ Extends(alerts', alerts, e)
               /\ UNCHANGED rows
  BY DEF Told
<1>2. /\ Len(alerts) \in Nat /\ DOMAIN alerts = 1..Len(alerts)
      /\ Len(alerts') = Len(alerts) + 1 /\ DOMAIN alerts' = 1..(Len(alerts) + 1)
      /\ \A a \in DOMAIN alerts : alerts'[a] = alerts[a]
  BY <1>1, RowFacts DEF Base, Extends
<1>3. AlertsFrame
  BY <1>1, <1>2 DEF AlertsFrame
<1>4. RowsFrame
  BY <1>1, RowFacts DEF Base, TypeOK, RowsFrame
<1> QED BY <1>3, <1>4

\* Reading alerts keeps the frame.
LEMMA SeenFrame == ASSUME Base, Seen PROVE RowsFrame /\ AlertsFrame
BY RowFacts, LenProperties DEF Base, TypeOK, Seen, RowsFrame, AlertsFrame

\* A step that leaves the tables keeps the frame.
LEMMA SameFrame ==
    ASSUME Base, UNCHANGED tables PROVE RowsFrame /\ AlertsFrame
BY RowFacts DEF Base, TypeOK, tables, RowsFrame, AlertsFrame

\* Every step keeps both frames, whoever takes it.
LEMMA Frames ==
    ASSUME Base, TablesStep PROVE RowsFrame /\ AlertsFrame
<1>1. CASE UNCHANGED <<tables, worker>>
  BY <1>1, SameFrame
<1>2. CASE Seen
  BY <1>2, SeenFrame
<1>3. ASSUME NEW w \in Workers, Started(w) PROVE RowsFrame /\ AlertsFrame
  BY <1>3, OpenedFrame, SettledFrame, SameFrame
     DEF Started, Asked, Found, Rejecting, Deciding
<1>4. ASSUME NEW w \in Workers, Progress(w) PROVE RowsFrame /\ AlertsFrame
  BY <1>4, ToldFrame, LinkedFrame, SettledFrame, SeenFrame DEF Progress
<1>5. CASE UNCHANGED tables
  BY <1>5, SameFrame
<1> QED BY <1>1, <1>2, <1>3, <1>4, <1>5 DEF TablesStep

\* Within the frames a handler that does not move stays ready: what it read
\* before the other's statement still holds after it.
LEMMA StaysReady ==
    ASSUME Base, RowsFrame, AlertsFrame, NEW h \in Handlers, Ready(h)
    PROVE  Ready(h)'
<1>1. h.row \in DOMAIN rows => /\ h.row \in DOMAIN rows'
                               /\ rows[h.row].status # "pending"
                                  => rows'[h.row].status # "pending"
  BY DEF RowsFrame
<1>2. h.alert \in DOMAIN alerts => /\ h.alert \in DOMAIN alerts'
                                   /\ alerts'[h.alert].row = alerts[h.alert].row
                                   /\ alerts'[h.alert].kind = alerts[h.alert].kind
  BY DEF AlertsFrame
<1>3. h.alert <= Len(alerts) => h.alert <= Len(alerts')
  <2>1. Len(alerts) \in Nat /\ h.alert \in Nat /\ Len(alerts') \in Nat
    BY RowFacts, LenProperties DEF Base, Handlers, AlertsFrame
  <2> QED BY <2>1 DEF AlertsFrame
<1> QED BY <1>1, <1>2, <1>3 DEF Ready

\* If the handler that moved is ready, all are.
LEMMA MovedReady ==
    ASSUME Base, RowsFrame, AlertsFrame, NEW w \in Workers, NEW h, Moved(w, h),
           Ready(h)'
    PROVE  HandlersReady' /\ worker' \in [Workers -> Handlers]
<1>1. ASSUME NEW v \in Workers, v # w PROVE Ready(worker[v])'
  <2>1. PICK g \in Handlers : g = worker[v] /\ worker'[v] = g
    BY <1>1 DEF Moved, Base, TypeOK
  <2>2. Ready(g)
    BY <2>1 DEF Base, HandlersReady
  <2>3. Ready(g)'
    BY <2>2, StaysReady
  <2> QED BY <2>1, <2>3 DEF Ready
<1>2. Ready(worker[w])'
  BY DEF Moved, Ready
<1> QED BY <1>1, <1>2 DEF HandlersReady, Moved

\* A handler that ended has nothing to be ready for.
LEMMA IdleReady == Ready(Idle)'
BY DEF Ready, Idle

\* After a decision the handler's row is decided.
LEMMA SettledReady ==
    ASSUME Base, RowsFrame, AlertsFrame, NEW w \in Workers, NEW i, NEW status,
           NEW kind, Settled(w, i, status, kind)
    PROVE  HandlersReady' /\ worker' \in [Workers -> Handlers]
<1>0. /\ i \in DOMAIN rows /\ status # "pending" /\ UNCHANGED alerts
      /\ Differs(rows', rows, i, [rows[i] EXCEPT !.status = status])
  BY DEF Settled
<1>1. PICK h : h = H("clear", i, rows[i].alert, kind) /\ Moved(w, h)
  BY DEF Settled
<1>2. i \in DOMAIN rows' /\ rows'[i].status # "pending"
  <2>1. rows[i] \in Rows /\ DOMAIN rows = 1..Len(rows)
    BY <1>0, RowFacts DEF Base
  <2>2. rows'[i] = [rows[i] EXCEPT !.status = status]
    BY <1>0, <2>1 DEF Differs
  <2>3. rows'[i].status = status
    BY <2>1, <2>2 DEF Rows
  <2> QED BY <1>0, <2>3 DEF RowsFrame
<1>3. rows[i].alert <= Len(alerts')
  BY <1>0 DEF Base, TypeOK
<1>4. Ready(h)'
  BY <1>1, <1>2, <1>3 DEF Ready, H
<1> QED BY <1>1, <1>4, MovedReady

\* Every step leaves every handler ready.
LEMMA NextReady ==
    ASSUME Base, TablesStep
    PROVE  HandlersReady' /\ worker' \in [Workers -> Handlers]
<1> DEFINE G == HandlersReady' /\ worker' \in [Workers -> Handlers]
<1>0. RowsFrame /\ AlertsFrame
  BY Frames
<1>f. /\ Len(rows) \in Nat /\ DOMAIN rows = 1..Len(rows)
      /\ Len(alerts) \in Nat /\ DOMAIN alerts = 1..Len(alerts)
  BY RowFacts DEF Base
<1>1. CASE UNCHANGED worker
  <2>1. ASSUME NEW v \in Workers PROVE Ready(worker[v])'
    <3>1. PICK g \in Handlers : g = worker[v] /\ worker'[v] = g
      BY <1>1 DEF Base, TypeOK
    <3>2. Ready(g)
      BY <3>1 DEF Base, HandlersReady
    <3>3. Ready(g)'
      BY <1>0, <3>2, StaysReady
    <3> QED BY <3>1, <3>3 DEF Ready
  <2> QED BY <1>1, <2>1 DEF HandlersReady, Base, TypeOK
<1>2. ASSUME NEW w \in Workers, Moved(w, Idle) PROVE G
  <2>1. PICK h : h = Idle
    OBVIOUS
  <2>2. Moved(w, h) /\ Ready(h)'
    BY <1>2, <2>1, IdleReady
  <2> QED BY <1>0, <2>2, MovedReady
<1>3. ASSUME NEW w \in Workers, Opened(w) PROVE G
  <2>1. PICK h : /\ h = H("emit", Len(rows) + 1, 0, "ApprovalRequired")
                 /\ Moved(w, h)
    BY <1>3 DEF Opened
  <2>2. Len(rows) + 1 \in DOMAIN rows'
    BY <1>3, <1>f DEF Opened, Extends
  <2>3. Ready(h)'
    BY <2>1, <2>2 DEF Ready, H
  <2> QED BY <1>0, <2>1, <2>3, MovedReady
<1>4. ASSUME NEW w \in Workers, Asked(w) PROVE G
  <2>1. PICK i \in DOMAIN rows : Moved(w, H("emit", i, 0, "ApprovalRequired"))
    BY <1>4 DEF Asked
  <2>2. PICK h : h = H("emit", i, 0, "ApprovalRequired")
    OBVIOUS
  <2>3. Ready(h)'
    BY <1>0, <2>2 DEF Ready, H, RowsFrame
  <2> QED BY <1>0, <2>1, <2>2, <2>3, MovedReady
<1>5. ASSUME NEW w \in Workers, NEW s \in Shapes, Found(w, s) PROVE G
  <2>1. PICK i \in DOMAIN rows : Moved(w, H("flip", i, 0, "ApprovalApproved"))
    BY <1>5 DEF Found, PendingOf
  <2>2. PICK h : h = H("flip", i, 0, "ApprovalApproved")
    OBVIOUS
  <2>3. Ready(h)'
    BY <1>0, <2>2 DEF Ready, H, RowsFrame
  <2> QED BY <1>0, <2>1, <2>2, <2>3, MovedReady
<1>6. ASSUME NEW w \in Workers, Started(w) PROVE G
  BY <1>0, <1>3, <1>4, <1>5, <1>6, SettledReady DEF Started, Rejecting, Deciding
<1>7. ASSUME NEW w \in Workers, Progress(w) PROVE G
  <2>0. worker[w] \in Handlers /\ Ready(worker[w])
    BY DEF Base, TypeOK, HandlersReady
  <2>1. CASE /\ worker[w].pc = "emit"
             /\ Told(w, "ApprovalRequired",
                     H("backref", worker[w].row, Len(alerts) + 1, "ApprovalRequired"))
    <3>1. PICK h : /\ h = H("backref", worker[w].row, Len(alerts) + 1,
                            "ApprovalRequired")
                   /\ Moved(w, h)
      BY <2>1 DEF Told
    <3>2. worker[w].row \in DOMAIN rows'
      BY <1>0, <2>0, <2>1 DEF Ready, RowsFrame
    <3>3. /\ Len(alerts) + 1 \in DOMAIN alerts'
          /\ alerts'[Len(alerts) + 1].row = worker[w].row
          /\ alerts'[Len(alerts) + 1].kind = "ApprovalRequired"
      BY <2>1, <1>f DEF Told, Extends
    <3>4. Ready(h)'
      BY <3>1, <3>2, <3>3 DEF Ready, H
    <3> QED BY <1>0, <3>1, <3>4, MovedReady
  <2>2. CASE worker[w].pc = "backref" /\ Linked(w)
    BY <1>2, <2>2 DEF Linked
  <2>3. CASE Settled(w, worker[w].row, "approved", "ApprovalApproved")
    BY <1>0, <2>3, SettledReady
  <2>4. CASE worker[w].kind = "none" /\ Moved(w, Idle)
    BY <1>2, <2>4
  <2>5. CASE /\ worker[w].pc = "clear" /\ worker[w].kind # "none"
             /\ Moved(w, H("verdict", worker[w].row, worker[w].alert,
                           worker[w].kind))
    <3>1. PICK h : /\ h = H("verdict", worker[w].row, worker[w].alert,
                            worker[w].kind)
                   /\ Moved(w, h)
      BY <2>5
    <3>2. worker[w].row \in DOMAIN rows' /\ rows'[worker[w].row].status # "pending"
      BY <1>0, <2>0, <2>5 DEF Ready, RowsFrame
    <3>3. Ready(h)'
      BY <2>5, <3>1, <3>2 DEF Ready, H
    <3> QED BY <1>0, <3>1, <3>3, MovedReady
  <2>6. CASE Told(w, worker[w].kind, Idle)
    BY <1>2, <2>6 DEF Told
  <2> QED BY <1>7, <2>1, <2>2, <2>3, <2>4, <2>5, <2>6 DEF Progress
<1> QED BY <1>1, <1>2, <1>6, <1>7 DEF TablesStep

\* Where a row's link comes from: none, the old one, or an alert of its own.
OwnLink(i) ==
    \/ rows'[i].alert = 0
    \/ i \in DOMAIN rows /\ rows'[i].alert = rows[i].alert
    \/ \E a \in DOMAIN alerts : /\ rows'[i].alert = a /\ alerts[a].row = i
                                /\ alerts[a].kind = "ApprovalRequired"

\* A new row comes last, and its key had none.
Fresh(i) ==
    /\ i = Len(rows) + 1
    /\ rows'[i].key \in Keys => RowsOf(rows'[i].key) = {}

RowsNow == \A i \in DOMAIN rows' : OwnLink(i) /\ (i \in DOMAIN rows \/ Fresh(i))

AlertsNow ==
    \A a \in DOMAIN alerts' : a \in DOMAIN alerts \/ alerts'[a].row \in DOMAIN rows

\* A decision adds no row and links nothing.
LEMMA SettledNow ==
    ASSUME Base, NEW w \in Workers, NEW i, NEW status, NEW kind,
           Settled(w, i, status, kind)
    PROVE  RowsNow /\ AlertsNow
<1> DEFINE r == [rows[i] EXCEPT !.status = status]
<1>0. /\ i \in DOMAIN rows /\ UNCHANGED alerts /\ Differs(rows', rows, i, r)
  BY DEF Settled
<1>1. rows[i] \in Rows /\ DOMAIN rows = 1..Len(rows)
  BY <1>0, RowFacts DEF Base
<1>2. r.alert = rows[i].alert
  BY <1>1 DEF Rows
<1> HIDE DEF r
<1> QED BY <1>0, <1>1, <1>2 DEF RowsNow, AlertsNow, OwnLink, Differs

\* The new rows, links and alerts of every step.
LEMMA TablesNow == ASSUME Base, TablesStep PROVE RowsNow /\ AlertsNow
<1>f. /\ Len(rows) \in Nat /\ DOMAIN rows = 1..Len(rows)
      /\ Len(alerts) \in Nat /\ DOMAIN alerts = 1..Len(alerts)
      /\ \A i \in DOMAIN rows : rows[i] \in Rows
  BY RowFacts DEF Base
<1>1. ASSUME UNCHANGED rows PROVE RowsNow
  BY <1>1 DEF RowsNow, OwnLink
<1>2. ASSUME UNCHANGED alerts PROVE AlertsNow
  BY <1>2 DEF AlertsNow
<1>3. ASSUME UNCHANGED tables PROVE RowsNow /\ AlertsNow
  BY <1>1, <1>2, <1>3 DEF tables
<1>4. ASSUME Seen PROVE RowsNow /\ AlertsNow
  <2>1. DOMAIN alerts' = DOMAIN alerts
    BY <1>4, <1>f, LenProperties DEF Seen
  <2> QED BY <1>1, <1>4, <2>1 DEF Seen, AlertsNow
<1>5. ASSUME NEW w \in Workers, Opened(w) PROVE RowsNow /\ AlertsNow
  <2>1. PICK k \in Keys \cup {None}, s \in Shapes :
           /\ k \in Keys => RowsOf(k) = {}
           /\ Extends(rows', rows, NewRow(k, s)) /\ UNCHANGED alerts
    BY <1>5 DEF Opened
  <2>2. rows'[Len(rows) + 1].key = k /\ rows'[Len(rows) + 1].alert = 0
    BY <2>1 DEF Extends, NewRow
  <2>3. /\ \A i \in DOMAIN rows : rows'[i] = rows[i]
        /\ \A i \in DOMAIN rows' : i \in DOMAIN rows \/ i = Len(rows) + 1
    BY <2>1, <1>f DEF Extends
  <2>4. RowsNow
    BY <2>1, <2>2, <2>3 DEF RowsNow, OwnLink, Fresh
  <2> QED BY <1>2, <2>1, <2>4
<1>6. ASSUME NEW w \in Workers, NEW kind, NEW h, worker[w].pc # "idle",
             Told(w, kind, h)
      PROVE  RowsNow /\ AlertsNow
  <2>1. worker[w].row \in DOMAIN rows
    BY <1>6 DEF Base, HandlersReady, Ready
  <2>2. /\ alerts'[Len(alerts) + 1].row = worker[w].row
        /\ \A a \in DOMAIN alerts' : a \in DOMAIN alerts \/ a = Len(alerts) + 1
    BY <1>6, <1>f DEF Told, Extends
  <2>3. AlertsNow
    BY <2>1, <2>2 DEF AlertsNow
  <2> QED BY <1>1, <1>6, <2>3 DEF Told
<1>7. ASSUME NEW w \in Workers, worker[w].pc = "backref", Linked(w)
      PROVE  RowsNow /\ AlertsNow
  <2> DEFINE i == worker[w].row  r == [rows[i] EXCEPT !.alert = worker[w].alert]
  <2>1. /\ i \in DOMAIN rows /\ worker[w].alert \in DOMAIN alerts
        /\ alerts[worker[w].alert].row = i
        /\ alerts[worker[w].alert].kind = "ApprovalRequired"
    BY <1>7 DEF Base, HandlersReady, Ready
  <2>2. Differs(rows', rows, i, r) /\ UNCHANGED alerts
    BY <1>7 DEF Linked
  <2>3. r.alert = worker[w].alert
    BY <1>f, <2>1 DEF Rows
  <2> HIDE DEF r, i
  <2>4. DOMAIN rows' = DOMAIN rows
    BY <1>f, <2>2 DEF Differs
  <2>5. ASSUME NEW j \in DOMAIN rows' PROVE OwnLink(j)
    <3>1. CASE j = i
      <4>1. rows'[j].alert = worker[w].alert
        BY <1>f, <2>2, <2>3, <2>4, <3>1 DEF Differs
      <4> QED BY <2>1, <3>1, <4>1 DEF OwnLink
    <3>2. CASE j # i
      BY <1>f, <2>2, <2>4, <3>2 DEF Differs, OwnLink
    <3> QED BY <3>1, <3>2
  <2> QED BY <1>2, <2>2, <2>4, <2>5 DEF RowsNow
<1>8. ASSUME NEW w \in Workers, Started(w) PROVE RowsNow /\ AlertsNow
  BY <1>3, <1>5, <1>8, SettledNow DEF Started, Asked, Found, Rejecting, Deciding
<1>9. ASSUME NEW w \in Workers, Progress(w) PROVE RowsNow /\ AlertsNow
  BY <1>4, <1>6, <1>7, <1>9, SettledNow DEF Progress
<1> QED BY <1>3, <1>4, <1>8, <1>9 DEF TablesStep

\* Links and alerts point to what exists.
TablesLinked ==
    /\ \A i \in DOMAIN rows : rows[i].alert <= Len(alerts)
    /\ \A a \in DOMAIN alerts : alerts[a].row \in DOMAIN rows

\* A step keeps every row linked to an alert about that row.
LEMMA LinksKept ==
    ASSUME Base, LinkedToOwnAlert, TablesStep
    PROVE  TablesLinked' /\ LinkedToOwnAlert'
<1>0. RowsFrame /\ AlertsFrame /\ RowsNow /\ AlertsNow
  BY Frames, TablesNow
<1>f. /\ Len(alerts) \in Nat /\ DOMAIN alerts = 1..Len(alerts)
      /\ Len(alerts') \in Nat /\ Len(alerts) <= Len(alerts')
      /\ \A i \in DOMAIN rows : rows[i].alert \in Nat /\ rows[i].alert <= Len(alerts)
      /\ \A a \in DOMAIN alerts : alerts[a].row \in DOMAIN rows
  BY <1>0, RowFacts, LenProperties DEF Base, AlertsFrame, TypeOK, Rows
<1>1. ASSUME NEW a \in DOMAIN alerts' PROVE alerts'[a].row \in DOMAIN rows'
  BY <1>0, <1>f DEF AlertsNow, AlertsFrame, RowsFrame
<1>2. ASSUME NEW i \in DOMAIN rows'
      PROVE  \/ rows'[i].alert = 0
             \/ \E a \in DOMAIN alerts :
                   /\ rows'[i].alert = a /\ alerts[a].row = i
                   /\ alerts[a].kind = "ApprovalRequired"
  <2>1. CASE i \in DOMAIN rows /\ rows'[i].alert = rows[i].alert
    BY <1>f, <2>1 DEF LinkedToOwnAlert
  <2> QED BY <1>0, <1>2, <2>1 DEF RowsNow, OwnLink
<1>3. ASSUME NEW i \in DOMAIN rows' PROVE rows'[i].alert <= Len(alerts')
  BY <1>2, <1>f
<1>4. LinkedToOwnAlert'
  BY <1>0, <1>2 DEF LinkedToOwnAlert, AlertsFrame
<1> QED BY <1>1, <1>3, <1>4 DEF TablesLinked

\* The types of what is on chain, and of the bounds.
ChainTyped ==
    /\ request \in [Keys -> Requests] /\ log \in Seq(Events)
    /\ vaultKnown \in BOOLEAN /\ used \in Counters

\* A cancelled request stays cancelled.
CancelledKept ==
    \A k \in Keys : request[k].state = "cancelled" => request'[k].state = "cancelled"

\* A true event stays true while cancelled requests do.
LEMMA TrueStays ==
    ASSUME NEW e, EventTrue(e), CancelledKept PROVE EventTrue(e)'
BY DEF EventTrue, CancelledKept

\* A step keeps the types on chain and the truth of the events.
LEMMA NextChain ==
    ASSUME Base, [Next]_vars PROVE ChainTyped' /\ EventsTrue' /\ CancelledKept
<1>f. /\ Len(log) \in Nat /\ DOMAIN log = 1..Len(log)
      /\ used.replays \in Nat /\ (used' \in Counters => used'.replays \in Nat)
      /\ \A i \in DOMAIN log : /\ log[i].delivered \in Nat
                               /\ log[i].delivered <= used.replays + 1
                               /\ EventTrue(log[i])
  <2>1. log \in Seq(Events) /\ used \in Counters
    BY DEF Base, TypeOK
  <2>2. \A i \in DOMAIN log : log[i] \in Events
    BY <2>1, LenProperties, ElementOfSeq
  <2>3. used.replays \in Nat /\ (used' \in Counters => used'.replays \in Nat)
    BY <2>1, ApprovalAssumption DEF Counters
  <2>4. Len(log) \in Nat /\ DOMAIN log = 1..Len(log)
    BY <2>1, LenProperties
  <2>5. \A i \in DOMAIN log : log[i].delivered \in Nat
    BY <2>2, ApprovalAssumption DEF Events
  <2> QED BY <2>3, <2>4, <2>5 DEF Base, EventsTrue
<1>1. CASE OnChain
  <2>1. PICK e \in Events : /\ e.delivered = 0 /\ EventTrue(e)'
                            /\ Extends(log', log, e)
    BY <1>1 DEF OnChain
  <2>2. ChainTyped' /\ CancelledKept /\ used'.replays = used.replays
    BY <1>1 DEF OnChain, ChainTyped, CancelledKept, Base, TypeOK
  <2>3. ASSUME NEW i \in DOMAIN log'
        PROVE  log'[i].delivered <= used'.replays + 1 /\ EventTrue(log[i])'
    <3>1. CASE i \in DOMAIN log
      <4>1. PICK d : d = log[i] /\ log'[i] = d
        BY <1>f, <2>1, <3>1 DEF Extends
      <4>2. EventTrue(d)'
        BY <1>f, <2>2, <3>1, <4>1, TrueStays
      <4> QED BY <1>f, <2>2, <3>1, <4>1, <4>2 DEF EventTrue
    <3>2. CASE i \notin DOMAIN log
      <4>1. log'[i] = e
        BY <1>f, <2>1, <3>2 DEF Extends
      <4> QED BY <1>f, <2>1, <2>2, <4>1 DEF EventTrue
    <3> QED BY <3>1, <3>2
  <2> QED BY <2>2, <2>3 DEF EventsTrue
<1>2. ASSUME NEW w \in Workers, NEW i \in DOMAIN log, DeliveredAgain(i),
             Delivery(w, i)
      PROVE  ChainTyped' /\ EventsTrue' /\ CancelledKept
  <2>1. PICK e \in Events : /\ e.delivered <= used'.replays + 1
                            /\ e.name = log[i].name /\ e.key = log[i].key
                            /\ e.shape = log[i].shape
                            /\ Differs(log', log, i, e)
    BY <1>2 DEF DeliveredAgain
  <2>2. ChainTyped' /\ CancelledKept /\ used.replays <= used'.replays
    BY <1>2 DEF DeliveredAgain, Delivery, ChainTyped, CancelledKept, Base, TypeOK
  <2>3. EventTrue(e)
    BY <1>f, <2>1 DEF EventTrue
  <2>4. EventTrue(e)'
    BY <2>2, <2>3, TrueStays
  <2>5. ASSUME NEW j \in DOMAIN log'
        PROVE  log'[j].delivered <= used'.replays + 1 /\ EventTrue(log[j])'
    <3>0. j \in DOMAIN log
      BY <1>f, <2>1 DEF Differs
    <3>1. CASE j # i
      <4>1. PICK d : d = log[j] /\ log'[j] = d
        BY <1>f, <2>1, <3>0, <3>1 DEF Differs
      <4>2. EventTrue(d)'
        BY <1>f, <2>2, <3>0, <4>1, TrueStays
      <4>3. used'.replays \in Nat
        BY <1>f, <2>2 DEF ChainTyped
      <4> QED BY <1>f, <2>2, <3>0, <4>1, <4>2, <4>3 DEF EventTrue
    <3>2. CASE j = i
      <4>1. log'[j] = e
        BY <1>f, <2>1, <3>2 DEF Differs
      <4> QED BY <2>1, <2>4, <4>1 DEF EventTrue
    <3> QED BY <3>1, <3>2
  <2> QED BY <2>2, <2>5 DEF EventsTrue
<1>3. CASE Quiet
  BY <1>3, <1>f DEF Quiet, OffChain, chain, ChainTyped, CancelledKept, EventsTrue,
                    EventTrue, Base, TypeOK
<1> QED BY <1>1, <1>2, <1>3, Steps

\* Two rows never have the same key.
KeysUnique ==
    \A i, j \in DOMAIN rows :
       rows[i].key \in Keys /\ rows[i].key = rows[j].key => i = j

\* A step keeps the keys unique: spend_requested_alert inserts only a key
\* that no row has.
LEMMA KeysKept ==
    ASSUME Base, KeysUnique, TablesStep PROVE KeysUnique'
<1>0. RowsFrame /\ RowsNow
  BY Frames, TablesNow
<1>1. ASSUME NEW i \in DOMAIN rows', NEW j \in DOMAIN rows', rows'[i].key \in Keys,
             rows'[i].key = rows'[j].key
      PROVE  i = j
  <2>1. CASE i \in DOMAIN rows /\ j \in DOMAIN rows
    BY <1>0, <1>1, <2>1 DEF KeysUnique, RowsFrame
  <2>2. CASE i \in DOMAIN rows /\ j \notin DOMAIN rows
    BY <1>0, <1>1, <2>2 DEF RowsFrame, RowsNow, Fresh, RowsOf
  <2>3. CASE i \notin DOMAIN rows /\ j \in DOMAIN rows
    BY <1>0, <1>1, <2>3 DEF RowsFrame, RowsNow, Fresh, RowsOf
  <2>4. CASE i \notin DOMAIN rows /\ j \notin DOMAIN rows
    BY <1>0, <1>1, <2>4 DEF RowsNow, Fresh
  <2> QED BY <2>1, <2>2, <2>3, <2>4
<1> QED BY <1>1 DEF KeysUnique

\* With unique keys a request has at most one row.
LEMMA UniqueRows ==
    ASSUME TypeOK, KeysUnique PROVE OneRowPerRequest
<1>1. ASSUME NEW k \in Keys PROVE Cardinality(RowsOf(k)) <= 1
  <2>1. CASE RowsOf(k) = {}
    BY <2>1, FS_EmptySet
  <2>2. ASSUME NEW i \in RowsOf(k) PROVE Cardinality(RowsOf(k)) <= 1
    <3>1. RowsOf(k) = {i}
      BY <2>2 DEF RowsOf, KeysUnique
    <3> QED BY <3>1, FS_Singleton
  <2> QED BY <2>1, <2>2
<1> QED BY <1>1 DEF OneRowPerRequest

----------------------------------------------------------------------------

\* Handler state h is on its way to tell that row i was rejected.
Rejects(h, i) ==
    /\ h.pc \in {"clear", "verdict"}
    /\ h.kind = "ApprovalRejected" /\ h.row = i

Rejecters(i) == {w \in Workers : Rejects(worker[w], i)}

Rejections(i) == AlertsOf("ApprovalRejected", i)

\* A rejection is told once: there is at most one alert or one handler about to
\* store it, never both, and only for a cancelled request whose row is decided.
RejectedOnce(i) ==
    /\ \A a, b \in Rejections(i) : a = b
    /\ \A v, w \in Rejecters(i) : v = w
    /\ Rejections(i) = {} \/ Rejecters(i) = {}
    /\ Rejections(i) # {} \/ Rejecters(i) # {}
       => /\ rows[i].key \in Keys
          /\ request[rows[i].key].state = "cancelled"
          /\ rows[i].status # "pending"

AllRejectedOnce == \A i \in DOMAIN rows : RejectedOnce(i)

\* A row with no new rejection, told or on its way, keeps RejectedOnce.
LEMMA RejectShrinks ==
    ASSUME Base, AllRejectedOnce, RowsFrame, CancelledKept,
           NEW i \in DOMAIN rows', Rejections(i)' \subseteq Rejections(i),
           Rejecters(i)' \subseteq Rejecters(i)
    PROVE  RejectedOnce(i)'
<1>1. CASE i \in DOMAIN rows
  <2>1. RejectedOnce(i)
    BY <1>1 DEF AllRejectedOnce
  <2>2. /\ rows'[i].key = rows[i].key
        /\ rows[i].status # "pending" => rows'[i].status # "pending"
    BY <1>1 DEF RowsFrame
  <2> QED BY <2>1, <2>2 DEF RejectedOnce, CancelledKept
<1>2. CASE i \notin DOMAIN rows
  <2>1. Rejections(i) = {}
    BY <1>2 DEF Rejections, AlertsOf, Base, TypeOK
  <2>2. Rejecters(i) = {}
    BY <1>2 DEF Rejecters, Rejects, Base, HandlersReady, Ready
  <2> QED BY <2>1, <2>2 DEF RejectedOnce
<1> QED BY <1>1, <1>2

\* A handler that does not take up a rejection adds none.
LEMMA MovedRejecters ==
    ASSUME NEW w \in Workers, NEW h, Moved(w, h), NEW i,
           Rejects(h, i) => Rejects(worker[w], i)
    PROVE  Rejecters(i)' \subseteq Rejecters(i)
<1>1. ASSUME NEW v \in Workers, Rejects(worker'[v], i) PROVE Rejects(worker[v], i)
  <2>1. CASE v = w
    BY <1>1, <2>1 DEF Moved
  <2>2. CASE v # w
    BY <1>1, <2>2 DEF Moved
  <2> QED BY <2>1, <2>2
<1> QED BY <1>1 DEF Rejecters, Rejects

\* No new alert, no new rejection.
LEMMA SameAlerts ==
    ASSUME UNCHANGED alerts, NEW i PROVE Rejections(i)' = Rejections(i)
BY DEF Rejections, AlertsOf

\* Reading alerts adds no rejection.
LEMMA SeenAlerts ==
    ASSUME Base, Seen, NEW i PROVE Rejections(i)' = Rejections(i)
<1>1. DOMAIN alerts' = DOMAIN alerts
  BY RowFacts, LenProperties DEF Seen, Base
<1> QED BY <1>1 DEF Rejections, AlertsOf, Seen

\* The only alert that adds to a row's rejections is one about that row.
LEMMA ToldAlerts ==
    ASSUME Base, NEW w \in Workers, NEW kind, NEW h, Told(w, kind, h), NEW i
    PROVE  Rejections(i)' = IF kind = "ApprovalRejected" /\ worker[w].row = i
                            THEN Rejections(i) \cup {Len(alerts) + 1}
                            ELSE Rejections(i)
<1>1. /\ DOMAIN alerts = 1..Len(alerts) /\ Len(alerts) \in Nat
      /\ DOMAIN alerts' = DOMAIN alerts \cup {Len(alerts) + 1}
      /\ \A a \in DOMAIN alerts : alerts'[a] = alerts[a]
      /\ alerts'[Len(alerts) + 1].kind = kind
      /\ alerts'[Len(alerts) + 1].row = worker[w].row
  BY RowFacts DEF Told, Extends, Base
<1> QED BY <1>1 DEF Rejections, AlertsOf

\* A step keeps RejectedOnce for every row: only a pending row is rejected, and
\* the handler that rejected it is the one that tells, once.
LEMMA RejectionsKept ==
    ASSUME Base, AllRejectedOnce, TablesStep, CancelledKept,
           UNCHANGED request \/ UNCHANGED <<tables, worker>>
    PROVE  AllRejectedOnce'
<1>0. RowsFrame
  BY Frames
<1> SUFFICES ASSUME NEW i \in DOMAIN rows' PROVE RejectedOnce(i)'
  BY DEF AllRejectedOnce
<1>1. ASSUME Rejections(i)' = Rejections(i), UNCHANGED worker
      PROVE  RejectedOnce(i)'
  BY <1>0, <1>1, RejectShrinks DEF Rejecters
<1>2. ASSUME NEW w \in Workers, NEW h, Moved(w, h),
             Rejects(h, i) => Rejects(worker[w], i),
             Rejections(i)' = Rejections(i)
      PROVE  RejectedOnce(i)'
  BY <1>0, <1>2, MovedRejecters, RejectShrinks
<1>3. ASSUME NEW w \in Workers, NEW j, NEW status, NEW kind,
             Settled(w, j, status, kind), kind # "ApprovalRejected"
      PROVE  RejectedOnce(i)'
  <2>1. PICK h : h = H("clear", j, rows[j].alert, kind) /\ Moved(w, h)
    BY <1>3 DEF Settled
  <2>2. ~Rejects(h, i)
    BY <1>3, <2>1 DEF Rejects, H
  <2>3. Rejections(i)' = Rejections(i)
    BY <1>3, SameAlerts DEF Settled
  <2> QED BY <1>2, <2>1, <2>2, <2>3
<1>4. ASSUME NEW w \in Workers, Rejecting(w), UNCHANGED request
      PROVE  RejectedOnce(i)'
  <2>1. PICK j \in DOMAIN rows :
           /\ rows[j].status = "pending" /\ rows[j].key \in Keys
           /\ request[rows[j].key].state = "cancelled"
           /\ Settled(w, j, "rejected", "ApprovalRejected")
    BY <1>4 DEF Rejecting
  <2>2. PICK h : /\ h = H("clear", j, rows[j].alert, "ApprovalRejected")
                 /\ Moved(w, h)
    BY <2>1 DEF Settled
  <2>3. Rejections(i)' = Rejections(i)
    BY <2>1, SameAlerts DEF Settled
  <2>4. CASE i # j
    <3>1. ~Rejects(h, i)
      BY <2>2, <2>4 DEF Rejects, H
    <3> QED BY <1>2, <2>2, <2>3, <3>1
  <2>5. CASE i = j
    <3>1. Rejections(i) = {} /\ Rejecters(i) = {}
      BY <2>1, <2>5 DEF AllRejectedOnce, RejectedOnce
    <3>2. Rejecters(i)' \subseteq {w}
      BY <3>1, <2>2 DEF Rejecters, Moved
    <3>3. rows'[i].status # "pending" /\ rows'[i].key = rows[i].key
      <4>1. rows[i] \in Rows /\ DOMAIN rows = 1..Len(rows)
        BY <2>1, <2>5, RowFacts DEF Base
      <4>2. rows'[i] = [rows[i] EXCEPT !.status = "rejected"]
        BY <2>1, <2>5, <4>1 DEF Settled, Differs
      <4> QED BY <4>1, <4>2 DEF Rows
    <3> QED BY <1>4, <2>1, <2>3, <2>5, <3>1, <3>2, <3>3 DEF RejectedOnce
  <2> QED BY <2>4, <2>5
<1>5. ASSUME NEW w \in Workers, Started(w), UNCHANGED request
      PROVE  RejectedOnce(i)'
  <2>1. CASE Opened(w)
    <3>1. PICK h : /\ h = H("emit", Len(rows) + 1, 0, "ApprovalRequired")
                   /\ Moved(w, h) /\ UNCHANGED alerts
      BY <2>1 DEF Opened
    <3>2. ~Rejects(h, i)
      BY <3>1 DEF Rejects, H
    <3> QED BY <1>2, <3>1, <3>2, SameAlerts
  <2>2. CASE Asked(w)
    <3>1. PICK j, h : /\ h = H("emit", j, 0, "ApprovalRequired")
                      /\ Moved(w, h) /\ UNCHANGED alerts
      BY <2>2 DEF Asked, tables
    <3>2. ~Rejects(h, i)
      BY <3>1 DEF Rejects, H
    <3> QED BY <1>2, <3>1, <3>2, SameAlerts
  <2>3. CASE \E s \in Shapes : Found(w, s)
    <3>1. PICK j, h : /\ h = H("flip", j, 0, "ApprovalApproved")
                      /\ Moved(w, h) /\ UNCHANGED alerts
      BY <2>3 DEF Found, tables
    <3>2. ~Rejects(h, i)
      BY <3>1 DEF Rejects, H
    <3> QED BY <1>2, <3>1, <3>2, SameAlerts
  <2>4. CASE Deciding(w)
    BY <1>3, <2>4 DEF Deciding
  <2> QED BY <1>4, <1>5, <2>1, <2>2, <2>3, <2>4 DEF Started
<1>6. ASSUME NEW w \in Workers, Progress(w) PROVE RejectedOnce(i)'
  <2>1. CASE /\ worker[w].pc = "emit"
             /\ Told(w, "ApprovalRequired",
                     H("backref", worker[w].row, Len(alerts) + 1, "ApprovalRequired"))
    <3>1. PICK h : /\ h = H("backref", worker[w].row, Len(alerts) + 1,
                            "ApprovalRequired")
                   /\ Told(w, "ApprovalRequired", h)
      BY <2>1
    <3>2. ~Rejects(h, i) /\ Moved(w, h)
      BY <3>1 DEF Rejects, H, Told
    <3>3. Rejections(i)' = Rejections(i)
      BY <3>1, ToldAlerts
    <3> QED BY <1>2, <3>2, <3>3
  <2>2. CASE worker[w].pc = "backref" /\ Linked(w)
    <3>1. PICK h : h = Idle
      OBVIOUS
    <3>2. ~Rejects(h, i) /\ Moved(w, h) /\ UNCHANGED alerts
      BY <2>2, <3>1 DEF Rejects, Idle, Linked
    <3> QED BY <1>2, <3>2, SameAlerts
  <2>3. CASE Settled(w, worker[w].row, "approved", "ApprovalApproved")
    BY <1>3, <2>3
  <2>4. CASE /\ worker[w].pc = "clear" /\ Seen /\ Moved(w, Idle)
    <3>1. PICK h : h = Idle
      OBVIOUS
    <3>2. ~Rejects(h, i) /\ Moved(w, h)
      BY <2>4, <3>1 DEF Rejects, Idle
    <3> QED BY <1>2, <2>4, <3>2, SeenAlerts
  <2>5. CASE /\ worker[w].pc = "clear" /\ Seen
             /\ Moved(w, H("verdict", worker[w].row, worker[w].alert,
                           worker[w].kind))
    <3>1. PICK h : /\ h = H("verdict", worker[w].row, worker[w].alert,
                            worker[w].kind)
                   /\ Moved(w, h)
      BY <2>5
    <3>2. Rejects(h, i) => Rejects(worker[w], i)
      BY <2>5, <3>1 DEF Rejects, H
    <3> QED BY <1>2, <2>5, <3>1, <3>2, SeenAlerts
  <2>6. CASE worker[w].pc = "verdict" /\ Told(w, worker[w].kind, Idle)
    <3>1. PICK h, kind : h = Idle /\ kind = worker[w].kind
      OBVIOUS
    <3>2. ~Rejects(h, i) /\ Moved(w, h) /\ Told(w, kind, h)
      BY <2>6, <3>1 DEF Rejects, Idle, Told
    <3>3. CASE ~(kind = "ApprovalRejected" /\ worker[w].row = i)
      <4>1. Rejections(i)' = Rejections(i)
        BY <3>2, <3>3, ToldAlerts
      <4> QED BY <1>2, <3>2, <4>1
    <3>4. CASE kind = "ApprovalRejected" /\ worker[w].row = i
      <4>1. w \in Rejecters(i) /\ i \in DOMAIN rows
        BY <2>6, <3>1, <3>4 DEF Rejecters, Rejects, Base, HandlersReady, Ready
      <4>2. RejectedOnce(i) /\ Rejections(i) = {}
        BY <4>1 DEF AllRejectedOnce, RejectedOnce
      <4>3. Rejections(i)' = {Len(alerts) + 1}
        BY <3>2, <3>4, <4>2, ToldAlerts
      <4>4. Rejecters(i)' = {}
        <5>1. Rejecters(i)' \subseteq Rejecters(i)
          BY <3>2, MovedRejecters
        <5>2. w \notin Rejecters(i)'
          BY <3>2 DEF Rejecters, Moved
        <5> QED BY <4>1, <4>2, <5>1, <5>2 DEF RejectedOnce
      <4>5. /\ rows'[i].key \in Keys /\ request'[rows'[i].key].state = "cancelled"
            /\ rows'[i].status # "pending"
        BY <1>0, <4>1, <4>2 DEF RejectedOnce, RowsFrame, CancelledKept
      <4> QED BY <4>3, <4>4, <4>5 DEF RejectedOnce
    <3> QED BY <3>3, <3>4
  <2> QED BY <1>6, <2>1, <2>2, <2>3, <2>4, <2>5, <2>6 DEF Progress
<1>7. CASE UNCHANGED <<tables, worker>>
  BY <1>1, <1>7, SameAlerts DEF tables
<1>8. CASE Seen /\ UNCHANGED worker
  BY <1>1, <1>8, SeenAlerts
<1>9. ASSUME NEW w \in Workers, UNCHANGED tables, Moved(w, Idle)
      PROVE  RejectedOnce(i)'
  <2>1. PICK h : h = Idle
    OBVIOUS
  <2>2. ~Rejects(h, i) /\ Moved(w, h) /\ UNCHANGED alerts
    BY <1>9, <2>1 DEF Rejects, Idle, tables
  <2> QED BY <1>2, <2>2, SameAlerts
<1> QED BY <1>5, <1>6, <1>7, <1>8, <1>9 DEF TablesStep

\* The inductive form implies the property.
LEMMA OnceIsExact ==
    ASSUME AllRejectedOnce PROVE RejectionsExact
<1>1. ASSUME NEW i \in DOMAIN rows
      PROVE  Cardinality(Rejections(i)) <= 1
  <2>1. CASE Rejections(i) = {}
    BY <2>1, FS_EmptySet
  <2>2. ASSUME NEW a \in Rejections(i) PROVE Cardinality(Rejections(i)) <= 1
    <3>1. Rejections(i) = {a}
      BY <2>2 DEF AllRejectedOnce, RejectedOnce
    <3>2. Cardinality({a}) = 1
      BY FS_Singleton
    <3> QED BY <3>1, <3>2
  <2> QED BY <2>1, <2>2
<1> QED BY <1>1 DEF RejectionsExact, AllRejectedOnce, RejectedOnce, Rejections

----------------------------------------------------------------------------

\* Handler state h is on its way to tell an approval of shape s.
Approves(h, s) ==
    /\ h.pc \in {"flip", "clear", "verdict"}
    /\ h.kind = "ApprovalApproved" /\ rows[h.row].shape = s

Approving(s) == {w \in Workers : Approves(worker[w], s)}

Approved(s) == Verdicts("ApprovalApproved", s)

\* Approvals of a shape told, and those on their way.
Pledged(s) == Cardinality(Approved(s)) + Cardinality(Approving(s))

\* The approvals told or on their way are no more than the payments delivered.
Covered(s) ==
    /\ IsFiniteSet(Approving(s))
    /\ Pledged(s) <= SumOver(Deliveries, Payments(s))

AllCovered == \A s \in Shapes : Covered(s)

\* The approvals told are finitely many.
LEMMA ApprovedFinite ==
    ASSUME TypeOK, NEW s
    PROVE  IsFiniteSet(Approved(s)) /\ Cardinality(Approved(s)) \in Nat
<1>1. Approved(s) \subseteq 1..Len(alerts) /\ Len(alerts) \in Nat
  BY RowFacts DEF Approved, Verdicts
<1>2. IsFiniteSet(1..Len(alerts))
  BY <1>1, FS_Interval
<1>3. IsFiniteSet(Approved(s))
  BY <1>1, <1>2, FS_Subset
<1> QED BY <1>3, FS_CardinalityType

\* Where no approval is added, the pledge does not grow.
LEMMA PledgeShrinks ==
    ASSUME TypeOK, NEW s, IsFiniteSet(Approving(s)),
           Approved(s)' \subseteq Approved(s), Approving(s)' \subseteq Approving(s)
    PROVE  /\ IsFiniteSet(Approving(s)') /\ Pledged(s)' <= Pledged(s)
           /\ Pledged(s) \in Nat /\ Pledged(s)' \in Nat
<1>1. /\ IsFiniteSet(Approved(s)) /\ Cardinality(Approved(s)) \in Nat
      /\ Cardinality(Approving(s)) \in Nat
  BY ApprovedFinite, FS_CardinalityType
<1>2. /\ IsFiniteSet(Approved(s)') /\ Cardinality(Approved(s)') \in Nat
      /\ Cardinality(Approved(s)') <= Cardinality(Approved(s))
  BY <1>1, FS_Subset, FS_CardinalityType
<1>3. /\ IsFiniteSet(Approving(s)') /\ Cardinality(Approving(s)') \in Nat
      /\ Cardinality(Approving(s)') <= Cardinality(Approving(s))
  BY <1>1, FS_Subset, FS_CardinalityType
<1> QED BY <1>1, <1>2, <1>3 DEF Pledged

\* The handlers that do not move keep what they are about to tell: no step
\* changes the shape of a row.
LEMMA MovedApproving ==
    ASSUME Base, RowsFrame, NEW w \in Workers, NEW h, Moved(w, h), NEW s
    PROVE  \A v \in Workers : v # w => (v \in Approving(s)' <=> v \in Approving(s))
<1>1. ASSUME NEW v \in Workers, v # w
      PROVE  v \in Approving(s)' <=> v \in Approving(s)
  <2>1. worker'[v] = worker[v]
    BY <1>1 DEF Moved
  <2>2. worker[v].pc # "idle" => rows'[worker[v].row].shape = rows[worker[v].row].shape
    BY DEF Base, HandlersReady, Ready, RowsFrame
  <2> QED BY <2>1, <2>2 DEF Approving, Approves
<1> QED BY <1>1

\* Without a new alert of the kind there is no new approval told.
LEMMA ApprovedKept ==
    ASSUME Base, RowsFrame, AlertsFrame, NEW s,
           \A a \in DOMAIN alerts' : \/ a \in DOMAIN alerts
                                     \/ alerts'[a].kind # "ApprovalApproved"
    PROVE  Approved(s)' \subseteq Approved(s)
<1>1. ASSUME NEW a \in Approved(s)' PROVE a \in Approved(s)
  <2>1. a \in DOMAIN alerts' /\ alerts'[a].kind = "ApprovalApproved"
        /\ rows'[alerts'[a].row].shape = s
    BY <1>1 DEF Approved, Verdicts
  <2>2. /\ a \in DOMAIN alerts /\ alerts[a].kind = "ApprovalApproved"
        /\ alerts'[a].row = alerts[a].row
    BY <2>1 DEF AlertsFrame
  <2>3. rows'[alerts[a].row].shape = rows[alerts[a].row].shape
    BY <2>2 DEF Base, TypeOK, RowsFrame
  <2> QED BY <2>1, <2>2, <2>3 DEF Approved, Verdicts
<1> QED BY <1>1

\* The table steps other than finding a row to approve.
Plain ==
    \/ UNCHANGED <<tables, worker>>
    \/ Seen /\ UNCHANGED worker
    \/ \E w \in Workers : Opened(w) \/ Asked(w) \/ Rejecting(w) \/ Deciding(w)
    \/ \E w \in Workers : Progress(w)
    \/ \E w \in Workers : UNCHANGED tables /\ Moved(w, Idle)

Kept(s) ==
    /\ IsFiniteSet(Approving(s)') /\ Pledged(s)' <= Pledged(s)
    /\ Pledged(s) \in Nat /\ Pledged(s)' \in Nat

\* Only the subquery of spend_approved_mirror adds to the pledge: storing the
\* verdict turns an approval on its way into one told.
LEMMA PlainPledge ==
    ASSUME Base, Plain, RowsFrame, AlertsFrame, NEW s, IsFiniteSet(Approving(s))
    PROVE  Kept(s)
<1>f. /\ Len(alerts) \in Nat /\ DOMAIN alerts = 1..Len(alerts)
  BY RowFacts DEF Base
<1> DEFINE Steady == \A a \in DOMAIN alerts' : \/ a \in DOMAIN alerts
                                              \/ alerts'[a].kind # "ApprovalApproved"
<1>1. ASSUME Steady, NEW w \in Workers, NEW h, Moved(w, h),
             Approves(h, s)' => w \in Approving(s)
      PROVE  Kept(s)
  <2>1. Approved(s)' \subseteq Approved(s)
    BY <1>1, ApprovedKept
  <2>2. Approving(s)' \subseteq Approving(s)
    <3>1. \A v \in Workers : v # w => (v \in Approving(s)' => v \in Approving(s))
      BY <1>1, MovedApproving
    <3>2. w \in Approving(s)' => w \in Approving(s)
      BY <1>1 DEF Approving, Moved, Approves
    <3>3. Approving(s)' \subseteq Workers
      BY DEF Approving
    <3> QED BY <3>1, <3>2, <3>3
  <2> QED BY <2>1, <2>2, PledgeShrinks DEF Kept, Base
<1>2. ASSUME Steady, UNCHANGED worker PROVE Kept(s)
  <2>1. Approved(s)' \subseteq Approved(s)
    BY <1>2, ApprovedKept
  <2>2. ASSUME NEW v \in Workers, v \in Approving(s)' PROVE v \in Approving(s)
    <3>1. worker[v].pc # "idle"
          => rows'[worker[v].row].shape = rows[worker[v].row].shape
      BY DEF Base, HandlersReady, Ready, RowsFrame
    <3> QED BY <1>2, <2>2, <3>1 DEF Approving, Approves
  <2>3. Approving(s)' \subseteq Approving(s)
    BY <2>2 DEF Approving
  <2> QED BY <2>1, <2>3, PledgeShrinks DEF Kept, Base
<1>3. ASSUME UNCHANGED alerts PROVE Steady
  BY <1>3
<1>4. ASSUME Seen PROVE Steady
  BY <1>4, <1>f, LenProperties DEF Seen
<1>5. ASSUME NEW w \in Workers, Moved(w, Idle), Steady PROVE Kept(s)
  <2>1. PICK h : h = Idle
    OBVIOUS
  <2>2. Moved(w, h) /\ ~Approves(h, s)'
    BY <1>5, <2>1 DEF Approves, Idle
  <2> QED BY <1>1, <1>5, <2>2
<1>6. ASSUME NEW w \in Workers, NEW j, NEW status, NEW kind,
             Settled(w, j, status, kind), kind # "ApprovalApproved"
      PROVE  Kept(s)
  <2>1. PICK h : h = H("clear", j, rows[j].alert, kind) /\ Moved(w, h)
    BY <1>6 DEF Settled
  <2>2. ~Approves(h, s)'
    BY <1>6, <2>1 DEF Approves, H
  <2>3. Steady
    BY <1>3, <1>6 DEF Settled
  <2> QED BY <1>1, <2>1, <2>2, <2>3
<1>7. ASSUME NEW w \in Workers, Opened(w) \/ Asked(w) PROVE Kept(s)
  <2>1. PICK j, h : /\ h = H("emit", j, 0, "ApprovalRequired")
                    /\ Moved(w, h) /\ UNCHANGED alerts
    BY <1>7 DEF Opened, Asked, tables
  <2>2. ~Approves(h, s)'
    BY <2>1 DEF Approves, H
  <2>3. Steady
    BY <1>3, <2>1
  <2> QED BY <1>1, <2>1, <2>2, <2>3
<1>8. ASSUME NEW w \in Workers, Rejecting(w) \/ Deciding(w) PROVE Kept(s)
  BY <1>6, <1>8 DEF Rejecting, Deciding
<1>9. ASSUME NEW w \in Workers, Progress(w) PROVE Kept(s)
  <2>0. /\ worker[w] \in Handlers /\ Ready(worker[w])
        /\ worker[w].pc # "idle"
           => rows'[worker[w].row].shape = rows[worker[w].row].shape
    BY DEF Base, TypeOK, HandlersReady, Ready, RowsFrame
  <2>1. CASE /\ worker[w].pc = "emit"
             /\ Told(w, "ApprovalRequired",
                     H("backref", worker[w].row, Len(alerts) + 1, "ApprovalRequired"))
    <3>1. PICK h : /\ h = H("backref", worker[w].row, Len(alerts) + 1,
                            "ApprovalRequired")
                   /\ Told(w, "ApprovalRequired", h)
      BY <2>1
    <3>2. ~Approves(h, s)' /\ Moved(w, h)
      BY <3>1 DEF Approves, H, Told
    <3>3. Steady
      BY <1>f, <3>1 DEF Told, Extends
    <3> QED BY <1>1, <3>2, <3>3
  <2>2. CASE worker[w].pc = "backref" /\ Linked(w)
    BY <1>3, <1>5, <2>2 DEF Linked
  <2>3. CASE /\ worker[w].pc = "flip"
             /\ Settled(w, worker[w].row, "approved", "ApprovalApproved")
    <3>1. PICK h : /\ h = H("clear", worker[w].row, rows[worker[w].row].alert,
                            "ApprovalApproved")
                   /\ Moved(w, h)
      BY <2>3 DEF Settled
    <3>2. Approves(h, s)' => w \in Approving(s)
      BY <2>0, <2>3, <3>1 DEF Approves, Approving, H, Ready
    <3>3. Steady
      BY <1>3, <2>3 DEF Settled
    <3> QED BY <1>1, <3>1, <3>2, <3>3
  <2>4. CASE worker[w].pc = "clear" /\ Seen /\ Moved(w, Idle)
    BY <1>4, <1>5, <2>4
  <2>5. CASE /\ worker[w].pc = "clear" /\ Seen
             /\ Moved(w, H("verdict", worker[w].row, worker[w].alert,
                           worker[w].kind))
    <3>1. PICK h : /\ h = H("verdict", worker[w].row, worker[w].alert,
                            worker[w].kind)
                   /\ Moved(w, h)
      BY <2>5
    <3>2. Approves(h, s)' => w \in Approving(s)
      BY <2>0, <2>5, <3>1 DEF Approves, Approving, H
    <3>3. Steady
      BY <1>4, <2>5
    <3> QED BY <1>1, <3>1, <3>2, <3>3
  <2>6. CASE worker[w].pc = "verdict" /\ Told(w, worker[w].kind, Idle)
    <3>1. PICK h, kind : h = Idle /\ kind = worker[w].kind
      OBVIOUS
    <3>2. Moved(w, h) /\ Told(w, kind, h) /\ ~Approves(h, s)'
      BY <2>6, <3>1 DEF Told, Approves, Idle
    <3>e. /\ DOMAIN alerts' = DOMAIN alerts \cup {Len(alerts) + 1}
          /\ \A a \in DOMAIN alerts : alerts'[a] = alerts[a]
          /\ alerts'[Len(alerts) + 1].kind = kind
          /\ alerts'[Len(alerts) + 1].row = worker[w].row
      BY <1>f, <3>2 DEF Told, Extends
    <3>3. CASE kind # "ApprovalApproved"
      <4>1. Steady
        BY <3>3, <3>e
      <4> QED BY <1>1, <3>2, <4>1
    <3>4. CASE kind = "ApprovalApproved" /\ rows[worker[w].row].shape # s
      <4>1. ASSUME NEW a \in Approved(s)' PROVE a \in Approved(s)
        <5>1. a \in DOMAIN alerts' /\ alerts'[a].kind = "ApprovalApproved"
              /\ rows'[alerts'[a].row].shape = s
          BY <4>1 DEF Approved, Verdicts
        <5>2. a \in DOMAIN alerts
          BY <2>0, <2>6, <3>e, <3>4, <5>1
        <5>3. rows'[alerts[a].row].shape = rows[alerts[a].row].shape
          BY <5>2 DEF Base, TypeOK, RowsFrame
        <5> QED BY <3>e, <5>1, <5>2, <5>3 DEF Approved, Verdicts
      <4>2. Approving(s)' \subseteq Approving(s)
        <5>1. \A v \in Workers : v # w => (v \in Approving(s)' => v \in Approving(s))
          BY <3>2, MovedApproving
        <5>2. w \notin Approving(s)' /\ Approving(s)' \subseteq Workers
          BY <3>2 DEF Approving, Moved, Approves
        <5> QED BY <5>1, <5>2
      <4> QED BY <4>1, <4>2, PledgeShrinks DEF Kept, Base
    <3>5. CASE kind = "ApprovalApproved" /\ rows[worker[w].row].shape = s
      <4>1. w \in Approving(s)
        BY <2>6, <3>1, <3>5 DEF Approving, Approves
      <4>2. Approving(s)' = Approving(s) \ {w}
        <5>1. \A v \in Workers : v # w => (v \in Approving(s)' <=> v \in Approving(s))
          BY <3>2, MovedApproving
        <5>2. /\ w \notin Approving(s)' /\ Approving(s)' \subseteq Workers
              /\ Approving(s) \subseteq Workers
          BY <3>2 DEF Approving, Moved, Approves
        <5> QED BY <5>1, <5>2
      <4>3. Approved(s)' \subseteq Approved(s) \cup {Len(alerts) + 1}
        <5>1. ASSUME NEW a \in Approved(s)', a # Len(alerts) + 1
              PROVE  a \in Approved(s)
          <6>1. a \in DOMAIN alerts' /\ alerts'[a].kind = "ApprovalApproved"
                /\ rows'[alerts'[a].row].shape = s
            BY <5>1 DEF Approved, Verdicts
          <6>2. a \in DOMAIN alerts
            BY <3>e, <5>1, <6>1
          <6>3. rows'[alerts[a].row].shape = rows[alerts[a].row].shape
            BY <6>2 DEF Base, TypeOK, RowsFrame
          <6> QED BY <3>e, <6>1, <6>2, <6>3 DEF Approved, Verdicts
        <5> QED BY <5>1
      <4>4. /\ IsFiniteSet(Approved(s)) /\ Cardinality(Approved(s)) \in Nat
            /\ Cardinality(Approving(s)) \in Nat
        BY ApprovedFinite, FS_CardinalityType DEF Base
      <4>5. /\ IsFiniteSet(Approving(s)') /\ Cardinality(Approving(s)') \in Nat
            /\ Cardinality(Approving(s)') = Cardinality(Approving(s)) - 1
        BY <4>1, <4>2, FS_RemoveElement, FS_CardinalityType
      <4>6. /\ Cardinality(Approved(s)') \in Nat
            /\ Cardinality(Approved(s)') <= Cardinality(Approved(s)) + 1
        <5> DEFINE T == Approved(s) \cup {Len(alerts) + 1}
        <5>1. /\ IsFiniteSet(T) /\ Cardinality(T) \in Nat
              /\ Cardinality(T) <= Cardinality(Approved(s)) + 1
          BY <4>4, AddOne
        <5> HIDE DEF T
        <5>2. IsFiniteSet(Approved(s)') /\ Cardinality(Approved(s)') <= Cardinality(T)
          BY <4>3, <5>1, FS_Subset DEF T
        <5>3. Cardinality(Approved(s)') \in Nat
          BY <5>2, FS_CardinalityType
        <5> QED BY <4>4, <5>1, <5>2, <5>3
      <4> QED BY <4>4, <4>5, <4>6 DEF Kept, Pledged
    <3> QED BY <3>3, <3>4, <3>5
  <2> QED BY <1>9, <2>1, <2>2, <2>3, <2>4, <2>5, <2>6 DEF Progress
<1> QED BY <1>2, <1>3, <1>4, <1>5, <1>7, <1>8, <1>9 DEF Plain, tables

\* Finding a row of shape t adds at most one to the pledge of t, and nothing
\* to that of another shape.
LEMMA FoundPledge ==
    ASSUME Base, RowsFrame, AlertsFrame, NEW w \in Workers, NEW t, Found(w, t),
           NEW s, IsFiniteSet(Approving(s))
    PROVE  /\ IsFiniteSet(Approving(s)') /\ Pledged(s) \in Nat /\ Pledged(s)' \in Nat
           /\ s # t => Pledged(s)' <= Pledged(s)
           /\ Pledged(s)' <= Pledged(s) + 1
<1>1. PICK i \in PendingOf(t) :
         UNCHANGED tables /\ Moved(w, H("flip", i, 0, "ApprovalApproved"))
  BY DEF Found
<1>2. PICK h : h = H("flip", i, 0, "ApprovalApproved")
  OBVIOUS
<1>3. \A v \in Workers : v # w => (v \in Approving(s)' <=> v \in Approving(s))
  BY <1>1, <1>2, MovedApproving
<1>4. Approving(s)' \subseteq Workers /\ Approving(s) \subseteq Workers
  BY DEF Approving
<1>5. Approved(s)' = Approved(s)
  BY <1>1 DEF Approved, Verdicts, tables
<1>6. CASE s # t
  <2>1. w \notin Approving(s)'
    BY <1>1, <1>6 DEF Approving, Approves, Moved, H, PendingOf, tables
  <2>2. Approving(s)' \subseteq Approving(s)
    BY <1>3, <1>4, <2>1
  <2>3. Kept(s)
    BY <1>5, <2>2, PledgeShrinks DEF Kept, Base
  <2> QED BY <2>3 DEF Kept
<1>7. CASE s = t
  <2>1. Approving(s)' \subseteq Approving(s) \cup {w}
    BY <1>3, <1>4
  <2>2. /\ Cardinality(Approved(s)) \in Nat /\ Cardinality(Approving(s)) \in Nat
        /\ IsFiniteSet(Approving(s) \cup {w})
        /\ Cardinality(Approving(s) \cup {w}) <= Cardinality(Approving(s)) + 1
        /\ Cardinality(Approving(s) \cup {w}) \in Nat
    BY ApprovedFinite, FS_CardinalityType, AddOne DEF Base
  <2>3. /\ IsFiniteSet(Approving(s)')
        /\ Cardinality(Approving(s)') <= Cardinality(Approving(s) \cup {w})
    BY <2>1, <2>2, FS_Subset
  <2>4. Cardinality(Approving(s)') \in Nat
    BY <2>3, FS_CardinalityType
  <2> QED BY <1>5, <1>7, <2>2, <2>3, <2>4 DEF Pledged
<1> QED BY <1>6, <1>7

\* How often payments of shape s were delivered.
Paid(s) == SumOver(Deliveries, Payments(s))

\* A log's deliveries are numbers and its payments finitely many.
LogFact(l, s) ==
    LET f == [i \in DOMAIN l |-> l[i].delivered]
        S == {i \in DOMAIN l : l[i].name = "Spent" /\ l[i].shape = s}
    IN  /\ Len(l) \in Nat /\ DOMAIN l = 1..Len(l)
        /\ \A i \in DOMAIN l : l[i] \in Events /\ f[i] \in Nat
        /\ IsFiniteSet(S) /\ SumOver(f, S) \in Nat

\* That holds of every sequence of events.
LEMMA LogFacts == ASSUME NEW l \in Seq(Events), NEW s PROVE LogFact(l, s)
<1> DEFINE f == [i \in DOMAIN l |-> l[i].delivered]
           S == {i \in DOMAIN l : l[i].name = "Spent" /\ l[i].shape = s}
<1>1. Len(l) \in Nat /\ DOMAIN l = 1..Len(l)
  BY LenProperties
<1>2. ASSUME NEW i \in DOMAIN l PROVE l[i] \in Events /\ f[i] \in Nat
  <2>1. l[i] \in Events
    BY <1>1, <1>2, ElementOfSeq
  <2>2. l[i].delivered \in Nat
    BY <2>1, ApprovalAssumption DEF Events
  <2> QED BY <1>2, <2>1, <2>2
<1>3. IsFiniteSet(S)
  <2>1. IsFiniteSet(1..Len(l))
    BY <1>1, FS_Interval
  <2>2. S \subseteq 1..Len(l)
    BY <1>1
  <2> QED BY <2>1, <2>2, FS_Subset
<1>4. \A i \in S : f[i] \in Nat
  BY <1>2
<1>5. SumOver(f, S) \in Nat
  <2> HIDE DEF f, S
  <2> QED BY <1>3, <1>4, SumType
<1> QED BY <1>1, <1>2, <1>3, <1>5 DEF LogFact

\* It holds of the log before and after a step.
LEMMA LogNow ==
    ASSUME TypeOK, TypeOK', NEW s
    PROVE  /\ Len(log) \in Nat /\ DOMAIN log = 1..Len(log)
           /\ \A i \in DOMAIN log : log[i] \in Events /\ Deliveries[i] \in Nat
           /\ \A i \in DOMAIN log' : Deliveries'[i] \in Nat
           /\ Payments(s) \subseteq DOMAIN log /\ Payments(s)' \subseteq DOMAIN log'
           /\ IsFiniteSet(Payments(s)) /\ IsFiniteSet(Payments(s)')
           /\ Paid(s) \in Nat /\ Paid(s)' \in Nat
<1>1. log \in Seq(Events) /\ log' \in Seq(Events)
  BY DEF TypeOK
<1>2. LogFact(log, s) /\ LogFact(log', s)
  BY <1>1, LogFacts
<1> QED BY <1>2 DEF LogFact, Deliveries, Payments, Paid

\* A new event, not yet delivered, takes nothing from what was paid.
LEMMA PaidOnChain ==
    ASSUME TypeOK, TypeOK', OnChain, NEW s PROVE Paid(s)' >= Paid(s)
<1>1. PICK e : Extends(log', log, e)
  BY DEF OnChain
<1> DEFINE f == Deliveries  g == Deliveries'  S == Payments(s)  T == Payments(s)'
<1>2. /\ DOMAIN log = 1..Len(log) /\ Len(log) \in Nat
      /\ \A i \in DOMAIN log : i \in DOMAIN log' /\ log'[i] = log[i]
  BY <1>1, LogNow DEF Extends
<1>3. S \subseteq T /\ \A i \in S : f[i] = g[i]
  BY <1>2 DEF Payments, Deliveries
<1>4. /\ IsFiniteSet(S) /\ S \subseteq DOMAIN log
  BY LogNow
<1>5. IsFiniteSet(T) /\ \A i \in T : g[i] \in Nat
  BY LogNow
<1>6. Paid(s) = SumOver(f, S) /\ Paid(s)' = SumOver(g, T)
      /\ Paid(s) \in Nat /\ Paid(s)' \in Nat
  BY LogNow DEF Paid
<1> HIDE DEF f, g, S, T
<1>7. SumOver(f, S) = SumOver(g, S)
  BY <1>3, <1>4, SumSame
<1>8. SumOver(g, S) <= SumOver(g, T)
  BY <1>3, <1>5, SumMonotone
<1> QED BY <1>6, <1>7, <1>8

\* A delivery adds one to what was paid in the shape of its event.
LEMMA PaidAgain ==
    ASSUME TypeOK, TypeOK', NEW i \in DOMAIN log, DeliveredAgain(i), NEW s
    PROVE  Paid(s)' = IF log[i].name = "Spent" /\ log[i].shape = s
                      THEN Paid(s) + 1 ELSE Paid(s)
<1>1. PICK e \in Events : /\ e.delivered = log[i].delivered + 1
                          /\ e.name = log[i].name /\ e.shape = log[i].shape
                          /\ Differs(log', log, i, e)
  BY DEF DeliveredAgain
<1> DEFINE f == Deliveries  g == Deliveries'  S == Payments(s)  T == Payments(s)'
<1>2. /\ DOMAIN log = 1..Len(log) /\ Len(log) \in Nat /\ DOMAIN log' = DOMAIN log
      /\ log'[i] = e /\ \A j \in DOMAIN log : j # i => log'[j] = log[j]
  BY <1>1, LogNow DEF Differs
<1>3. S = T
  BY <1>1, <1>2 DEF Payments
<1>4. \A j \in DOMAIN log : j # i => f[j] = g[j]
  BY <1>2 DEF Deliveries
<1>5. g[i] = f[i] + 1 /\ f[i] \in Nat
  BY <1>1, <1>2, LogNow DEF Deliveries
<1>6. /\ IsFiniteSet(S) /\ S \subseteq DOMAIN log
      /\ \A j \in S : f[j] \in Nat
  BY LogNow
<1>7. \A j \in T : g[j] \in Nat
  BY LogNow
<1>8. Paid(s) = SumOver(f, S) /\ Paid(s)' = SumOver(g, T)
      /\ Paid(s) \in Nat /\ Paid(s)' \in Nat
  BY LogNow DEF Paid
<1>9. i \in S <=> log[i].name = "Spent" /\ log[i].shape = s
  BY DEF Payments
<1> HIDE DEF f, g, S, T
<1>10. CASE i \in S
  <2>1. \A j \in S \ {i} : f[j] = g[j]
    BY <1>4, <1>6
  <2>2. \A j \in S : f[j] \in Nat /\ g[j] \in Nat
    BY <1>3, <1>6, <1>7
  <2>3. SumOver(g, S) = SumOver(f, S) + (g[i] - f[i])
    BY <1>6, <1>10, <2>1, <2>2, SumChange
  <2> QED BY <1>3, <1>5, <1>8, <1>9, <1>10, <2>3
<1>11. CASE i \notin S
  <2>1. \A j \in S : f[j] = g[j]
    BY <1>4, <1>6, <1>11
  <2>2. SumOver(f, S) = SumOver(g, S)
    BY <1>6, <2>1, SumSame
  <2> QED BY <1>3, <1>8, <1>9, <1>11, <2>2
<1> QED BY <1>10, <1>11

\* A step keeps every shape covered: the pledge grows only in the step that
\* delivers a payment of that shape.
LEMMA CoverKept ==
    ASSUME Base, TypeOK', AllCovered, [Next]_vars PROVE AllCovered'
<1>0. RowsFrame /\ AlertsFrame
  BY TablesSteps, Frames
<1> SUFFICES ASSUME NEW s \in Shapes PROVE Covered(s)'
  BY DEF AllCovered
<1>1. IsFiniteSet(Approving(s)) /\ Pledged(s) <= Paid(s)
  BY DEF AllCovered, Covered, Paid
<1>2. Paid(s) \in Nat /\ Paid(s)' \in Nat
  BY LogNow DEF Base
<1>3. ASSUME Plain, Paid(s)' >= Paid(s) PROVE Covered(s)'
  <2>1. Kept(s)
    BY <1>0, <1>1, <1>3, PlainPledge
  <2> QED BY <1>1, <1>2, <1>3, <2>1 DEF Kept, Covered, Paid
<1>4. CASE OnChain
  <2>1. Plain
    BY <1>4 DEF OnChain, Plain, tables
  <2>2. Paid(s)' >= Paid(s)
    BY <1>4, PaidOnChain DEF Base
  <2> QED BY <1>3, <2>1, <2>2
<1>5. ASSUME NEW w \in Workers, NEW i \in DOMAIN log, DeliveredAgain(i),
             Delivery(w, i)
      PROVE  Covered(s)'
  <2>1. Paid(s)' = IF log[i].name = "Spent" /\ log[i].shape = s
                   THEN Paid(s) + 1 ELSE Paid(s)
    BY <1>5, PaidAgain DEF Base
  <2>2. CASE log[i].name = "Spent" /\ Found(w, log[i].shape)
    <3>1. /\ IsFiniteSet(Approving(s)') /\ Pledged(s) \in Nat /\ Pledged(s)' \in Nat
          /\ s # log[i].shape => Pledged(s)' <= Pledged(s)
          /\ Pledged(s)' <= Pledged(s) + 1
      BY <1>0, <1>1, <2>2, FoundPledge
    <3>2. Pledged(s)' <= Paid(s)'
      BY <1>1, <1>2, <2>1, <2>2, <3>1
    <3> QED BY <3>1, <3>2 DEF Covered, Paid
  <2>3. CASE ~(log[i].name = "Spent" /\ Found(w, log[i].shape))
    <3>1. Plain
      BY <1>5, <2>3 DEF Delivery, Plain, Rejecting
    <3>2. Paid(s)' >= Paid(s)
      BY <1>2, <2>1
    <3> QED BY <1>3, <3>1, <3>2
  <2> QED BY <2>2, <2>3
<1>6. CASE Quiet
  <2>1. Plain
    BY <1>6 DEF Quiet, Plain
  <2>2. Paid(s)' = Paid(s)
    BY <1>6 DEF Quiet, OffChain, chain, Paid, Deliveries, Payments
  <2> QED BY <1>2, <1>3, <2>1, <2>2
<1> QED BY <1>4, <1>5, <1>6, Steps

----------------------------------------------------------------------------

\* The inductive invariant.
Inv ==
    Base /\ LinkedToOwnAlert /\ KeysUnique /\ AllRejectedOnce /\ AllCovered

\* The empty tables satisfy it.
LEMMA InitInv == Init => Inv
<1> SUFFICES ASSUME Init PROVE Inv
  OBVIOUS
<1>0. /\ log = <<>> /\ rows = <<>> /\ alerts = <<>>
      /\ \A w \in Workers : worker[w] = Idle
  BY DEF Init
<1>1. DOMAIN log = {} /\ DOMAIN rows = {} /\ DOMAIN alerts = {}
  BY <1>0
<1>2. TypeOK
  <2>1. [state |-> "none"] \in Requests /\ Idle \in Handlers
    BY DEF Requests, Handlers, Idle
  <2>2. request \in [Keys -> Requests] /\ worker \in [Workers -> Handlers]
    BY <2>1 DEF Init
  <2>3. used \in Counters /\ vaultKnown \in BOOLEAN
    BY ApprovalAssumption DEF Init, Counters
  <2>4. log \in Seq(Events) /\ rows \in Seq(Rows) /\ alerts \in Seq(Alerts)
    BY <1>0, EmptySeq
  <2> QED BY <1>1, <2>2, <2>3, <2>4 DEF TypeOK
<1>3. EventsTrue /\ HandlersReady
  BY <1>0, <1>1 DEF EventsTrue, HandlersReady, Ready, Idle
<1>4. LinkedToOwnAlert /\ KeysUnique /\ AllRejectedOnce
  BY <1>1 DEF LinkedToOwnAlert, KeysUnique, AllRejectedOnce
<1>5. ASSUME NEW s \in Shapes PROVE Covered(s)
  <2>1. Approving(s) = {} /\ Approved(s) = {} /\ Payments(s) = {}
    BY <1>0, <1>1 DEF Approving, Approves, Idle, Approved, Verdicts, Payments
  <2>2. Cardinality({}) = 0 /\ IsFiniteSet({}) /\ SumOver(Deliveries, {}) = 0
    BY FS_EmptySet, SumEmpty
  <2> QED BY <2>1, <2>2 DEF Covered, Pledged
<1> QED BY <1>2, <1>3, <1>4, <1>5 DEF Inv, Base, AllCovered

\* Every step preserves it.
LEMMA NextInv == Inv /\ [Next]_vars => Inv'
<1> SUFFICES ASSUME Inv, [Next]_vars PROVE Inv'
  OBVIOUS
<1>0. Base /\ LinkedToOwnAlert /\ KeysUnique /\ AllRejectedOnce /\ AllCovered
  BY DEF Inv
<1>1. TablesStep
  BY <1>0, TablesSteps
<1>2. ChainTyped' /\ EventsTrue' /\ CancelledKept
  BY <1>0, NextChain
<1>3. HandlersReady' /\ worker' \in [Workers -> Handlers]
  BY <1>0, <1>1, NextReady
<1>4. TablesLinked' /\ LinkedToOwnAlert'
  BY <1>0, <1>1, LinksKept
<1>5. RowsFrame /\ AlertsFrame
  BY <1>0, <1>1, Frames
<1>6. TypeOK'
  BY <1>2, <1>3, <1>4, <1>5 DEF TypeOK, ChainTyped, TablesLinked, RowsFrame, AlertsFrame
<1>7. KeysUnique'
  BY <1>0, <1>1, KeysKept
<1>8. UNCHANGED request \/ UNCHANGED <<tables, worker>>
  BY <1>0, Steps DEF OnChain, Delivery, Quiet, OffChain, chain, tables
<1>9. AllRejectedOnce'
  BY <1>0, <1>1, <1>2, <1>8, RejectionsKept
<1>10. AllCovered'
  BY <1>0, <1>6, CoverKept
<1> QED BY <1>2, <1>3, <1>4, <1>6, <1>7, <1>9, <1>10 DEF Inv, Base

\* It holds in every reachable state.
LEMMA Invariance == Spec => []Inv
BY InitInv, NextInv, PTL DEF Spec

\* Requests, events, rows, alerts and handlers have their types; every link and
\* every alert points to a row or alert that exists, so that no handler of
\* alerts.rs updates a row that is not there.
THEOREM ApprovalTypeCorrect == Spec => []TypeOK
<1>1. Inv => TypeOK
  BY DEF Inv, Base
<1> QED BY <1>1, Invariance, PTL

\* Whatever the order and the number of deliveries, and on however many handlers
\* at once, a request has one row, linked to an alert about that row.
THEOREM RowsMatch == Spec => []RowsMatchRequests
<1>1. Inv => RowsMatchRequests
  BY UniqueRows DEF Inv, Base, RowsMatchRequests
<1> QED BY <1>1, Invariance, PTL

\* The owner is told "rejected" at most once per row, only of a request that was
\* cancelled on chain, and only after its row left "pending".
THEOREM RejectionsAreExact == Spec => []RejectionsExact
<1>1. Inv => RejectionsExact
  BY OnceIsExact DEF Inv
<1> QED BY <1>1, Invariance, PTL

\* For every service and amount, no more approvals are told than payments were
\* delivered: concurrent runs of spend_approved_mirror invent none.
THEOREM ApprovalsAreBacked == Spec => []ApprovalsBacked
<1>1. ASSUME Inv PROVE ApprovalsBacked
  <2>1. ASSUME NEW s \in Shapes
        PROVE  Cardinality(Approved(s)) <= SumOver(Deliveries, Payments(s))
    <3>1. /\ IsFiniteSet(Approving(s))
          /\ Cardinality(Approved(s)) + Cardinality(Approving(s)) <= Paid(s)
      BY <1>1 DEF Inv, AllCovered, Covered, Pledged, Paid
    <3>2. Cardinality(Approved(s)) \in Nat /\ Cardinality(Approving(s)) \in Nat
      BY <1>1, <3>1, ApprovedFinite, FS_CardinalityType DEF Inv, Base
    <3>3. LogFact(log, s)
      BY <1>1, LogFacts DEF Inv, Base, TypeOK
    <3>4. Paid(s) \in Nat
      BY <3>3 DEF LogFact, Paid, Deliveries, Payments
    <3> QED BY <3>1, <3>2, <3>4 DEF Paid
  <2> QED BY <2>1 DEF ApprovalsBacked, Approved
<1> QED BY <1>1, Invariance, PTL

\* No statement of any handler and no call of the owner makes a decided row
\* pending again.
THEOREM RowsNeverReopen == Spec => NeverReopened
<1> DEFINE Same == \A i \in DOMAIN rows : rows[i].status # "pending"
                                          => rows'[i].status # "pending"
<1>1. ASSUME Inv, [Next]_vars PROVE [Same]_vars
  <2>1. RowsFrame
    BY <1>1, TablesSteps, Frames DEF Inv
  <2> QED BY <2>1 DEF RowsFrame
<1>2. Inv /\ [Next]_vars => [Same]_vars
  BY <1>1
<1> HIDE DEF Same
<1>3. Spec => [][Same]_vars
  BY <1>2, Invariance, PTL DEF Spec
<1> QED BY <1>3 DEF NeverReopened, Same
=============================================================================
