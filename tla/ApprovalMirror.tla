--------------------------- MODULE ApprovalMirror ---------------------------
(***************************************************************************)
(* The over-limit requests of one vault as the backend shows them:         *)
(* credit_vault emits an event per request, payment and cancellation,      *)
(* Helius delivers each at least once and in any order, and the handlers   *)
(* of backend/src/alerts.rs, running concurrently with each other and with *)
(* the owner's HTTP calls (backend/src/routes/api/spends.rs), keep the     *)
(* tables pending_spends and alerts.                                       *)
(*                                                                         *)
(* One step is one SQL statement, save the UPDATE of spend_approved_mirror,*)
(* which is two: under Postgres' READ COMMITTED the subquery reads the     *)
(* statement's snapshot once, and a row that changed meanwhile is tested   *)
(* again only against the outer condition, "id = <the id found>".          *)
(***************************************************************************)
EXTENDS Integers, Sequences, FiniteSets, FiniteSetsExt, FiniteSums

CONSTANTS
    Keys,           \* addresses of PendingSpend accounts, one per request
    None,           \* a NULL column, a field an event does not have
    Shapes,         \* what a Spent event tells: service and amount
    Workers,        \* handlers that run at the same time
    VaultIndexed,   \* the vault has its row in `vaults` from the start
    InOrder,        \* events arrive in chain order
    MaxReplays,     \* bound of the run: deliveries of an event delivered before
    MaxDirect,      \* bound of the run: payments by `spend`
    MaxOwner,       \* bound of the run: HTTP calls of the owner
    MaxFaults       \* bound of the run: handlers ended by an error

ASSUME ApprovalAssumption ==
    /\ None \notin Keys \cup Shapes
    /\ VaultIndexed \in BOOLEAN /\ InOrder \in BOOLEAN
    /\ {MaxReplays, MaxDirect, MaxOwner, MaxFaults} \subseteq Nat

VARIABLES
    request,    \* each key's request on chain, with its shape
    log,        \* events in chain order, with the deliveries of each
    vaultKnown, \* the vault's row exists: its owner can be looked up
    rows,       \* pending_spends; a row's id is its place
    alerts,     \* alerts about pending_spends rows; likewise
    worker,     \* what each handler does next
    used        \* how much of each bound is used

chain == <<request, log>>
tables == <<rows, alerts>>
vars == <<chain, vaultKnown, tables, worker, used>>

Events ==
    [name : {"SpendRequested", "Spent", "SpendRejected"},
     key : Keys \cup {None}, shape : Shapes \cup {None},
     delivered : 0..(MaxReplays + 1)]

Rows ==
    [key : Keys \cup {None}, shape : Shapes,
     status : {"pending", "approved", "rejected"}, alert : Nat]

Alerts ==
    [kind : {"ApprovalRequired", "ApprovalApproved", "ApprovalRejected"},
     row : Nat, read : BOOLEAN]

Requests ==
    [state : {"none"}]
       \cup [state : {"queued", "approved", "cancelled"}, shape : Shapes]

Handlers ==
    [pc : {"idle", "emit", "backref", "flip", "clear", "verdict"},
     row : Nat, alert : Nat,
     kind : {"none", "ApprovalRequired", "ApprovalApproved", "ApprovalRejected"}]

Counters ==
    [replays : 0..MaxReplays, direct : 0..MaxDirect,
     owner : 0..MaxOwner, faults : 0..MaxFaults]

Idle == [pc |-> "idle", row |-> 0, alert |-> 0, kind |-> "none"]

TypeOK ==
    /\ request \in [Keys -> Requests]
    /\ log \in Seq(Events)
    /\ vaultKnown \in BOOLEAN
    /\ rows \in Seq(Rows)
    /\ \A i \in DOMAIN rows : rows[i].alert <= Len(alerts)
    /\ alerts \in Seq(Alerts)
    /\ \A a \in DOMAIN alerts : alerts[a].row \in DOMAIN rows
    /\ worker \in [Workers -> Handlers]
    /\ used \in Counters

Init ==
    /\ request = [k \in Keys |-> [state |-> "none"]]
    /\ log = <<>>
    /\ vaultKnown = VaultIndexed
    /\ rows = <<>> /\ alerts = <<>>
    /\ worker = [w \in Workers |-> Idle]
    /\ used = [replays |-> 0, direct |-> 0, owner |-> 0, faults |-> 0]

----------------------------------------------------------------------------
(* The chain: what the instructions do to a request, and their events.     *)
(* CreditVault has the instructions in full; their other checks (freeze,   *)
(* whitelist, limits, balance) only rule sequences of events out.          *)

Emitted(name, k, s) ==
    Append(log, [name |-> name, key |-> k, shape |-> s, delivered |-> 0])

request_spend(k, s) ==
    /\ request[k].state = "none"
    /\ request' = [request EXCEPT ![k] = [state |-> "queued", shape |-> s]]
    /\ log' = Emitted("SpendRequested", k, s)
    /\ UNCHANGED <<vaultKnown, tables, worker, used>>

\* The Spent event names vault, service and amount, and not the request.
approve_spend(k) ==
    /\ request[k].state = "queued"
    /\ request' = [request EXCEPT ![k].state = "approved"]
    /\ log' = Emitted("Spent", None, request[k].shape)
    /\ UNCHANGED <<vaultKnown, tables, worker, used>>

cancel_spend(k) ==
    /\ request[k].state = "queued"
    /\ request' = [request EXCEPT ![k].state = "cancelled"]
    /\ log' = Emitted("SpendRejected", k, None)
    /\ UNCHANGED <<vaultKnown, tables, worker, used>>

\* A payment within the limits emits the same event.
spend(s) ==
    /\ used.direct < MaxDirect
    /\ log' = Emitted("Spent", None, s)
    /\ used' = [used EXCEPT !.direct = @ + 1]
    /\ UNCHANGED <<request, vaultKnown, tables, worker>>

\* mirror::refresh writes the vault's row once its VaultCreated is stored.
IndexVault ==
    /\ ~vaultKnown
    /\ vaultKnown' = TRUE
    /\ UNCHANGED <<chain, tables, worker, used>>

----------------------------------------------------------------------------
(* The tables.                                                             *)

RowsOf(k) == {i \in DOMAIN rows : rows[i].key = k}

PendingOf(s) ==
    {i \in DOMAIN rows : rows[i].shape = s /\ rows[i].status = "pending"}

NewRow(k, s) == [key |-> k, shape |-> s, status |-> "pending", alert |-> 0]

Decided(i, status) == [rows EXCEPT ![i].status = status]

Continue(w, pc, i, a, kind) ==
    worker' = [worker EXCEPT ![w] =
                  [pc |-> pc, row |-> i, alert |-> a, kind |-> kind]]

Finish(w) == worker' = [worker EXCEPT ![w] = Idle]

\* emit: the alert is stored, then pushed to sockets and devices.
Emit(kind, i) ==
    alerts' = Append(alerts, [kind |-> kind, row |-> i, read |-> FALSE])

----------------------------------------------------------------------------
(* The handlers' first statements.                                         *)

\* Mutant: ON CONFLICT ... SET status = 'pending'.
spend_requested_alert_Reopens(w, ev) ==
    IF ~vaultKnown THEN UNCHANGED <<rows, worker>>
    ELSE IF RowsOf(ev.key) = {}
    THEN /\ rows' = Append(rows, NewRow(ev.key, ev.shape))
         /\ Continue(w, "emit", Len(rows) + 1, 0, "ApprovalRequired")
    ELSE \E i \in RowsOf(ev.key) :
            /\ rows' = Decided(i, "pending")
            /\ Continue(w, "emit", i, 0, "ApprovalRequired")

\* Mutant: INSERT without ON CONFLICT and without the unique index.
spend_requested_alert_Inserts(w, ev) ==
    IF ~vaultKnown THEN UNCHANGED <<rows, worker>>
    ELSE /\ rows' = Append(rows, NewRow(ev.key, ev.shape))
         /\ Continue(w, "emit", Len(rows) + 1, 0, "ApprovalRequired")

\* No row of the vault: the event is dropped.  A key already stored is left
\* as it is (owner = EXCLUDED.owner), and the alert is emitted again.
spend_requested_alert(w, ev) ==
    IF ~vaultKnown THEN UNCHANGED <<rows, worker>>
    ELSE IF RowsOf(ev.key) = {}
    THEN /\ rows' = Append(rows, NewRow(ev.key, ev.shape))
         /\ Continue(w, "emit", Len(rows) + 1, 0, "ApprovalRequired")
    ELSE /\ UNCHANGED rows
         /\ \E i \in RowsOf(ev.key) :
               Continue(w, "emit", i, 0, "ApprovalRequired")

\* The subquery: the oldest pending row of the event's shape.
spend_approved_mirror(w, ev) ==
    /\ UNCHANGED rows
    /\ IF PendingOf(ev.shape) = {} THEN UNCHANGED worker
       ELSE Continue(w, "flip", Min(PendingOf(ev.shape)), 0, "ApprovalApproved")

\* Mutant: a rejection takes the oldest pending row, like an approval.
spend_rejected_mirror_Oldest(w, ev) ==
    LET open == UNION {PendingOf(s) : s \in Shapes} IN
    IF open = {} THEN UNCHANGED <<rows, worker>>
    ELSE LET i == Min(open) IN
         /\ rows' = Decided(i, "rejected")
         /\ Continue(w, "clear", i, rows[i].alert, "ApprovalRejected")

spend_rejected_mirror(w, ev) ==
    LET open == {i \in RowsOf(ev.key) : rows[i].status = "pending"} IN
    IF open = {} THEN UNCHANGED <<rows, worker>>
    ELSE \E i \in open :
            /\ rows' = Decided(i, "rejected")
            /\ Continue(w, "clear", i, rows[i].alert, "ApprovalRejected")

\* A webhook with event i reaches dispatch.  The events table absorbs a
\* replay; dispatch gets the parsed events, stored before or not.
dispatch(w, i) ==
    /\ worker[w].pc = "idle"
    /\ log[i].delivered > 0 => used.replays < MaxReplays
    /\ used' = IF log[i].delivered = 0 THEN used
               ELSE [used EXCEPT !.replays = @ + 1]
    /\ InOrder => \A j \in 1..(i - 1) : log[j].delivered > 0
    /\ log' = [log EXCEPT ![i].delivered = @ + 1]
    /\ CASE log[i].name = "SpendRequested" -> spend_requested_alert(w, log[i])
         [] log[i].name = "Spent" -> spend_approved_mirror(w, log[i])
         [] log[i].name = "SpendRejected" -> spend_rejected_mirror(w, log[i])
    /\ UNCHANGED <<request, vaultKnown, alerts>>

\* POST /api/spends/request: a row with no key, whatever the chain holds.
http_request(w, s) ==
    /\ worker[w].pc = "idle"
    /\ vaultKnown
    /\ used.owner < MaxOwner
    /\ used' = [used EXCEPT !.owner = @ + 1]
    /\ rows' = Append(rows, NewRow(None, s))
    /\ Continue(w, "emit", Len(rows) + 1, 0, "ApprovalRequired")
    /\ UNCHANGED <<chain, vaultKnown, alerts>>

\* Mutant: the owner is told that the payment was made.
decide_Announces(w, i, status) ==
    /\ worker[w].pc = "idle"
    /\ used.owner < MaxOwner
    /\ \E a \in DOMAIN alerts : alerts[a].row = i
    /\ rows[i].status = "pending"
    /\ used' = [used EXCEPT !.owner = @ + 1]
    /\ rows' = Decided(i, status)
    /\ Continue(w, "clear", i, rows[i].alert, "ApprovalApproved")
    /\ UNCHANGED <<chain, vaultKnown, alerts>>

\* POST /api/spends/{id}/approve and reject.  The owner knows the row from an
\* alert about it.
decide(w, i, status) ==
    /\ worker[w].pc = "idle"
    /\ used.owner < MaxOwner
    /\ \E a \in DOMAIN alerts : alerts[a].row = i
    /\ rows[i].status = "pending"
    /\ used' = [used EXCEPT !.owner = @ + 1]
    /\ rows' = Decided(i, status)
    /\ Continue(w, "clear", i, rows[i].alert, "none")
    /\ UNCHANGED <<chain, vaultKnown, alerts>>

----------------------------------------------------------------------------
(* The handlers' later statements.                                         *)

\* Mutant: the id of an alert that was not stored.
EmitRequired_Unstored(w) ==
    /\ worker[w].pc = "emit"
    /\ Continue(w, "backref", worker[w].row, Len(alerts) + 1, "ApprovalRequired")
    /\ UNCHANGED <<chain, vaultKnown, tables, used>>

EmitRequired(w) ==
    /\ worker[w].pc = "emit"
    /\ Emit("ApprovalRequired", worker[w].row)
    /\ Continue(w, "backref", worker[w].row, Len(alerts) + 1, "ApprovalRequired")
    /\ UNCHANGED <<chain, vaultKnown, rows, used>>

\* Mutant: the alert is linked to the newest row.
Backref_Newest(w) ==
    /\ worker[w].pc = "backref"
    /\ rows' = [rows EXCEPT ![Len(rows)].alert = worker[w].alert]
    /\ Finish(w)
    /\ UNCHANGED <<chain, vaultKnown, alerts, used>>

Backref(w) ==
    /\ worker[w].pc = "backref"
    /\ rows' = [rows EXCEPT ![worker[w].row].alert = worker[w].alert]
    /\ Finish(w)
    /\ UNCHANGED <<chain, vaultKnown, alerts, used>>

\* The update itself, of the row the subquery found.
Flip(w) ==
    LET i == worker[w].row IN
    /\ worker[w].pc = "flip"
    /\ rows' = Decided(i, "approved")
    /\ Continue(w, "clear", i, rows[i].alert, "ApprovalApproved")
    /\ UNCHANGED <<chain, vaultKnown, alerts, used>>

\* The request's alert, as far as the row is linked to one, is read.  This
\* ends decide; the mirrors go on to emit the verdict.
ClearBadge(w) ==
    LET a == worker[w].alert IN
    /\ worker[w].pc = "clear"
    /\ alerts' = IF a = 0 THEN alerts ELSE [alerts EXCEPT ![a].read = TRUE]
    /\ IF worker[w].kind = "none" THEN Finish(w)
       ELSE Continue(w, "verdict", worker[w].row, a, worker[w].kind)
    /\ UNCHANGED <<chain, vaultKnown, rows, used>>

EmitVerdict(w) ==
    /\ worker[w].pc = "verdict"
    /\ Emit(worker[w].kind, worker[w].row)
    /\ Finish(w)
    /\ UNCHANGED <<chain, vaultKnown, rows, used>>

\* A statement fails, or the process stops: the error is logged, the
\* webhook is answered 202 or lost, and nothing resumes the handler.
Fail(w) ==
    /\ worker[w].pc # "idle"
    /\ used.faults < MaxFaults
    /\ used' = [used EXCEPT !.faults = @ + 1]
    /\ Finish(w)
    /\ UNCHANGED <<chain, vaultKnown, tables>>

\* POST /api/alerts/{id}/read, one alert, or read-all.
mark_read ==
    /\ used.owner < MaxOwner
    /\ used' = [used EXCEPT !.owner = @ + 1]
    /\ \E A \in {{a} : a \in DOMAIN alerts} \cup {DOMAIN alerts} :
          /\ \E a \in A : ~alerts[a].read
          /\ alerts' = [a \in DOMAIN alerts |->
                           [alerts[a] EXCEPT !.read = @ \/ a \in A]]
    /\ UNCHANGED <<chain, vaultKnown, rows, worker>>

Chain ==
    \/ \E k \in Keys, s \in Shapes : request_spend(k, s)
    \/ \E k \in Keys : approve_spend(k) \/ cancel_spend(k)
    \/ \E s \in Shapes : spend(s)

Deliver == \E w \in Workers, i \in DOMAIN log : dispatch(w, i)

Resume(w) ==
    EmitRequired(w) \/ Backref(w) \/ Flip(w) \/ ClearBadge(w) \/ EmitVerdict(w)

Owner ==
    \/ \E w \in Workers, s \in Shapes : http_request(w, s)
    \/ \E w \in Workers, i \in DOMAIN rows, status \in {"approved", "rejected"} :
          decide(w, i, status)
    \/ mark_read

Next ==
    \/ Chain \/ IndexVault \/ Deliver \/ Owner
    \/ \E w \in Workers : Resume(w) \/ Fail(w)

Spec == Init /\ [][Next]_vars

\* Helius delivers what was never delivered; a handler that started goes on.
FairSpec ==
    /\ Spec
    /\ WF_vars(\E w \in Workers, i \in DOMAIN log :
                  log[i].delivered = 0 /\ dispatch(w, i))
    /\ \A w \in Workers : WF_vars(Resume(w))

----------------------------------------------------------------------------
(* Properties.                                                             *)

AlertsOf(kind, i) ==
    {a \in DOMAIN alerts : alerts[a].kind = kind /\ alerts[a].row = i}

Verdicts(kind, s) ==
    {a \in DOMAIN alerts : alerts[a].kind = kind /\ rows[alerts[a].row].shape = s}

\* How often each event was delivered, and the payments of a shape.
Deliveries == [i \in DOMAIN log |-> log[i].delivered]

Payments(s) == {i \in DOMAIN log : log[i].name = "Spent" /\ log[i].shape = s}

\* However often and on however many handlers a SpendRequested is delivered,
\* the request has one row (the upsert of spend_requested_alert).
OneRowPerRequest == \A k \in Keys : Cardinality(RowsOf(k)) <= 1

\* A row that was decided is never pending again: a late or repeated
\* SpendRequested does not put a settled request back before the owner.
NeverReopened ==
    [][\A i \in DOMAIN rows : rows[i].status # "pending"
                              => rows'[i].status # "pending"]_vars

\* The owner is told "rejected" at most once per row, only of the request
\* that was cancelled on chain, and never before its row left "pending".
RejectionsExact ==
    \A i \in DOMAIN rows :
       LET told == AlertsOf("ApprovalRejected", i) IN
       /\ Cardinality(told) <= 1
       /\ told # {} => /\ rows[i].key \in Keys
                       /\ request[rows[i].key].state = "cancelled"
                       /\ rows[i].status # "pending"

\* Every "approved" told to the owner answers a delivery of a payment of that
\* service and amount: handlers that race do not invent approvals.
ApprovalsBacked ==
    \A s \in Shapes :
       Cardinality(Verdicts("ApprovalApproved", s))
          <= SumOver(Deliveries, Payments(s))

\* A row is linked to an alert about that row, so that deciding one request
\* never marks another request's alert as read (alert_id in pending_spends).
LinkedToOwnAlert ==
    \A i \in DOMAIN rows : rows[i].alert # 0
       => /\ alerts[rows[i].alert].row = i
          /\ alerts[rows[i].alert].kind = "ApprovalRequired"

\* The rows are those of the requests: one each, with an alert of its own.
RowsMatchRequests == OneRowPerRequest /\ LinkedToOwnAlert

\* A request whose event is yet to arrive when the vault has its row comes to
\* the owner, unless a handler fails: a row, and an alert that approval is
\* required, whatever the owner and the handlers of other events do meanwhile.
RequestsSurface ==
    \A k \in Keys :
       (vaultKnown /\ \E i \in DOMAIN log : log[i].key = k /\ log[i].delivered = 0
                                          /\ log[i].name = "SpendRequested")
          ~> \/ \E i \in RowsOf(k) : AlertsOf("ApprovalRequired", i) # {}
             \/ used.faults > 0

\* One statement "avoids the read-modify-write race against a concurrent HTTP
\* /decide call" (spend_approved_mirror): a decision stands.
DecisionStands ==
    [][\A i \in DOMAIN rows : rows[i].status # "pending"
                              => rows'[i].status = rows[i].status]_vars

=============================================================================
