------------------------------ MODULE WsStream ------------------------------
(***************************************************************************)
(* One live subscription, end to end: the broadcast hub                    *)
(* (backend/src/ws_hub.rs), the per-socket task of serve_stream            *)
(* (backend/src/routes/ws.rs) and the SDK's reconnecting client            *)
(* (clients/sdk/src/live.ts), over a network that may drop a connection.   *)
(* One channel key; a frame is its place in the broadcast order.           *)
(***************************************************************************)
EXTENDS Integers, Sequences, FiniteSets

CONSTANTS
    Capacity,   \* WS_CHANNEL_CAPACITY
    WireCap,    \* frames a socket takes before session.text has to wait
    IdleTicks,  \* CLIENT_IDLE_TIMEOUT / HEARTBEAT_INTERVAL
    MaxFrames,  \* bound of the run: broadcasts
    MaxFaults   \* bound of the run: connections lost or refused

ASSUME StreamAssumption ==
    /\ Capacity \in Nat \ {0} /\ WireCap \in Nat \ {0}
    /\ IdleTicks \in Nat /\ MaxFrames \in Nat /\ MaxFaults \in Nat

\* A new connection is opened only after a fault ended the one before.
Conns == 1..(MaxFaults + 1)

VARIABLES
    \* the hub and its subscribers
    sub,        \* connections whose Sender is in the hub's map
    buf,        \* the channel of each connection
    sent,       \* frames broadcast so far
    \* the serve_stream task of each connection
    task,       \* "none", "running", "sending" (in session.text), "ended"
    held,       \* the frame a task in session.text is sending
    silent,     \* heartbeats since the last pong
    wire,       \* frames on their way to the client
    \* the client
    socket,     \* readyState of each connection's socket
    cur,        \* sockets made so far, the last one current
    alive, status,
    attempts,   \* attempts > 0: all connect() looks at
    chain,      \* what the connect loop waits for
    \* the world
    faults,     \* connections lost or refused so far
    received    \* the last onFrame call, as <<connection, frame>>

hub == <<sub, buf, sent>>
server == <<task, held, silent>>
client == <<alive, status, attempts, chain>>
vars == <<hub, server, wire, socket, cur, client, faults, received>>

TypeOK ==
    /\ sub \subseteq Conns
    /\ buf \in [Conns -> Seq(1..MaxFrames)] /\ wire \in [Conns -> Seq(1..MaxFrames)]
    /\ \A c \in Conns : Len(buf[c]) <= Capacity /\ Len(wire[c]) <= WireCap
    /\ sent \in 0..MaxFrames
    /\ task \in [Conns -> {"none", "running", "sending", "ended"}]
    /\ held \in [Conns -> 0..MaxFrames]
    /\ silent \in [Conns -> 0..(IdleTicks + 1)]
    /\ socket \in [Conns -> {"none", "connecting", "open", "closed"}]
    /\ cur \in 0..(MaxFaults + 1)
    /\ alive \in BOOLEAN /\ attempts \in BOOLEAN
    /\ status \in {"connecting", "open", "reconnecting", "closed"}
    /\ chain \in {"resolving", "socket", "timer", "done"}
    /\ faults \in 0..MaxFaults
    /\ received \in (0..MaxFaults + 1) \X (0..MaxFrames)

\* subscribe() calls connect(), which waits for the WebSocket constructor.
Init ==
    /\ sub = {} /\ sent = 0
    /\ buf = [c \in Conns |-> <<>>] /\ wire = [c \in Conns |-> <<>>]
    /\ task = [c \in Conns |-> "none"]
    /\ held = [c \in Conns |-> 0] /\ silent = [c \in Conns |-> 0]
    /\ socket = [c \in Conns |-> "none"]
    /\ cur = 0
    /\ alive = TRUE /\ status = "connecting" /\ attempts = FALSE
    /\ chain = "resolving"
    /\ faults = 0 /\ received = <<0, 0>>

----------------------------------------------------------------------------
(* The hub.                                                                *)

\* The receiver is dropped when the task ends.
Receiving(c) == task[c] \in {"running", "sending"}

TrySend(c) == Receiving(c) /\ Len(buf[c]) < Capacity

\* Mutant: a subscriber that is full misses the frame and stays.
broadcast_Lossy ==
    /\ sent < MaxFrames
    /\ sent' = sent + 1
    /\ buf' = [c \in Conns |-> IF c \in sub /\ TrySend(c)
                               THEN Append(buf[c], sent + 1) ELSE buf[c]]
    /\ sub' = {c \in sub : Receiving(c)}
    /\ UNCHANGED <<server, wire, socket, cur, client, faults, received>>

\* Under the hub's lock: every subscriber gets the frame or is dropped.
broadcast ==
    /\ sent < MaxFrames
    /\ sent' = sent + 1
    /\ buf' = [c \in Conns |-> IF c \in sub /\ TrySend(c)
                               THEN Append(buf[c], sent + 1) ELSE buf[c]]
    /\ sub' = {c \in sub : TrySend(c)}
    /\ UNCHANGED <<server, wire, socket, cur, client, faults, received>>

----------------------------------------------------------------------------
(* serve_stream.                                                           *)

Accept(c) ==
    /\ socket[c] = "connecting" /\ task[c] = "none"
    /\ task' = [task EXCEPT ![c] = "running"]
    /\ sub' = sub \cup {c}
    /\ UNCHANGED <<buf, sent, held, silent, wire, socket, cur, client,
                   faults, received>>

\* The branch Some(payload) = rx.recv().  Once the Sender is dropped and the
\* channel empty, recv() is None: the pattern fails and the branch is off.
Recv(c) ==
    /\ task[c] = "running"
    /\ buf[c] # <<>>
    /\ held' = [held EXCEPT ![c] = Head(buf[c])]
    /\ buf' = [buf EXCEPT ![c] = Tail(@)]
    /\ task' = [task EXCEPT ![c] = "sending"]
    /\ UNCHANGED <<sub, sent, silent, wire, socket, cur, client, faults,
                   received>>

Text(c) ==
    /\ task[c] = "sending"
    /\ Len(wire[c]) < WireCap
    /\ wire' = [wire EXCEPT ![c] = Append(@, held[c])]
    /\ held' = [held EXCEPT ![c] = 0]
    /\ task' = [task EXCEPT ![c] = "running"]
    /\ UNCHANGED <<hub, silent, socket, cur, client, faults, received>>

\* Leaving the loop: session.close, and rx and its buffer are dropped.
Break(c) ==
    /\ task' = [task EXCEPT ![c] = "ended"]
    /\ buf' = [buf EXCEPT ![c] = <<>>]
    /\ held' = [held EXCEPT ![c] = 0]
    /\ silent' = [silent EXCEPT ![c] = 0]

\* session.text fails: the kernel gave up on a peer that is gone.
TextFails(c) ==
    /\ task[c] = "sending" /\ socket[c] = "closed"
    /\ Break(c)
    /\ UNCHANGED <<sub, sent, wire, socket, cur, client, faults, received>>

\* msg_stream yields Close, an error or its end.  A half-open socket may
\* never do so.
PeerGone(c) ==
    /\ task[c] = "running" /\ socket[c] = "closed"
    /\ Break(c)
    /\ UNCHANGED <<sub, sent, wire, socket, cur, client, faults, received>>

Ping(c) ==
    /\ silent[c] <= IdleTicks
    /\ silent' = [silent EXCEPT ![c] = @ + 1]
    /\ UNCHANGED <<task, held, buf, faults>>

\* Mutant: a heartbeat that pings and never gives up.
Heartbeat_Patient(c) ==
    /\ task[c] = "running"
    /\ silent' = [silent EXCEPT ![c] = IF @ <= IdleTicks THEN @ + 1 ELSE @]
    /\ UNCHANGED <<task, held, buf, faults>>
    /\ UNCHANGED <<sub, sent, wire, socket, cur, client, received>>

\* heartbeat.tick().  The n-th tick since the last pong comes n - 1 to n
\* intervals after it, so the tick at IdleTicks may already be too late and
\* the one after surely is.  Timing out a client that still answers, only
\* late, is a fault of the network.
Heartbeat(c) ==
    /\ task[c] = "running"
    /\ \/ Ping(c)
       \/ /\ silent[c] >= IdleTicks
          /\ socket[c] # "closed" => faults < MaxFaults
          /\ faults' = IF socket[c] = "closed" THEN faults ELSE faults + 1
          /\ Break(c)
    /\ UNCHANGED <<sub, sent, wire, socket, cur, client, received>>

\* The client's WebSocket answers a ping by itself; the task takes the pong.
Pong(c) ==
    /\ task[c] = "running" /\ silent[c] > 0
    /\ socket[c] = "open"
    /\ silent' = [silent EXCEPT ![c] = 0]
    /\ UNCHANGED <<hub, task, held, wire, socket, cur, client, faults,
                   received>>

----------------------------------------------------------------------------
(* The client.                                                             *)

\* Mutant: alive is not looked at again after the await.
Resolved_Unchecked ==
    /\ chain = "resolving"
    /\ chain' = "socket"
    /\ cur' = cur + 1
    /\ socket' = [socket EXCEPT ![cur + 1] = "connecting"]
    /\ UNCHANGED <<hub, server, wire, alive, status, attempts, faults, received>>

\* connect() goes on after await getWebSocketCtor().
Resolved ==
    /\ chain = "resolving"
    /\ IF alive
       THEN /\ chain' = "socket"
            /\ cur' = cur + 1
            /\ socket' = [socket EXCEPT ![cur + 1] = "connecting"]
       ELSE /\ chain' = "done"
            /\ UNCHANGED <<cur, socket>>
    /\ UNCHANGED <<hub, server, wire, alive, status, attempts, faults, received>>

\* The "open" listener, which does not look at alive.
OnOpen(c) ==
    /\ socket[c] = "connecting" /\ task[c] # "none"
    /\ socket' = [socket EXCEPT ![c] = "open"]
    /\ attempts' = FALSE
    /\ status' = "open"
    /\ UNCHANGED <<hub, server, wire, cur, alive, chain, faults, received>>

\* The "message" listener.
OnMessage(c) ==
    /\ socket[c] = "open"
    /\ wire[c] # <<>>
    /\ received' = <<c, Head(wire[c])>>
    /\ wire' = [wire EXCEPT ![c] = Tail(@)]
    /\ UNCHANGED <<hub, server, socket, cur, client, faults>>

\* Mutant: the "close" listener schedules nothing.
ClosedSocket_NoRetry(c) ==
    /\ socket' = [socket EXCEPT ![c] = "closed"]
    /\ wire' = [wire EXCEPT ![c] = <<>>]
    /\ IF alive
       THEN attempts' = TRUE /\ status' = "reconnecting" /\ chain' = "done"
       ELSE UNCHANGED <<attempts, status, chain>>

\* The "close" listener: back off and reconnect, if still alive.
ClosedSocket(c) ==
    /\ socket' = [socket EXCEPT ![c] = "closed"]
    /\ wire' = [wire EXCEPT ![c] = <<>>]
    /\ IF alive
       THEN attempts' = TRUE /\ status' = "reconnecting" /\ chain' = "timer"
       ELSE UNCHANGED <<attempts, status, chain>>

\* The connection is lost or the handshake refused; the server may not know.
ConnectionLost(c) ==
    /\ socket[c] \in {"connecting", "open"}
    /\ faults < MaxFaults
    /\ faults' = faults + 1
    /\ ClosedSocket(c)
    /\ UNCHANGED <<hub, server, cur, alive, received>>

\* The server's close arrives behind the frames it sent.
ClosedByServer(c) ==
    /\ socket[c] = "open" /\ task[c] = "ended"
    /\ wire[c] = <<>>
    /\ ClosedSocket(c)
    /\ UNCHANGED <<hub, server, cur, alive, faults, received>>

\* The reconnect timer: connect() again.
TimerFires ==
    /\ chain = "timer"
    /\ status' = IF attempts THEN "reconnecting" ELSE "connecting"
    /\ chain' = "resolving"
    /\ UNCHANGED <<hub, server, wire, socket, cur, alive, attempts, faults,
                   received>>

\* Subscription.close(): the timer is cleared, and the socket is closed if it
\* is OPEN.  A socket still CONNECTING is let go of as it is.
close ==
    /\ alive' = FALSE
    /\ chain' = IF chain = "resolving" THEN chain ELSE "done"
    /\ status' = "closed"
    /\ LET current == {c \in Conns : alive /\ c = cur /\ socket[c] = "open"} IN
       /\ socket' = [c \in Conns |-> IF c \in current THEN "closed" ELSE socket[c]]
       /\ wire' = [c \in Conns |-> IF c \in current THEN <<>> ELSE wire[c]]
    /\ UNCHANGED <<hub, server, cur, attempts, faults, received>>

----------------------------------------------------------------------------
ServerStep(c) ==
    \/ Recv(c) \/ Text(c) \/ TextFails(c) \/ Heartbeat(c) \/ Pong(c)

ClientStep ==
    \/ Resolved \/ TimerFires
    \/ \E c \in Conns : OnOpen(c) \/ OnMessage(c) \/ ClosedByServer(c)

Next ==
    \/ broadcast
    \/ ClientStep
    \/ close
    \/ \E c \in Conns :
          Accept(c) \/ ServerStep(c) \/ PeerGone(c) \/ ConnectionLost(c)

\* The tokio tasks, the event loop and the timers keep running, a reachable
\* server accepts, and an open socket carries frames and pongs.  Nothing
\* makes the owner of the subscription close it, a frame arrive, a connection
\* fail, or a server notice that its peer is gone.
Fairness ==
    /\ WF_vars(Resolved) /\ WF_vars(TimerFires)
    /\ \A c \in Conns :
          /\ WF_vars(Accept(c)) /\ WF_vars(OnOpen(c)) /\ WF_vars(OnMessage(c))
          /\ WF_vars(ClosedByServer(c))
          /\ WF_vars(Recv(c)) /\ WF_vars(Text(c)) /\ WF_vars(TextFails(c))
          /\ WF_vars(Heartbeat(c)) /\ WF_vars(Pong(c))

Spec == Init /\ [][Next]_vars /\ Fairness

----------------------------------------------------------------------------
(* Properties.                                                             *)

\* What onFrame sees is the broadcast order with nothing repeated, across
\* reconnects too, and without a gap on any one connection: a subscriber that
\* misses a frame is dropped by broadcast and gets none after it.
StreamFaithful ==
    [][received' # received =>
         IF received'[1] = received[1] THEN received'[2] = received[2] + 1
                                       ELSE received'[2] > received[2]]_vars

\* A live subscription has exactly one thing under way, a constructor awaited,
\* a timer or one socket not closed: it is never stranded, and never has two
\* sockets feeding onFrame (connect, the "close" listener, the timer).
OneChain ==
    LET up == {c \in Conns : socket[c] \in {"connecting", "open"}} IN
    /\ Cardinality(up) <= 1
    /\ alive => /\ chain # "done"
                /\ chain = "socket" <=> up = {cur}
                /\ chain # "socket" => up = {}

\* After close() no socket is made, though connect() may be suspended in its
\* await, or its timer due, when close() runs.
NoSocketAfterClose == [][~alive => cur' = cur]_vars

\* routes/ws.rs: "drop so a half-open socket can't keep the subscriber alive
\* forever".  A task whose client is gone ends, though the network never says
\* so and though it may be waiting in session.text.
HalfOpenReaped ==
    \A c \in Conns : Receiving(c) /\ socket[c] = "closed" ~> task[c] = "ended"

\* A subscription that is not closed comes back from every fault.
Reconnects == []<>(status = "open" \/ ~alive)

=============================================================================
