----------------------------- MODULE LiveProofs -----------------------------
(***************************************************************************)
(* Proofs about the live stream: its transport (WsStream), for every       *)
(* channel and socket capacity, heartbeat limit, number of frames and of   *)
(* faults, and the console's screens it feeds (LiveFeed, further down).    *)
(*                                                                         *)
(* Two facts carry the transport.  The connect loop has one thing under    *)
(* way, and each socket after the first was paid for by a fault (Loop).    *)
(* What is on its way on the connection that is up is, from the wire over  *)
(* the frame in session.text to the channel, one run of consecutive frames *)
(* that starts where onFrame stopped and, while the hub still knows the    *)
(* subscriber, ends at the last broadcast (Pipe).                          *)
(***************************************************************************)
EXTENDS WsStream, LiveFeed, DataTheorems

\* The sockets that may still feed onFrame.
Up == {c \in Conns : socket[c] \in {"connecting", "open"}}

\* Faults that must have happened: one for each socket that is gone, and one
\* for the current one when its task gave up on it.
Spent ==
    IF chain = "socket"
    THEN (cur - 1) + (IF task[cur] = "ended" THEN 1 ELSE 0)
    ELSE cur

\* Sockets are made in order, only the last can be up, and a live subscription
\* waits for exactly one thing.
Loop ==
    /\ \A c \in Conns : socket[c] # "none" => c <= cur
    /\ \A c \in Conns : socket[c] = "none" => task[c] = "none"
    /\ Up \subseteq {cur}
    /\ alive => /\ chain # "done" /\ (chain = "socket" <=> cur \in Up)
                /\ Spent <= faults

\* A connection that no task has accepted holds nothing, the frame in hand is
\* that of a task in session.text, and onFrame never saw a frame to come.
Untouched ==
    /\ \A c \in Conns : task[c] = "none" =>
          /\ buf[c] = <<>> /\ wire[c] = <<>> /\ c \notin sub /\ received[1] # c
    /\ \A c \in Conns : held[c] # 0 <=> task[c] = "sending"
    /\ received[2] <= sent

\* The frames of s follow frame b without a gap.
Run(s, b) == \A i \in 1..Len(s) : s[i] = b + i

\* How many frames the task of c is sending: one or none.
InHand(c) == IF held[c] = 0 THEN 0 ELSE 1

\* b is the last frame that left the pipeline of connection c; what is in it
\* follows b, and nothing is missing behind it for a subscriber of the hub.
Pipe(c, b) ==
    /\ received[2] <= b /\ (received[1] = c => received[2] = b)
    /\ Run(wire[c], b)
    /\ held[c] # 0 => held[c] = b + Len(wire[c]) + 1
    /\ Run(buf[c], b + Len(wire[c]) + InHand(c))
    /\ b + Len(wire[c]) + InHand(c) + Len(buf[c]) <= sent
    /\ c \in sub /\ Receiving(c)
       => b + Len(wire[c]) + InHand(c) + Len(buf[c]) = sent

\* Every connection that is up has its pipeline in order.
Pipes == \A c \in Up : \E b \in 0..MaxFrames : Pipe(c, b)

\* The inductive invariant.
Inv == TypeOK /\ Loop /\ Untouched /\ Pipes

-----------------------------------------------------------------------------

\* Append, for a sequence of frames.
LEMMA SendOne ==
    ASSUME NEW s \in Seq(1..MaxFrames), NEW e \in 1..MaxFrames
    PROVE  /\ Append(s, e) \in Seq(1..MaxFrames) /\ Len(Append(s, e)) = Len(s) + 1
           /\ Len(s) \in Nat
           /\ \A i \in 1..Len(s) : Append(s, e)[i] = s[i]
           /\ Append(s, e)[Len(s) + 1] = e
BY AppendIs, LenProperties DEF Extends

\* Head and Tail, for a sequence of frames.
LEMMA TakeOne ==
    ASSUME NEW s \in Seq(1..MaxFrames), s # <<>>
    PROVE  /\ Head(s) \in 1..MaxFrames /\ Head(s) = s[1]
           /\ Tail(s) \in Seq(1..MaxFrames) /\ Len(Tail(s)) = Len(s) - 1
           /\ Len(s) \in Nat \ {0}
           /\ \A i \in 1..Len(Tail(s)) : Tail(s)[i] = s[i + 1]
<1>1. Len(s) \in Nat \ {0} /\ 1 \in 1..Len(s)
  BY LenProperties, EmptySeq
<1>2. Head(s) = s[1]
  BY <1>1
<1>4. Head(s) \in 1..MaxFrames
  BY HeadTailProperties
<1>3. /\ Tail(s) \in Seq(1..MaxFrames) /\ Len(Tail(s)) = Len(s) - 1
      /\ \A i \in 1..Len(Tail(s)) : Tail(s)[i] = s[i + 1]
  BY HeadTailProperties
<1> QED BY <1>1, <1>2, <1>3, <1>4

\* The empty channel and the empty wire.
LEMMA NoneLeft ==
    <<>> \in Seq(1..MaxFrames) /\ Len(<<>>) = 0
OBVIOUS

\* Nothing is connected yet.
LEMMA InitInv == Init => Inv
<1> SUFFICES ASSUME Init PROVE Inv
  OBVIOUS
<1>1. TypeOK
  <2>1. /\ 0 \in 0..MaxFrames /\ 0 \in 0..(MaxFaults + 1) /\ 0 \in 0..MaxFaults
        /\ 0 \in 0..(IdleTicks + 1) /\ 0 <= Capacity /\ 0 <= WireCap
    BY StreamAssumption
  <2>2. /\ buf \in [Conns -> Seq(1..MaxFrames)] /\ wire \in [Conns -> Seq(1..MaxFrames)]
        /\ \A c \in Conns : buf[c] = <<>> /\ wire[c] = <<>>
    BY NoneLeft DEF Init
  <2>3. \A c \in Conns : Len(buf[c]) <= Capacity /\ Len(wire[c]) <= WireCap
    BY <2>1, <2>2, NoneLeft
  <2> QED BY <2>1, <2>2, <2>3 DEF Init, TypeOK
<1>2. Up = {}
  BY DEF Init, Up
<1>3. Loop
  BY <1>2, StreamAssumption DEF Init, Loop, Spent
<1>4. Untouched
  BY DEF Init, Untouched, Conns
<1>5. Pipes
  BY <1>2 DEF Pipes
<1> QED BY <1>1, <1>3, <1>4, <1>5 DEF Inv

\* A task that leaves its loop keeps the types.
LEMMA BreakTyped ==
    ASSUME TypeOK, NEW c \in Conns, Break(c)
    PROVE  /\ buf' \in [Conns -> Seq(1..MaxFrames)]
           /\ \A d \in Conns : Len(buf'[d]) <= Capacity
           /\ task' \in [Conns -> {"none", "running", "sending", "ended"}]
           /\ held' \in [Conns -> 0..MaxFrames]
           /\ silent' \in [Conns -> 0..(IdleTicks + 1)]
<1>1. PICK e : e = <<>>
  OBVIOUS
<1>2. e \in Seq(1..MaxFrames) /\ Len(e) <= Capacity
  BY <1>1, NoneLeft, StreamAssumption
<1>3. buf' = [buf EXCEPT ![c] = e]
  BY <1>1 DEF Break
<1>4. /\ buf' \in [Conns -> Seq(1..MaxFrames)]
      /\ \A d \in Conns : Len(buf'[d]) <= Capacity
  BY <1>2, <1>3 DEF TypeOK
<1>5. 0 \in 0..MaxFrames /\ 0 \in 0..(IdleTicks + 1)
  BY StreamAssumption
<1>6. task' \in [Conns -> {"none", "running", "sending", "ended"}]
  BY DEF Break, TypeOK
<1>7. held' \in [Conns -> 0..MaxFrames] /\ silent' \in [Conns -> 0..(IdleTicks + 1)]
  BY <1>5 DEF Break, TypeOK
<1> QED BY <1>4, <1>6, <1>7

\* So does the close listener.
LEMMA ClosedTyped ==
    ASSUME TypeOK, NEW c \in Conns, ClosedSocket(c)
    PROVE  /\ wire' \in [Conns -> Seq(1..MaxFrames)]
           /\ \A d \in Conns : Len(wire'[d]) <= WireCap
           /\ socket' \in [Conns -> {"none", "connecting", "open", "closed"}]
           /\ attempts' \in BOOLEAN
           /\ status' \in {"connecting", "open", "reconnecting", "closed"}
           /\ chain' \in {"resolving", "socket", "timer", "done"}
<1>1. /\ wire \in [Conns -> Seq(1..MaxFrames)] /\ wire' = [wire EXCEPT ![c] = <<>>]
      /\ \A d \in Conns : Len(wire[d]) <= WireCap
  BY DEF TypeOK, ClosedSocket
<1>2. Len(<<>>) <= WireCap
  BY StreamAssumption, NoneLeft
<1>3. PICK e : e = <<>>
  OBVIOUS
<1>4. e \in Seq(1..MaxFrames) /\ Len(e) <= WireCap
  BY <1>2, <1>3, NoneLeft
<1>5. /\ wire' \in [Conns -> Seq(1..MaxFrames)]
      /\ \A d \in Conns : Len(wire'[d]) <= WireCap
  BY <1>1, <1>3, <1>4
<1>6. /\ socket' \in [Conns -> {"none", "connecting", "open", "closed"}]
      /\ attempts' \in BOOLEAN
      /\ status' \in {"connecting", "open", "reconnecting", "closed"}
      /\ chain' \in {"resolving", "socket", "timer", "done"}
  BY DEF TypeOK, ClosedSocket
<1> QED BY <1>5, <1>6

\* So does broadcast: no channel exceeds its capacity.
LEMMA BroadcastTyped ==
    ASSUME TypeOK, broadcast PROVE TypeOK'
<1>1. sent + 1 \in 1..MaxFrames
  BY StreamAssumption DEF TypeOK, broadcast
<1>2. ASSUME NEW c \in Conns
      PROVE  buf'[c] \in Seq(1..MaxFrames) /\ Len(buf'[c]) <= Capacity
  <2>1. buf[c] \in Seq(1..MaxFrames) /\ Len(buf[c]) <= Capacity
    BY DEF TypeOK
  <2>2. CASE c \in sub /\ TrySend(c)
    <3>1. buf'[c] = Append(buf[c], sent + 1) /\ Len(buf[c]) < Capacity
      BY <2>2 DEF broadcast, TrySend
    <3> QED BY <1>1, <2>1, <3>1, SendOne, StreamAssumption
  <2>3. CASE ~(c \in sub /\ TrySend(c))
    BY <2>1, <2>3 DEF broadcast
  <2> QED BY <2>2, <2>3
<1>3. buf' \in [Conns -> Seq(1..MaxFrames)]
  <2>1. buf' = [c \in Conns |-> buf'[c]]
    BY DEF broadcast
  <2> QED BY <1>2, <2>1
<1>4. sent' \in 0..MaxFrames /\ sub' \subseteq Conns
  BY <1>1, StreamAssumption DEF TypeOK, broadcast
<1> QED BY <1>2, <1>3, <1>4 DEF TypeOK, broadcast, server, client

\* So do the steps of a task.
LEMMA ServerTyped ==
    ASSUME TypeOK, Untouched, NEW c \in Conns,
           Accept(c) \/ ServerStep(c) \/ PeerGone(c)
    PROVE  TypeOK'
<1> USE DEF hub, server, client
<1>0. buf[c] \in Seq(1..MaxFrames) /\ wire[c] \in Seq(1..MaxFrames)
  BY DEF TypeOK
<1>1. CASE Accept(c)
  BY <1>1 DEF TypeOK, Accept
<1>2. CASE Recv(c)
  <2>1. /\ Head(buf[c]) \in 1..MaxFrames /\ Tail(buf[c]) \in Seq(1..MaxFrames)
        /\ Len(Tail(buf[c])) = Len(buf[c]) - 1 /\ Len(buf[c]) \in Nat
    BY <1>0, <1>2, TakeOne DEF Recv
  <2>2. Len(Tail(buf[c])) <= Capacity
    BY <2>1, StreamAssumption DEF TypeOK
  <2>3. PICK h, l : h = Head(buf[c]) /\ l = Tail(buf[c])
    OBVIOUS
  <2>4. /\ held' = [held EXCEPT ![c] = h] /\ buf' = [buf EXCEPT ![c] = l]
        /\ task' = [task EXCEPT ![c] = "sending"]
        /\ UNCHANGED <<sub, sent, silent, wire, socket, cur, client, faults, received>>
    BY <1>2, <2>3 DEF Recv
  <2>5. h \in 0..MaxFrames /\ l \in Seq(1..MaxFrames) /\ Len(l) <= Capacity
    BY <2>1, <2>2, <2>3
  <2> QED BY <2>4, <2>5 DEF TypeOK
<1>3. CASE Text(c)
  <2>1. held[c] \in 1..MaxFrames
    BY <1>3, StreamAssumption DEF Text, TypeOK, Untouched
  <2>2. PICK l : l = Append(wire[c], held[c])
    OBVIOUS
  <2>3. l \in Seq(1..MaxFrames) /\ Len(l) <= WireCap
    BY <1>0, <1>3, <2>1, <2>2, SendOne, StreamAssumption DEF Text
  <2>4. /\ wire' = [wire EXCEPT ![c] = l] /\ held' = [held EXCEPT ![c] = 0]
        /\ task' = [task EXCEPT ![c] = "running"]
        /\ UNCHANGED <<hub, silent, socket, cur, client, faults, received>>
    BY <1>3, <2>2 DEF Text
  <2>5. /\ wire' \in [Conns -> Seq(1..MaxFrames)]
        /\ \A d \in Conns : Len(wire'[d]) <= WireCap
    BY <2>3, <2>4 DEF TypeOK
  <2>6. held' \in [Conns -> 0..MaxFrames]
    BY <2>4, StreamAssumption DEF TypeOK
  <2>7. task' \in [Conns -> {"none", "running", "sending", "ended"}]
    BY <2>4 DEF TypeOK
  <2> QED BY <2>4, <2>5, <2>6, <2>7 DEF TypeOK
<1>4. CASE TextFails(c) \/ PeerGone(c)
  BY <1>4, BreakTyped DEF TypeOK, TextFails, PeerGone
<1>5. CASE Heartbeat(c)
  <2>1. CASE Ping(c)
    <3>1. silent[c] + 1 \in 0..(IdleTicks + 1)
      BY <2>1, StreamAssumption DEF Ping, TypeOK
    <3>2. silent' \in [Conns -> 0..(IdleTicks + 1)]
      BY <2>1, <3>1 DEF Ping, TypeOK
    <3> QED BY <1>5, <2>1, <3>2 DEF Heartbeat, Ping, TypeOK
  <2>2. CASE Break(c) /\ faults' = faults
    BY <1>5, <2>2, BreakTyped DEF Heartbeat, TypeOK
  <2>3. CASE Break(c) /\ faults' = faults + 1 /\ faults < MaxFaults
    <3>1. faults' \in 0..MaxFaults
      BY <2>3, StreamAssumption DEF TypeOK
    <3> QED BY <1>5, <2>3, <3>1, BreakTyped DEF Heartbeat, TypeOK
  <2> QED BY <1>5, <2>1, <2>2, <2>3 DEF Heartbeat
<1>6. CASE Pong(c)
  <2>1. 0 \in 0..(IdleTicks + 1)
    BY StreamAssumption
  <2>2. silent' \in [Conns -> 0..(IdleTicks + 1)]
    BY <1>6, <2>1 DEF Pong, TypeOK
  <2> QED BY <1>6, <2>2 DEF Pong, TypeOK
<1> QED BY <1>1, <1>2, <1>3, <1>4, <1>5, <1>6 DEF ServerStep

\* So do the steps of the client; a socket is made only after a fault, so the
\* connections never exceed the faults by more than one.
LEMMA ClientTyped ==
    ASSUME TypeOK, Loop, ClientStep \/ close PROVE TypeOK'
<1> USE DEF hub, server, client
<1>1. CASE Resolved
  <2>1. CASE alive
    <3>1. Spent = cur
      BY <1>1 DEF Resolved, Spent
    <3>2. cur + 1 \in Conns /\ cur' = cur + 1
      BY <1>1, <2>1, <3>1, StreamAssumption DEF Resolved, Loop, TypeOK, Conns
    <3>3. cur' \in 0..(MaxFaults + 1)
      BY <3>2, StreamAssumption DEF Conns
    <3>4. socket' \in [Conns -> {"none", "connecting", "open", "closed"}]
      BY <1>1, <2>1 DEF Resolved, TypeOK
    <3> QED BY <1>1, <2>1, <3>3, <3>4 DEF Resolved, TypeOK
  <2>2. CASE ~alive
    BY <1>1, <2>2 DEF Resolved, TypeOK
  <2> QED BY <2>1, <2>2
<1>2. CASE TimerFires
  BY <1>2 DEF TimerFires, TypeOK
<1>3. ASSUME NEW c \in Conns, OnOpen(c) PROVE TypeOK'
  BY <1>3 DEF OnOpen, TypeOK
<1>4. ASSUME NEW c \in Conns, OnMessage(c) PROVE TypeOK'
  <2>1. wire[c] \in Seq(1..MaxFrames) /\ wire[c] # <<>>
    BY <1>4 DEF OnMessage, TypeOK
  <2>2. PICK h, l : h = Head(wire[c]) /\ l = Tail(wire[c])
    OBVIOUS
  <2>3. /\ h \in 1..MaxFrames /\ l \in Seq(1..MaxFrames)
        /\ Len(l) = Len(wire[c]) - 1 /\ Len(wire[c]) \in Nat
    BY <2>1, <2>2, TakeOne
  <2>4. h \in 0..MaxFrames /\ Len(l) <= WireCap
    BY <2>3, StreamAssumption DEF TypeOK
  <2>5. c \in 0..(MaxFaults + 1)
    BY StreamAssumption DEF Conns
  <2>6. /\ received' = <<c, h>> /\ wire' = [wire EXCEPT ![c] = l]
        /\ UNCHANGED <<hub, server, socket, cur, client, faults>>
    BY <1>4, <2>2 DEF OnMessage
  <2>7. /\ wire' \in [Conns -> Seq(1..MaxFrames)]
        /\ \A d \in Conns : Len(wire'[d]) <= WireCap
    BY <2>3, <2>4, <2>6 DEF TypeOK
  <2> QED BY <2>4, <2>5, <2>6, <2>7 DEF TypeOK
<1>5. ASSUME NEW c \in Conns, ClosedByServer(c) PROVE TypeOK'
  BY <1>5, ClosedTyped DEF ClosedByServer, TypeOK
<1>6. CASE close
  <2>1. PICK e : e = <<>>
    OBVIOUS
  <2>2. e \in Seq(1..MaxFrames) /\ Len(e) <= WireCap
    BY <2>1, NoneLeft, StreamAssumption
  <2> DEFINE current == {c \in Conns : alive /\ c = cur /\ socket[c] = "open"}
  <2>3. /\ wire' = [c \in Conns |-> IF c \in current THEN e ELSE wire[c]]
        /\ socket' = [c \in Conns |-> IF c \in current THEN "closed" ELSE socket[c]]
    BY <1>6, <2>1 DEF close
  <2> HIDE DEF current
  <2>4. /\ wire' \in [Conns -> Seq(1..MaxFrames)]
        /\ \A d \in Conns : Len(wire'[d]) <= WireCap
        /\ socket' \in [Conns -> {"none", "connecting", "open", "closed"}]
    BY <2>2, <2>3 DEF TypeOK
  <2> QED BY <1>6, <2>4 DEF close, TypeOK
<1> QED BY <1>1, <1>2, <1>3, <1>4, <1>5, <1>6 DEF ClientStep

\* So does a lost connection.
LEMMA LostTyped ==
    ASSUME TypeOK, NEW c \in Conns, ConnectionLost(c) PROVE TypeOK'
<1>1. faults' \in 0..MaxFaults
  BY StreamAssumption DEF ConnectionLost, TypeOK
<1> QED BY <1>1, ClosedTyped DEF ConnectionLost, TypeOK, hub, server

\* Every step keeps the types.
LEMMA NextTypeOK ==
    ASSUME Inv, Next PROVE TypeOK'
BY BroadcastTyped, ServerTyped, ClientTyped, LostTyped DEF Inv, Next

-----------------------------------------------------------------------------

\* Steps that concern neither the loop nor the tasks.
LEMMA SameLoop ==
    ASSUME Loop, UNCHANGED <<socket, task, cur, alive, chain, faults>> PROVE Loop'
BY DEF Loop, Up, Spent

\* A task moves on; giving up on the socket that is up counts as a fault.
LEMMA TaskLoop ==
    ASSUME TypeOK, Loop, UNCHANGED <<socket, cur, alive, chain>>,
           NEW c \in Conns, socket[c] # "none", NEW st,
           task' = [task EXCEPT ![c] = st], faults' \in Int, faults' >= faults,
           st = "ended" /\ c \in Up => faults' = faults + 1
    PROVE  Loop'
<1>1. /\ cur \in Int /\ faults \in Int
      /\ task \in [Conns -> {"none", "running", "sending", "ended"}]
  BY StreamAssumption DEF TypeOK
<1>2. Up' = Up
  BY DEF Up
<1>3. \A d \in Conns : d # c => task'[d] = task[d]
  BY <1>1
<1>4. task'[c] = st
  BY <1>1
<1>5. ASSUME alive, chain = "socket" PROVE Spent' <= faults'
  <2>1. cur \in Up /\ cur \in Conns /\ Spent <= faults
    BY <1>5 DEF Loop, Up
  <2>2. CASE c # cur
    <3>1. task'[cur] = task[cur]
      BY <1>3, <2>1, <2>2
    <3>2. Spent' = Spent /\ Spent \in Int
      BY <1>1, <1>5, <3>1 DEF Spent
    <3> QED BY <1>1, <2>1, <3>2
  <2>3. CASE c = cur
    BY <1>1, <1>4, <1>5, <2>1, <2>3 DEF Spent
  <2> QED BY <2>2, <2>3
<1>6. ASSUME alive, chain # "socket" PROVE Spent' <= faults'
  <2>1. Spent = cur /\ Spent' = cur /\ Spent <= faults
    BY <1>6 DEF Spent, Loop
  <2> QED BY <1>1, <2>1
<1>7. \A d \in Conns : socket'[d] = "none" => task'[d] = "none"
  BY <1>3 DEF Loop
<1> QED BY <1>2, <1>5, <1>6, <1>7 DEF Loop

\* The server's steps keep Loop.
LEMMA ServerLoop ==
    ASSUME TypeOK, Loop, NEW c \in Conns,
           Accept(c) \/ ServerStep(c) \/ PeerGone(c)
    PROVE  Loop'
<1> USE DEF hub, server, client
<1>0. /\ faults \in Int /\ faults + 1 \in Int /\ faults >= faults /\ faults + 1 >= faults
      /\ (socket[c] = "none" => task[c] = "none")
  BY StreamAssumption DEF TypeOK, Loop
<1>1. CASE Accept(c)
  BY <1>0, <1>1, TaskLoop DEF Accept
<1>2. CASE Recv(c)
  BY <1>0, <1>2, TaskLoop DEF Recv
<1>3. CASE Text(c)
  BY <1>0, <1>3, TaskLoop DEF Text
<1>4. CASE TextFails(c) \/ PeerGone(c)
  <2>1. c \notin Up /\ socket[c] # "none"
    BY <1>4 DEF TextFails, PeerGone, Up
  <2>2. /\ task' = [task EXCEPT ![c] = "ended"]
        /\ UNCHANGED <<socket, cur, alive, chain, faults>>
    BY <1>4 DEF TextFails, PeerGone, Break
  <2> QED BY <1>0, <2>1, <2>2, TaskLoop
<1>5. CASE Heartbeat(c)
  <2>1. CASE Ping(c)
    BY <1>5, <2>1, SameLoop DEF Heartbeat, Ping
  <2>2. CASE Break(c) /\ socket[c] = "closed" /\ faults' = faults
    <3>1. c \notin Up
      BY <2>2 DEF Up
    <3> QED BY <1>0, <1>5, <2>2, <3>1, TaskLoop DEF Heartbeat, Break
  <2>3. CASE Break(c) /\ faults' = faults + 1
    BY <1>0, <1>5, <2>3, TaskLoop DEF Heartbeat, Break
  <2> QED BY <1>5, <2>1, <2>2, <2>3 DEF Heartbeat
<1>6. CASE Pong(c)
  BY <1>6, SameLoop DEF Pong
<1> QED BY <1>1, <1>2, <1>3, <1>4, <1>5, <1>6 DEF ServerStep

\* A socket that closes puts a live loop on its timer.
LEMMA ClosedLoop ==
    ASSUME TypeOK, Loop, NEW c \in Up, ClosedSocket(c), UNCHANGED <<task, cur, alive>>,
           faults' \in Int, faults' >= faults,
           task[c] # "ended" => faults' >= faults + 1
    PROVE  Loop'
<1>1. cur \in Int /\ faults \in Int /\ c = cur /\ c \in Conns
  BY StreamAssumption DEF TypeOK, Loop, Up
<1>2. /\ socket'[c] = "closed" /\ \A d \in Conns : d # c => socket'[d] = socket[d]
  BY <1>1 DEF TypeOK, ClosedSocket
<1>3. Up' = {}
  BY <1>1, <1>2 DEF Up, Loop
<1>4. ASSUME alive PROVE chain' = "timer" /\ Spent' <= faults'
  <2>1. chain' = "timer" /\ Spent' = cur
    BY <1>4 DEF ClosedSocket, Spent
  <2>2. chain = "socket" /\ Spent <= faults
    BY <1>1, <1>4 DEF Loop
  <2> QED BY <1>1, <2>1, <2>2 DEF Spent
<1>5. \A d \in Conns : /\ socket'[d] # "none" => d <= cur'
                       /\ socket'[d] = "none" => task'[d] = "none"
  BY <1>1, <1>2 DEF Loop
<1> QED BY <1>3, <1>4, <1>5 DEF Loop

\* The client's steps keep Loop: connect() looks at alive after its await.
LEMMA ClientLoop ==
    ASSUME TypeOK, Loop, ClientStep \/ close PROVE Loop'
<1> USE DEF hub, server, client
<1>0. cur \in Int /\ faults \in Int /\ Up \subseteq Conns
      /\ socket \in [Conns -> {"none", "connecting", "open", "closed"}]
  BY StreamAssumption DEF TypeOK, Up
<1>1. CASE Resolved
  <2>1. CASE alive
    <3>1. Up = {} /\ Spent = cur /\ cur <= faults
      BY <1>1, <2>1 DEF Resolved, Spent, Loop
    <3>2. cur + 1 \in Conns /\ cur' = cur + 1
      BY <1>1, <2>1, <3>1, StreamAssumption DEF Resolved, TypeOK, Conns
    <3>3. socket'[cur + 1] = "connecting"
          /\ \A d \in Conns : d # cur + 1 => socket'[d] = socket[d]
      BY <1>0, <1>1, <2>1, <3>2 DEF Resolved
    <3>4. Up' = {cur + 1}
      BY <3>1, <3>2, <3>3 DEF Up
    <3>5. task[cur + 1] = "none"
      BY <1>0, <3>2 DEF Loop
    <3>6. Spent' = cur /\ chain' = "socket" /\ UNCHANGED <<task, alive, faults>>
      BY <1>0, <1>1, <2>1, <3>2, <3>5 DEF Resolved, Spent
    <3>7. \A d \in Conns : /\ socket'[d] # "none" => d <= cur'
                           /\ socket'[d] = "none" => task'[d] = "none"
      BY <1>0, <3>2, <3>3, <3>6 DEF Loop, Conns
    <3> QED BY <3>1, <3>2, <3>4, <3>6, <3>7 DEF Loop
  <2>2. CASE ~alive
    BY <1>1, <2>2 DEF Resolved, Loop, Up
  <2> QED BY <2>1, <2>2
<1>2. CASE TimerFires
  <2>1. UNCHANGED <<socket, task, cur, alive, faults>> /\ chain' = "resolving"
    BY <1>2 DEF TimerFires
  <2>2. Up' = Up
    BY <2>1 DEF Up
  <2>3. alive => Spent' = Spent
    BY <1>2, <2>1 DEF Spent, TimerFires
  <2> QED BY <1>2, <2>1, <2>2, <2>3 DEF Loop, TimerFires
<1>3. ASSUME NEW c \in Conns, OnOpen(c) PROVE Loop'
  <2>1. UNCHANGED <<task, cur, alive, faults, chain>> /\ socket[c] = "connecting"
        /\ socket' = [socket EXCEPT ![c] = "open"]
    BY <1>3 DEF OnOpen
  <2>2. Up' = Up
    BY <1>0, <2>1 DEF Up
  <2>3. Spent' = Spent
    BY <2>1 DEF Spent
  <2> QED BY <1>0, <2>1, <2>2, <2>3 DEF Loop
<1>4. ASSUME NEW c \in Conns, OnMessage(c) PROVE Loop'
  BY <1>4, SameLoop DEF OnMessage
<1>5. ASSUME NEW c \in Conns, ClosedByServer(c) PROVE Loop'
  <2>1. c \in Up /\ faults' = faults /\ faults' >= faults /\ task[c] = "ended"
    BY <1>0, <1>5 DEF ClosedByServer, Up
  <2> QED BY <1>0, <1>5, <2>1, ClosedLoop DEF ClosedByServer
<1>6. CASE close
  <2>1. UNCHANGED <<task, cur, faults>> /\ alive' = FALSE
    BY <1>6 DEF close
  <2>2. ASSUME NEW c \in Conns
        PROVE  \/ socket'[c] = socket[c]
               \/ socket'[c] = "closed" /\ socket[c] = "open"
    <3> DEFINE current == {d \in Conns : alive /\ d = cur /\ socket[d] = "open"}
    <3>1. socket' = [d \in Conns |-> IF d \in current THEN "closed" ELSE socket[d]]
      BY <1>6 DEF close
    <3>2. c \in current => socket[c] = "open"
      OBVIOUS
    <3> HIDE DEF current
    <3> QED BY <3>1, <3>2
  <2>3. Up' \subseteq Up
    BY <2>2 DEF Up
  <2> QED BY <2>1, <2>2, <2>3 DEF Loop
<1> QED BY <1>1, <1>2, <1>3, <1>4, <1>5, <1>6 DEF ClientStep

\* Every step keeps Loop.
LEMMA NextLoop ==
    ASSUME Inv, Next PROVE Loop'
<1>0. TypeOK /\ Loop
  BY DEF Inv
<1>1. CASE broadcast
  BY <1>0, <1>1, SameLoop DEF broadcast, server, client
<1>2. ASSUME NEW c \in Conns, ConnectionLost(c) PROVE Loop'
  <2>1. c \in Up /\ faults' = faults + 1 /\ faults \in Int
    BY <1>0, <1>2, StreamAssumption DEF ConnectionLost, Up, TypeOK
  <2>2. faults' \in Int /\ faults' >= faults /\ faults' >= faults + 1
    BY <2>1
  <2> QED BY <1>0, <1>2, <2>1, <2>2, ClosedLoop DEF ConnectionLost, server
<1> QED BY <1>0, <1>1, <1>2, ServerLoop, ClientLoop DEF Next

-----------------------------------------------------------------------------

\* The kinds of number in the state.
LEMMA Kinds ==
    ASSUME TypeOK
    PROVE  /\ sent \in Nat /\ received[1] \in Nat /\ received[2] \in Nat /\ cur \in Nat
           /\ \A c \in Conns : /\ held[c] \in Nat /\ InHand(c) \in {0, 1}
                               /\ buf[c] \in Seq(1..MaxFrames) /\ Len(buf[c]) \in Nat
                               /\ wire[c] \in Seq(1..MaxFrames) /\ Len(wire[c]) \in Nat
<1>1. sent \in Nat /\ received[1] \in Nat /\ received[2] \in Nat /\ cur \in Nat
  BY StreamAssumption DEF TypeOK
<1>2. \A c \in Conns : /\ held[c] \in Nat /\ InHand(c) \in {0, 1}
                       /\ buf[c] \in Seq(1..MaxFrames) /\ wire[c] \in Seq(1..MaxFrames)
  BY StreamAssumption DEF TypeOK, InHand
<1> QED BY <1>1, <1>2, LenProperties

\* The frame after the last one continues a run.
LEMMA RunAppend ==
    ASSUME NEW s \in Seq(1..MaxFrames), NEW e \in 1..MaxFrames, NEW b \in Nat,
           Run(s, b), e = b + Len(s) + 1
    PROVE  Run(Append(s, e), b) /\ Len(Append(s, e)) = Len(s) + 1
<1>1. PICK t : t = Append(s, e)
  OBVIOUS
<1>2. /\ Len(t) = Len(s) + 1 /\ Len(s) \in Nat
      /\ (\A i \in 1..Len(s) : t[i] = s[i]) /\ t[Len(s) + 1] = e
  BY <1>1, SendOne
<1>3. ASSUME NEW i \in 1..Len(t) PROVE t[i] = b + i
  <2>1. i \in 1..Len(s) \/ i = Len(s) + 1
    BY <1>2
  <2>2. CASE i \in 1..Len(s)
    <3>1. t[i] = s[i] /\ s[i] = b + i
      BY <1>2, <2>2 DEF Run
    <3> QED BY <3>1
  <2>3. CASE i = Len(s) + 1
    <3>1. t[i] = e /\ e = b + (Len(s) + 1)
      BY <1>2, <2>3
    <3> QED BY <2>3, <3>1
  <2> QED BY <2>1, <2>2, <2>3
<1> QED BY <1>1, <1>2, <1>3 DEF Run

\* Taking the first frame of a run leaves the run after it.
LEMMA RunTail ==
    ASSUME NEW s \in Seq(1..MaxFrames), NEW b \in Nat, Run(s, b), s # <<>>
    PROVE  /\ Run(Tail(s), b + 1) /\ Head(s) = b + 1
           /\ Len(Tail(s)) = Len(s) - 1 /\ Len(s) \in Nat \ {0}
<1>1. PICK t : t = Tail(s)
  OBVIOUS
<1>2. /\ Len(t) = Len(s) - 1 /\ Len(s) \in Nat \ {0} /\ Head(s) = s[1]
      /\ \A i \in 1..Len(t) : t[i] = s[i + 1]
  BY <1>1, TakeOne
<1>3. Head(s) = b + 1
  BY <1>2 DEF Run
<1>4. ASSUME NEW i \in 1..Len(t) PROVE t[i] = (b + 1) + i
  <2>1. i + 1 \in 1..Len(s)
    BY <1>2
  <2>2. t[i] = s[i + 1] /\ s[i + 1] = b + (i + 1)
    BY <1>2, <2>1 DEF Run
  <2> QED BY <1>2, <2>2
<1> QED BY <1>1, <1>2, <1>3, <1>4 DEF Run

\* No frames are a run from anywhere.
LEMMA RunNone == \A b : Run(<<>>, b)
BY NoneLeft DEF Run

\* Nothing moves on c, and if more was broadcast the hub has dropped c.
Steady(c) ==
    /\ wire'[c] = wire[c] /\ held'[c] = held[c] /\ buf'[c] = buf[c]
    /\ received' = received /\ sent' >= sent
    /\ c \in sub' /\ Receiving(c)' => c \in sub /\ Receiving(c) /\ sent' = sent

\* Then its pipeline is as it was.
LEMMA SteadyPipe ==
    ASSUME TypeOK, TypeOK', NEW c \in Conns, NEW b \in 0..MaxFrames, Pipe(c, b), Steady(c)
    PROVE  Pipe(c, b)'
<1>1. /\ sent \in Nat /\ sent' \in Nat /\ InHand(c) \in Nat /\ Len(buf[c]) \in Nat
      /\ Len(wire[c]) \in Nat /\ b \in Nat
  <2>1. sent' \in Nat
    BY StreamAssumption DEF TypeOK
  <2> QED BY <2>1, Kinds, StreamAssumption
<1>2. InHand(c)' = InHand(c) /\ UNCHANGED <<wire[c], held[c], buf[c], received>>
  BY DEF InHand, Steady
<1>3. PICK k : k = b + Len(wire[c]) + InHand(c) + Len(buf[c])
  OBVIOUS
<1>4. k \in Nat
  BY <1>1, <1>3
<1>5. k <= sent' /\ (c \in sub' /\ Receiving(c)' => k = sent')
  <2>1. k <= sent /\ (c \in sub /\ Receiving(c) => k = sent)
    BY <1>3 DEF Pipe
  <2>2. sent <= sent' /\ (c \in sub' /\ Receiving(c)' => c \in sub /\ Receiving(c) /\ sent' = sent)
    BY <1>1 DEF Steady
  <2> QED BY <1>1, <1>4, <2>1, <2>2
<1>6. k = (b + Len(wire[c]) + InHand(c) + Len(buf[c]))'
  BY <1>2, <1>3
<1> QED BY <1>2, <1>5, <1>6 DEF Pipe

\* It is enough to look at each connection that is up after the step.
LEMMA PipesStep ==
    ASSUME TypeOK, TypeOK', Pipes,
           \A c \in Up' : (c \in Up /\ Steady(c)) \/ \E b \in 0..MaxFrames : Pipe(c, b)'
    PROVE  Pipes'
<1>1. ASSUME NEW c \in Up', c \in Up, Steady(c)
      PROVE  \E b \in 0..MaxFrames : Pipe(c, b)'
  <2>1. PICK b \in 0..MaxFrames : Pipe(c, b)
    BY <1>1 DEF Pipes
  <2>2. c \in Conns
    BY <1>1 DEF Up
  <2> QED BY <1>1, <2>1, <2>2, SteadyPipe
<1> QED BY <1>1 DEF Pipes

\* broadcast puts the next frame at the end, or drops the subscriber.
LEMMA BroadcastPipes ==
    ASSUME TypeOK, TypeOK', Pipes, broadcast PROVE Pipes'
<1>1. Up' = Up /\ sent \in Nat /\ sent' = sent + 1
  BY Kinds DEF Up, broadcast
<1>2. ASSUME NEW c \in Up, c \in sub, TrySend(c)
      PROVE  \E b \in 0..MaxFrames : Pipe(c, b)'
  <2>1. PICK b \in 0..MaxFrames : Pipe(c, b)
    BY DEF Pipes
  <2>2. /\ c \in Conns /\ InHand(c) \in Nat /\ Len(buf[c]) \in Nat
        /\ Len(wire[c]) \in Nat /\ b \in Nat /\ buf[c] \in Seq(1..MaxFrames)
    BY Kinds, StreamAssumption DEF Up
  <2>3. /\ buf'[c] = Append(buf[c], sent + 1)
        /\ UNCHANGED <<wire, held, task, received>> /\ Receiving(c)
    BY <1>2, <2>2 DEF broadcast, TrySend, server
  <2>4. sent + 1 \in 1..MaxFrames
    BY <1>1, StreamAssumption DEF broadcast
  <2>5. InHand(c)' = InHand(c)
    BY <2>3 DEF InHand
  <2>6. PICK k \in Nat : k = b + Len(wire[c]) + InHand(c)
    BY <2>2
  <2>7. Run(buf[c], k) /\ sent = k + Len(buf[c])
    BY <1>2, <2>1, <2>3, <2>6 DEF Pipe
  <2>8. PICK e \in 1..MaxFrames : e = sent + 1
    BY <2>4
  <2>9. Run(Append(buf[c], e), k) /\ Len(Append(buf[c], e)) = Len(buf[c]) + 1
    BY <2>2, <2>7, <2>8, RunAppend
  <2>10. Run(buf'[c], k) /\ Len(buf'[c]) = Len(buf[c]) + 1
    BY <2>3, <2>8, <2>9
  <2>11. k = (b + Len(wire[c]) + InHand(c))'
    BY <2>3, <2>5, <2>6
  <2>12. Pipe(c, b)'
    <3>1. Run(buf'[c], b + Len(wire'[c]) + InHand(c)')
      BY <2>10, <2>11
    <3>0. k + Len(buf'[c]) = sent'
      <4>1. Len(buf[c]) \in Nat /\ sent = k + Len(buf[c])
        BY <2>2, <2>7
      <4>2. Len(buf'[c]) = Len(buf[c]) + 1 /\ sent' = sent + 1
        BY <1>1, <2>10
      <4>3. \A l, m, t, u \in Nat : t = k + l /\ m = l + 1 /\ u = t + 1 => k + m = u
        OBVIOUS
      <4>4. Len(buf'[c]) \in Nat /\ sent \in Nat /\ sent' \in Nat
        BY <1>1, <4>1, <4>2
      <4> QED BY ONLY <4>1, <4>2, <4>3, <4>4
    <3>2. b + Len(wire'[c]) + InHand(c)' + Len(buf'[c]) = sent'
      BY <2>11, <3>0
    <3>3. /\ received'[2] <= b /\ (received'[1] = c => received'[2] = b)
          /\ Run(wire'[c], b) /\ (held'[c] # 0 => held'[c] = b + Len(wire'[c]) + 1)
      BY <2>1, <2>3 DEF Pipe
    <3>4. sent' \in Nat
      BY <1>1
    <3>5. b + Len(wire'[c]) + InHand(c)' + Len(buf'[c]) <= sent'
      BY <3>2, <3>4
    <3> QED BY <3>1, <3>2, <3>3, <3>5 DEF Pipe
  <2> QED BY <2>12
<1>3. ASSUME NEW c \in Up, ~(c \in sub /\ TrySend(c)) PROVE Steady(c)
  <2>1. c \in Conns
    BY DEF Up
  <2>2. buf'[c] = buf[c] /\ c \notin sub'
    BY <1>3, <2>1 DEF broadcast
  <2> QED BY <1>1, <2>2 DEF Steady, broadcast, server
<1> QED BY <1>1, <1>2, <1>3, PipesStep

\* Frames move along the pipeline; a task that ends cuts off its rear.
LEMMA ServerPipes ==
    ASSUME Inv, TypeOK', NEW c \in Conns, Accept(c) \/ ServerStep(c) \/ PeerGone(c)
    PROVE  Pipes'
<1> USE DEF hub, server, client
<1>0. TypeOK /\ Untouched /\ Pipes
  BY DEF Inv
<1>1. Up' = Up /\ UNCHANGED <<received, sent>> /\ sent \in Nat
  BY <1>0, Kinds
     DEF Up, Accept, ServerStep, PeerGone, Recv, Text, TextFails, Heartbeat, Pong, Ping, Break
<1>2. ASSUME NEW d \in Up, d # c PROVE Steady(d)
  <2>1. d \in Conns
    BY DEF Up
  <2>2. /\ wire'[d] = wire[d] /\ held'[d] = held[d] /\ buf'[d] = buf[d]
        /\ task'[d] = task[d] /\ (d \in sub' <=> d \in sub)
    <3>t. /\ task \in [Conns -> {"none", "running", "sending", "ended"}]
          /\ held \in [Conns -> 0..MaxFrames]
          /\ buf \in [Conns -> Seq(1..MaxFrames)]
          /\ wire \in [Conns -> Seq(1..MaxFrames)]
      BY <1>0 DEF TypeOK
    <3>1. CASE Accept(c)
      BY <1>2, <2>1, <3>t, <3>1 DEF Accept
    <3>2. CASE Recv(c)
      BY <1>2, <2>1, <3>t, <3>2 DEF Recv
    <3>3. CASE Text(c)
      BY <1>2, <2>1, <3>t, <3>3 DEF Text
    <3>4. CASE TextFails(c) \/ PeerGone(c)
      BY <1>2, <2>1, <3>t, <3>4 DEF TextFails, PeerGone, Break
    <3>5. CASE Heartbeat(c)
      BY <1>2, <2>1, <3>t, <3>5 DEF Heartbeat, Ping, Break
    <3>6. CASE Pong(c)
      BY <3>6 DEF Pong
    <3> QED BY <3>1, <3>2, <3>3, <3>4, <3>5, <3>6 DEF ServerStep
  <2> QED BY <1>1, <2>2 DEF Steady, Receiving
<1>3. SUFFICES ASSUME c \in Up PROVE Steady(c) \/ \E b \in 0..MaxFrames : Pipe(c, b)'
  BY <1>0, <1>1, <1>2, PipesStep
<1>4. PICK b \in 0..MaxFrames : Pipe(c, b)
  BY <1>0, <1>3 DEF Pipes
<1>5. /\ InHand(c) \in {0, 1} /\ Len(buf[c]) \in Nat /\ Len(wire[c]) \in Nat /\ b \in Nat
      /\ buf[c] \in Seq(1..MaxFrames) /\ wire[c] \in Seq(1..MaxFrames)
      /\ received[1] \in Nat /\ received[2] \in Nat /\ held[c] \in Nat
  BY <1>0, Kinds, StreamAssumption
<1>t. /\ task \in [Conns -> {"none", "running", "sending", "ended"}]
      /\ held \in [Conns -> 0..MaxFrames]
      /\ buf \in [Conns -> Seq(1..MaxFrames)] /\ wire \in [Conns -> Seq(1..MaxFrames)]
  BY <1>0 DEF TypeOK
<1>6. CASE Accept(c)
  <2>1. /\ buf[c] = <<>> /\ wire[c] = <<>> /\ received[1] # c /\ held[c] = 0
        /\ received[2] <= sent
    BY <1>0, <1>6 DEF Accept, Untouched
  <2>2. UNCHANGED <<buf, wire, held>>
    BY <1>6 DEF Accept
  <2>3. sent \in 0..MaxFrames
    BY <1>0 DEF TypeOK
  <2>4. PICK e \in 0..MaxFrames : e = sent
    BY <2>3
  <2>5. Pipe(c, e)'
    <3>1. InHand(c)' = 0
      BY <2>1, <2>2 DEF InHand
    <3>2. buf'[c] = <<>> /\ wire'[c] = <<>> /\ held'[c] = 0
      BY <2>1, <2>2
    <3>3. /\ Run(wire'[c], e) /\ Run(buf'[c], e + Len(wire'[c]) + InHand(c)')
      BY <3>2, RunNone
    <3>4. Len(wire'[c]) = 0 /\ Len(buf'[c]) = 0
      BY <3>2, NoneLeft
    <3>5. e + Len(wire'[c]) + InHand(c)' + Len(buf'[c]) = sent'
      BY <1>1, <2>4, <3>1, <3>4
    <3>6. e + Len(wire'[c]) + InHand(c)' + Len(buf'[c]) <= sent'
      BY <1>1, <3>5
    <3>7. received'[2] <= e /\ received'[1] # c
      BY <1>1, <2>1, <2>4
    <3> QED BY <3>2, <3>3, <3>5, <3>6, <3>7 DEF Pipe
  <2> QED BY <2>5
<1>7. CASE Recv(c)
  <2>1. held[c] = 0 /\ InHand(c) = 0 /\ Receiving(c)
    BY <1>0, <1>7 DEF Recv, Untouched, InHand, Receiving
  <2>2. /\ held'[c] = Head(buf[c]) /\ buf'[c] = Tail(buf[c]) /\ buf[c] # <<>>
        /\ UNCHANGED <<wire, sub>>
    BY <1>7, <1>t DEF Recv
  <2>3. PICK k \in Nat : k = b + Len(wire[c])
    BY <1>5
  <2>4. Run(buf[c], k)
    BY <1>4, <1>5, <2>1, <2>3 DEF Pipe
  <2>5. /\ Run(buf'[c], k + 1) /\ held'[c] = k + 1
        /\ Len(buf'[c]) = Len(buf[c]) - 1
    BY <1>5, <2>2, <2>4, RunTail
  <2>6. InHand(c)' = 1
    BY <2>5 DEF InHand
  <2>7. Pipe(c, b)'
    <3>1. k + 1 = b + Len(wire'[c]) + InHand(c)'
      BY <2>2, <2>3, <2>6
    <3>2. Run(buf'[c], b + Len(wire'[c]) + InHand(c)')
      BY <2>5, <3>1
    <3>0. k = b + Len(wire[c]) + InHand(c)
      BY <1>5, <2>1, <2>3
    <3>3. k + Len(buf[c]) <= sent /\ (c \in sub => k + Len(buf[c]) = sent)
      BY <1>4, <2>1, <3>0 DEF Pipe
    <3>n. PICK n \in Nat : n = Len(buf[c])
      BY <1>5
    <3>m. PICK m \in Int : m = Len(buf'[c]) /\ m = n - 1
      BY <2>5, <3>n
    <3>k. k \in Nat /\ n \in Nat /\ m \in Int /\ m = n - 1
      BY <2>3, <3>n, <3>m
    <3>p. (k + 1) + m = k + n
      BY <3>k
    <3>4. (k + 1) + Len(buf'[c]) = k + Len(buf[c])
      BY <3>n, <3>m, <3>p
    <3>5. /\ b + Len(wire'[c]) + InHand(c)' + Len(buf'[c]) <= sent'
          /\ c \in sub' => b + Len(wire'[c]) + InHand(c)' + Len(buf'[c]) = sent'
      BY <1>1, <2>2, <3>1, <3>3, <3>4
    <3>6. /\ received'[2] <= b /\ (received'[1] = c => received'[2] = b)
          /\ Run(wire'[c], b) /\ held'[c] = b + Len(wire'[c]) + 1
      BY <1>1, <1>4, <2>2, <2>3, <2>5 DEF Pipe
    <3> QED BY <3>2, <3>5, <3>6 DEF Pipe
  <2> QED BY <2>7
<1>8. CASE Text(c)
  <2>1. held[c] # 0 /\ InHand(c) = 1 /\ Receiving(c)
    BY <1>0, <1>8 DEF Text, Untouched, InHand, Receiving
  <2>2. /\ wire'[c] = Append(wire[c], held[c]) /\ held'[c] = 0
        /\ UNCHANGED <<buf, sub>>
    BY <1>8, <1>t DEF Text
  <2>3. held[c] = b + Len(wire[c]) + 1 /\ held[c] \in 1..MaxFrames
    BY <1>4, <1>5, <1>t, <2>1, StreamAssumption DEF Pipe
  <2>4. PICK e \in 1..MaxFrames : e = held[c]
    BY <2>3
  <2>5. Run(wire'[c], b) /\ Len(wire'[c]) = Len(wire[c]) + 1
    <3>1. Run(wire[c], b)
      BY <1>4 DEF Pipe
    <3>2. Run(Append(wire[c], e), b) /\ Len(Append(wire[c], e)) = Len(wire[c]) + 1
      BY <1>5, <2>3, <2>4, <3>1, RunAppend
    <3> QED BY <2>2, <2>4, <3>2
  <2>6. InHand(c)' = 0
    BY <2>2 DEF InHand
  <2>7. PICK k \in Nat : k = b + Len(wire[c]) + InHand(c)
    BY <1>5
  <2>8. Run(buf[c], k) /\ k = b + Len(wire'[c]) + InHand(c)'
    <3>1. Run(buf[c], k)
      BY <1>4, <2>7 DEF Pipe
    <3>2. k = b + (Len(wire[c]) + 1)
      BY <1>5, <2>1, <2>7
    <3>3. k = b + Len(wire'[c]) + InHand(c)'
      BY <1>5, <2>5, <2>6, <3>2
    <3> QED BY <3>1, <3>3
  <2>9. Pipe(c, b)'
    <3>1. Run(buf'[c], b + Len(wire'[c]) + InHand(c)')
      BY <2>2, <2>8
    <3>2. k + Len(buf[c]) <= sent /\ (c \in sub => k + Len(buf[c]) = sent)
      BY <1>4, <2>1, <2>7 DEF Pipe
    <3>3. /\ b + Len(wire'[c]) + InHand(c)' + Len(buf'[c]) <= sent'
          /\ c \in sub' => b + Len(wire'[c]) + InHand(c)' + Len(buf'[c]) = sent'
      BY <1>1, <2>2, <2>8, <3>2
    <3>4. /\ received'[2] <= b /\ (received'[1] = c => received'[2] = b)
          /\ Run(wire'[c], b) /\ held'[c] = 0
      BY <1>1, <1>4, <2>2, <2>5 DEF Pipe
    <3> QED BY <3>1, <3>3, <3>4 DEF Pipe
  <2> QED BY <2>9
<1>9. CASE Break(c) /\ UNCHANGED <<wire, sub>>
  <2>1. task'[c] = "ended" /\ buf'[c] = <<>> /\ held'[c] = 0
    BY <1>9, <1>t DEF Break
  <2>2. InHand(c)' = 0 /\ ~Receiving(c)'
    BY <2>1 DEF InHand, Receiving
  <2>3. Pipe(c, b)'
    BY <1>1, <1>4, <1>5, <1>9, <2>1, <2>2, NoneLeft, RunNone DEF Pipe
  <2> QED BY <2>3
<1>10. CASE UNCHANGED <<wire, sub, buf, held, task>>
  BY <1>1, <1>10 DEF Steady, Receiving
<1> QED BY <1>6, <1>7, <1>8, <1>9, <1>10
        DEF ServerStep, PeerGone, TextFails, Heartbeat, Ping, Pong

\* onFrame takes the first frame; a new connection starts after all that were
\* seen.
LEMMA ClientPipes ==
    ASSUME Inv, TypeOK', ClientStep \/ close PROVE Pipes'
<1> USE DEF hub, server, client
<1>0. /\ TypeOK /\ Untouched /\ Pipes /\ Loop
      /\ socket \in [Conns -> {"none", "connecting", "open", "closed"}]
      /\ wire \in [Conns -> Seq(1..MaxFrames)] /\ sent \in Nat
  BY Kinds DEF Inv, TypeOK
<1>1. CASE Resolved
  <2>1. ASSUME NEW c \in Up' PROVE c \in Up \/ task[c] = "none"
    <3>1. socket'[c] = socket[c] \/ socket[c] = "none"
      <4>1. CASE alive
        <5>1. Up = {}
          BY <1>0, <1>1, <4>1 DEF Resolved, Loop
        <5>2. socket' = [socket EXCEPT ![cur + 1] = "connecting"]
          BY <1>1, <4>1 DEF Resolved
        <5>3. c \in Conns /\ (c = cur + 1 \/ socket'[c] = socket[c])
          BY <1>0, <5>2 DEF Up
        <5>4. c = cur + 1 => socket[c] = "none"
          BY <1>0, <5>3, Kinds DEF Loop
        <5> QED BY <5>3, <5>4
      <4>2. CASE ~alive
        BY <1>1, <4>2 DEF Resolved
      <4> QED BY <4>1, <4>2
    <3> QED BY <1>0, <3>1 DEF Up, Loop
  <2>2. UNCHANGED <<hub, server, wire, received>>
    BY <1>1 DEF Resolved
  <2>3. ASSUME NEW c \in Up, c \in Up' PROVE Steady(c)
    BY <1>0, <2>2 DEF Steady, Receiving
  <2>4. ASSUME NEW c \in Up', task[c] = "none"
        PROVE  \E b \in 0..MaxFrames : Pipe(c, b)'
    <3>1. c \in Conns
      BY DEF Up
    <3>2. /\ buf'[c] = <<>> /\ wire'[c] = <<>> /\ received'[1] # c /\ held'[c] = 0
          /\ received'[2] <= sent /\ c \notin sub'
      BY <1>0, <2>2, <2>4, <3>1 DEF Untouched
    <3>3. PICK e \in 0..MaxFrames : e = sent
      BY <1>0 DEF TypeOK
    <3>4. InHand(c)' = 0 /\ Len(wire'[c]) = 0 /\ Len(buf'[c]) = 0
      BY <3>2, NoneLeft DEF InHand
    <3>5. Run(wire'[c], e) /\ Run(buf'[c], e + Len(wire'[c]) + InHand(c)')
      BY <3>2, RunNone
    <3>6. e + Len(wire'[c]) + InHand(c)' + Len(buf'[c]) <= sent'
      BY <1>0, <2>2, <3>3, <3>4
    <3> QED BY <3>2, <3>3, <3>5, <3>6 DEF Pipe
  <2> QED BY <1>0, <2>1, <2>3, <2>4, PipesStep
<1>2. CASE TimerFires
  <2>1. Up' = Up /\ \A c : Steady(c)
    BY <1>0, <1>2 DEF TimerFires, Up, Steady, Receiving
  <2> QED BY <1>0, <2>1, PipesStep
<1>3. ASSUME NEW c \in Conns, OnOpen(c) PROVE Pipes'
  <2>1. Up' = Up /\ \A d : Steady(d)
    BY <1>0, <1>3 DEF OnOpen, Up, Steady, Receiving
  <2> QED BY <1>0, <2>1, PipesStep
<1>4. ASSUME NEW c \in Conns, OnMessage(c) PROVE Pipes'
  <2>1. Up' = Up /\ Up = {c}
    BY <1>0, <1>4 DEF OnMessage, Up, Loop
  <2>2. PICK b \in 0..MaxFrames : Pipe(c, b)
    BY <1>0, <2>1 DEF Pipes
  <2>3. /\ b \in Nat /\ InHand(c) \in Nat /\ Len(buf[c]) \in Nat
        /\ wire[c] \in Seq(1..MaxFrames)
    <3>1. b \in Nat
      BY <2>2, StreamAssumption
    <3>2. c \in Conns
      OBVIOUS
    <3>3. /\ InHand(c) \in {0, 1} /\ Len(buf[c]) \in Nat
          /\ wire[c] \in Seq(1..MaxFrames)
      BY <1>0, <3>2, Kinds
    <3> QED BY <3>1, <3>3
  <2>4. /\ wire[c] # <<>> /\ received' = <<c, Head(wire[c])>>
        /\ wire'[c] = Tail(wire[c]) /\ UNCHANGED <<hub, server>>
    BY <1>0, <1>4 DEF OnMessage
  <2>5. /\ Run(wire'[c], b + 1) /\ Head(wire[c]) = b + 1
        /\ Len(wire'[c]) = Len(wire[c]) - 1 /\ Len(wire[c]) \in Nat \ {0}
    BY <2>2, <2>3, <2>4, RunTail DEF Pipe
  <2>6. PICK e \in Nat, n \in Nat : e = b + 1 /\ n = Len(wire[c])
    BY <2>3, <2>5
  <2>7. Len(wire'[c]) = n - 1 /\ InHand(c)' = InHand(c) /\ received'[1] = c /\ received'[2] = e
    BY <2>4, <2>5, <2>6 DEF InHand
  <2>8. e + Len(wire'[c]) = b + Len(wire[c])
    <3>1. PICK m \in Int : m = Len(wire'[c]) /\ m = n - 1
      BY <2>6, <2>7
    <3>k. b \in Nat /\ n \in Nat /\ m \in Int /\ e = b + 1 /\ m = n - 1
      BY <2>3, <2>6, <3>1
    <3>2. e + m = b + n
      BY <3>k
    <3> QED BY <2>6, <3>1, <3>2
  <2>9. b + Len(wire[c]) + InHand(c) + Len(buf[c]) <= sent
    BY <2>2 DEF Pipe
  <2>10. e \in 0..MaxFrames
    <3>1. b + 1 <= sent
      BY <1>0, <2>3, <2>5, <2>9
    <3>2. sent <= MaxFrames /\ MaxFrames \in Nat
      BY <1>0, StreamAssumption DEF TypeOK
    <3> QED BY <1>0, <2>3, <2>6, <3>1, <3>2
  <2>11. Pipe(c, e)'
    <3>1. Run(wire'[c], e) /\ received'[2] <= e
      BY <2>5, <2>6, <2>7
    <3>2. held'[c] # 0 => held'[c] = e + Len(wire'[c]) + 1
      BY <2>2, <2>4, <2>8 DEF Pipe
    <3>3. Run(buf'[c], e + Len(wire'[c]) + InHand(c)')
      BY <2>2, <2>4, <2>7, <2>8 DEF Pipe
    <3>4. /\ e + Len(wire'[c]) + InHand(c)' + Len(buf'[c]) <= sent'
          /\ c \in sub' /\ Receiving(c)'
             => e + Len(wire'[c]) + InHand(c)' + Len(buf'[c]) = sent'
      BY <2>2, <2>4, <2>7, <2>8 DEF Pipe, Receiving
    <3> QED BY <2>7, <3>1, <3>2, <3>3, <3>4 DEF Pipe
  <2> QED BY <1>0, <2>1, <2>10, <2>11, PipesStep
<1>5. ASSUME NEW c \in Conns, ClosedByServer(c) PROVE Pipes'
  <2>1. Up' = {}
    BY <1>0, <1>5 DEF ClosedByServer, ClosedSocket, Up, Loop
  <2> QED BY <2>1 DEF Pipes
<1>6. CASE close
  <2> DEFINE current == {c \in Conns : alive /\ c = cur /\ socket[c] = "open"}
  <2>1. /\ socket' = [c \in Conns |-> IF c \in current THEN "closed" ELSE socket[c]]
        /\ wire' = [c \in Conns |-> IF c \in current THEN <<>> ELSE wire[c]]
        /\ UNCHANGED <<hub, server, received>>
    BY <1>6 DEF close
  <2> HIDE DEF current
  <2>2. ASSUME NEW c \in Up' PROVE c \in Up /\ Steady(c)
    <3>1. c \in Conns /\ c \notin current
      BY <2>1 DEF Up
    <3>2. c \in Up /\ wire'[c] = wire[c]
      BY <2>1, <3>1 DEF Up
    <3> QED BY <1>0, <2>1, <3>2 DEF Steady, Receiving
  <2> QED BY <1>0, <2>2, PipesStep
<1> QED BY <1>1, <1>2, <1>3, <1>4, <1>5, <1>6 DEF ClientStep

\* Every step keeps the pipelines.
LEMMA NextPipes ==
    ASSUME Inv, Next PROVE Pipes'
<1>0. TypeOK /\ TypeOK' /\ Pipes /\ Loop
  BY NextTypeOK DEF Inv
<1>1. CASE broadcast
  BY <1>0, <1>1, BroadcastPipes
<1>2. ASSUME NEW c \in Conns, ConnectionLost(c) PROVE Pipes'
  <2>1. Up' = {}
    BY <1>0, <1>2 DEF ConnectionLost, ClosedSocket, Up, Loop, TypeOK
  <2> QED BY <2>1 DEF Pipes
<1> QED BY <1>0, <1>1, <1>2, ServerPipes, ClientPipes DEF Next

-----------------------------------------------------------------------------

\* Every step keeps Untouched.
LEMMA NextUntouched ==
    ASSUME Inv, Next PROVE Untouched'
<1> USE DEF hub, server, client
<1>0. /\ TypeOK /\ Untouched /\ Pipes /\ Loop
      /\ task \in [Conns -> {"none", "running", "sending", "ended"}]
      /\ held \in [Conns -> 0..MaxFrames]
      /\ buf \in [Conns -> Seq(1..MaxFrames)] /\ wire \in [Conns -> Seq(1..MaxFrames)]
      /\ sent \in Nat /\ received[2] \in Nat
  BY Kinds DEF Inv, TypeOK
<1>1. CASE broadcast
  <2>1. UNCHANGED <<task, held, wire, received>> /\ sent' = sent + 1
    BY <1>1 DEF broadcast
  <2>2. ASSUME NEW c \in Conns, c \notin sub PROVE buf'[c] = buf[c] /\ c \notin sub'
    BY <1>1, <2>2 DEF broadcast
  <2> QED BY <1>0, <2>1, <2>2 DEF Untouched
<1>2. ASSUME NEW c \in Conns, Accept(c) \/ ServerStep(c) \/ PeerGone(c)
      PROVE  Untouched'
  <2>1. UNCHANGED <<received, sent>>
    BY <1>2 DEF Accept, ServerStep, PeerGone, Recv, Text, TextFails, Heartbeat, Pong,
                Ping, Break
  <2>2. ASSUME NEW d \in Conns, d # c
        PROVE  /\ wire'[d] = wire[d] /\ held'[d] = held[d] /\ buf'[d] = buf[d]
               /\ task'[d] = task[d] /\ (d \in sub' <=> d \in sub)
    <3>1. CASE Accept(c)
      BY <1>0, <2>2, <3>1 DEF Accept
    <3>2. CASE Recv(c) \/ Text(c)
      BY <1>0, <2>2, <3>2 DEF Recv, Text
    <3>3. CASE TextFails(c) \/ PeerGone(c)
      BY <1>0, <2>2, <3>3 DEF TextFails, PeerGone, Break
    <3>4. CASE Heartbeat(c)
      BY <1>0, <2>2, <3>4 DEF Heartbeat, Ping, Break
    <3>5. CASE Pong(c)
      BY <3>5 DEF Pong
    <3> QED BY <1>2, <3>1, <3>2, <3>3, <3>4, <3>5 DEF ServerStep
  <2>3. task'[c] # "none" /\ (held'[c] # 0 <=> task'[c] = "sending")
    <3>1. CASE Accept(c)
      BY <1>0, <3>1 DEF Accept, Untouched
    <3>2. CASE Recv(c)
      <4>1. buf[c] # <<>> /\ buf[c] \in Seq(1..MaxFrames)
        BY <1>0, <3>2 DEF Recv
      <4>2. Head(buf[c]) \in 1..MaxFrames
        BY <4>1, TakeOne
      <4> QED BY <1>0, <3>2, <4>2 DEF Recv
    <3>3. CASE Text(c)
      BY <1>0, <3>3 DEF Text
    <3>4. CASE Break(c)
      BY <1>0, <3>4 DEF Break
    <3>5. CASE UNCHANGED <<task, held>> /\ task[c] # "none"
      BY <1>0, <3>5 DEF Untouched
    <3> QED BY <1>2, <3>1, <3>2, <3>3, <3>4, <3>5
            DEF ServerStep, PeerGone, TextFails, Heartbeat, Ping, Pong
  <2>4. ASSUME NEW d \in Conns
        PROVE  held'[d] # 0 <=> task'[d] = "sending"
    BY <1>0, <2>2, <2>3 DEF Untouched
  <2>5. ASSUME NEW d \in Conns, task'[d] = "none"
        PROVE  buf'[d] = <<>> /\ wire'[d] = <<>> /\ d \notin sub' /\ received'[1] # d
    <3>1. d # c
      BY <2>3, <2>5
    <3>2. task[d] = "none"
      BY <2>2, <2>5, <3>1
    <3> QED BY <1>0, <2>1, <2>2, <3>1, <3>2 DEF Untouched
  <2> QED BY <1>0, <2>1, <2>4, <2>5 DEF Untouched
<1>3. ASSUME NEW c \in Conns, OnMessage(c) PROVE Untouched'
  <2>1. c \in Up /\ wire[c] # <<>> /\ wire[c] \in Seq(1..MaxFrames)
    BY <1>0, <1>3 DEF OnMessage, Up
  <2>2. PICK b \in 0..MaxFrames : Pipe(c, b)
    BY <1>0, <2>1 DEF Pipes
  <2>3. b \in Nat /\ InHand(c) \in Nat /\ Len(buf[c]) \in Nat /\ Len(wire[c]) \in Nat \ {0}
    <3>1. b \in Nat
      BY <2>2, StreamAssumption
    <3>2. InHand(c) \in {0, 1} /\ Len(buf[c]) \in Nat
      BY <1>0, Kinds
    <3> QED BY <2>1, <3>1, <3>2, TakeOne
  <2>4. Head(wire[c]) = b + 1 /\ b + Len(wire[c]) + InHand(c) + Len(buf[c]) <= sent
    BY <2>1, <2>2, <2>3, RunTail DEF Pipe
  <2>5. Head(wire[c]) <= sent
    <3>1. b + 1 <= sent
      BY <1>0, <2>3, <2>4
    <3> QED BY <2>4, <3>1
  <2>6. /\ received' = <<c, Head(wire[c])>> /\ wire' = [wire EXCEPT ![c] = Tail(@)]
        /\ UNCHANGED <<hub, server>>
    BY <1>3 DEF OnMessage
  <2>7. task[c] # "none" /\ \A d \in Conns : d # c => wire'[d] = wire[d]
    BY <1>0, <2>1, <2>6 DEF Untouched
  <2>8. received'[1] = c /\ received'[2] <= sent'
    BY <2>5, <2>6
  <2> QED BY <1>0, <2>6, <2>7, <2>8 DEF Untouched
<1>4. CASE /\ UNCHANGED <<hub, task, held, received>>
           /\ \A c \in Conns : wire'[c] = wire[c] \/ wire'[c] = <<>>
  BY <1>0, <1>4 DEF Untouched
<1>5. CASE Resolved \/ TimerFires \/ \E c \in Conns : OnOpen(c)
  BY <1>4, <1>5 DEF Resolved, TimerFires, OnOpen
<1>6. ASSUME NEW c \in Conns, ClosedByServer(c) \/ ConnectionLost(c) PROVE Untouched'
  BY <1>0, <1>4, <1>6 DEF ClosedByServer, ConnectionLost, ClosedSocket
<1>7. CASE close
  <2> DEFINE current == {c \in Conns : alive /\ c = cur /\ socket[c] = "open"}
  <2>1. /\ wire' = [c \in Conns |-> IF c \in current THEN <<>> ELSE wire[c]]
        /\ UNCHANGED <<hub, task, held, received>>
    BY <1>7 DEF close
  <2> HIDE DEF current
  <2> QED BY <1>4, <2>1
<1> QED BY <1>1, <1>2, <1>3, <1>5, <1>6, <1>7 DEF Next, ClientStep

\* So does a step that changes nothing.
LEMMA SameInv ==
    ASSUME Inv, UNCHANGED vars PROVE Inv'
BY DEF Inv, vars, hub, server, client, TypeOK, Loop, Untouched, Pipes, Up, Spent, Pipe,
       InHand, Receiving

\* The invariant always holds.
LEMMA AlwaysInv == Spec => []Inv
<1>1. Inv /\ [Next]_vars => Inv'
  <2>1. ASSUME Inv, Next PROVE Inv'
    BY <2>1, NextTypeOK, NextLoop, NextUntouched, NextPipes DEF Inv
  <2> QED BY <2>1, SameInv
<1> QED BY <1>1, InitInv, PTL DEF Spec

-----------------------------------------------------------------------------

\* Type correctness of the stream: in particular no channel and no socket
\* holds more than its capacity.
THEOREM StreamTypeCorrect == Spec => []TypeOK
<1>1. Inv => TypeOK
  BY DEF Inv
<1> QED BY <1>1, AlwaysInv, PTL

\* A live subscription always waits for exactly one thing, a constructor, a
\* socket or a timer, and never has two sockets that feed onFrame (connect, the
\* close listener and the timer of live.ts).
THEOREM OneChainAlways == Spec => []OneChain
<1>1. ASSUME Inv PROVE OneChain
  <2>1. Loop /\ Up \subseteq {cur}
    BY <1>1 DEF Inv, Loop
  <2>2. \A x, y \in Up : x = y
    BY <2>1
  <2>3. Cardinality(Up) <= 1
    BY <2>2, AtMostOne
  <2>4. alive => /\ chain # "done" /\ (chain = "socket" <=> Up = {cur})
                 /\ (chain # "socket" => Up = {})
    BY <2>1 DEF Loop
  <2> QED BY <2>3, <2>4 DEF OneChain, Up
<1> QED BY <1>1, AlwaysInv, PTL

\* No socket is made after close(), although connect() may be suspended when
\* close() runs.
THEOREM NoSocketMadeAfterClose == Spec => NoSocketAfterClose
<1>1. ASSUME [Next]_vars PROVE [~alive => cur' = cur]_vars
  <2>1. ASSUME Next, ~alive PROVE cur' = cur
    BY <2>1
       DEF Next, ClientStep, ServerStep, broadcast, close, Accept, PeerGone, ConnectionLost,
           Resolved, TimerFires, OnOpen, OnMessage, ClosedByServer, Recv, Text, TextFails,
           Heartbeat, Pong
  <2> QED BY <1>1, <2>1
<1> QED BY <1>1, PTL DEF Spec, NoSocketAfterClose

\* onFrame sees the frames in the order of broadcast_if_subscribed, none twice,
\* and none missing on one connection: a subscriber that misses a frame is
\* dropped by the hub and its task gets no later one.
THEOREM StreamIsFaithful == Spec => StreamFaithful
<1> DEFINE A == received' # received =>
                IF received'[1] = received[1] THEN received'[2] = received[2] + 1
                                              ELSE received'[2] > received[2]
<1>1. ASSUME Inv, [Next]_vars PROVE [A]_vars
  <2>1. ASSUME Next, received' # received PROVE A
    <3>1. PICK c \in Conns : OnMessage(c)
      BY <2>1
         DEF Next, ClientStep, ServerStep, broadcast, close, Accept, PeerGone,
             ConnectionLost, Resolved, TimerFires, OnOpen, ClosedByServer, Recv, Text,
             TextFails, Heartbeat, Pong
    <3>2. /\ c \in Up /\ wire[c] # <<>> /\ wire[c] \in Seq(1..MaxFrames)
          /\ received' = <<c, Head(wire[c])>>
      BY <1>1, <3>1 DEF OnMessage, Up, Inv, TypeOK
    <3>3. PICK b \in 0..MaxFrames : Pipe(c, b)
      BY <1>1, <3>2 DEF Inv, Pipes
    <3>4. b \in Nat /\ received[2] \in Nat
      BY <1>1, <3>3, Kinds, StreamAssumption DEF Inv
    <3>5. /\ received'[1] = c /\ received'[2] = b + 1 /\ received[2] <= b
          /\ (received[1] = c => received[2] = b)
      BY <3>2, <3>3, <3>4, RunTail DEF Pipe
    <3> QED BY <3>4, <3>5
  <2> QED BY <1>1, <2>1
<1> QED BY <1>1, AlwaysInv, PTL DEF Spec, StreamFaithful

-----------------------------------------------------------------------------
(***************************************************************************)
(* The console's screens (LiveFeed), for every set of agents, limit and    *)
(* clock.  First what sorting and slicing return; then the inductive       *)
(* invariant, that queries and the pages on their way hold events of their *)
(* agent, none twice; then what the views make of such queries.            *)
(***************************************************************************)

\* q holds elements of S, each once, the highest key first.
Sorted(q, key) ==
    \A i, j \in DOMAIN q : i < j => q[i] # q[j] /\ key[q[i]] >= key[q[j]]

\* Every finite set can be sorted.
LEMMA SortedExists ==
    ASSUME NEW S, IsFiniteSet(S), NEW key, \A x \in S : key[x] \in Int
    PROVE  \E q \in [1..Cardinality(S) -> S] : Sorted(q, key)
<1> DEFINE B == {s \in SUBSET S : ~ \E q \in [1..Cardinality(s) -> s] : Sorted(q, key)}
<1> SUFFICES ASSUME B # {} PROVE FALSE
  OBVIOUS
<1>1. PICK s \in B : \A t \in SUBSET s : t # s => t \notin B
  <2>1. B \in SUBSET SUBSET S
    OBVIOUS
  <2> HIDE DEF B
  <2> QED BY <2>1, MinimalSubset
<1>2. IsFiniteSet(s) /\ \A x \in s : key[x] \in Int
  BY FS_Subset
<1>3. s # {}
  <2> SUFFICES ASSUME s = {} PROVE FALSE
    OBVIOUS
  <2>1. 1..Cardinality(s) = {}
    BY FS_EmptySet
  <2> DEFINE q == [i \in {} |-> i]
  <2>2. q \in [1..Cardinality(s) -> s] /\ Sorted(q, key)
    BY <2>1 DEF Sorted
  <2> QED BY <1>1, <2>2
<1>4. PICK m \in s : \A x \in s : key[x] >= key[m]
  BY <1>2, <1>3, LowestKey
<1> DEFINE t == s \ {m}
<1>5. PICK p \in [1..Cardinality(t) -> t] : Sorted(p, key)
  BY <1>1, <1>4
<1>6. IsFiniteSet(t) /\ t \cup {m} = s /\ m \notin t
  BY <1>2, <1>4, FS_RemoveElement
<1>7. PICK n \in Nat : n = Cardinality(t)
  BY <1>6, FS_CardinalityType
<1>8. p \in [1..n -> t] /\ Sorted(p, key) /\ t \subseteq s
  BY <1>5, <1>7
<1>9. Cardinality(s) = n + 1
  BY <1>6, <1>7, FS_AddElement
<1> HIDE DEF t
<1> DEFINE q == [i \in 1..(n + 1) |-> IF i = n + 1 THEN m ELSE p[i]]
<1>10. q \in [1..(n + 1) -> s]
  <2> SUFFICES ASSUME NEW i \in 1..(n + 1) PROVE q[i] \in s
    OBVIOUS
  <2>1. i = n + 1 \/ i \in 1..n
    OBVIOUS
  <2> QED BY <1>4, <1>8, <2>1
<1>11. Sorted(q, key)
  <2> SUFFICES ASSUME NEW i \in 1..(n + 1), NEW j \in 1..(n + 1), i < j
               PROVE  q[i] # q[j] /\ key[q[i]] >= key[q[j]]
    BY DEF Sorted
  <2>0. i \in 1..n /\ i # n + 1
    OBVIOUS
  <2>1. i \in 1..n /\ q[i] = p[i] /\ p[i] \in t
    BY <1>8, <2>0
  <2>2. CASE j = n + 1
    BY <1>4, <1>6, <1>8, <2>1, <2>2
  <2>3. CASE j # n + 1
    <3>1. j \in 1..n /\ q[j] = p[j]
      BY <2>3
    <3> QED BY <1>8, <2>1, <3>1 DEF Sorted
  <2> QED BY <2>2, <2>3
<1> QED BY <1>1, <1>9, <1>10, <1>11

\* What sorting returns: each element once, the highest keys first.
LEMMA DescendingIs ==
    ASSUME NEW S, IsFiniteSet(S), NEW key, \A x \in S : key[x] \in Int
    PROVE  LET q == Descending(S, key) n == Cardinality(S) IN
           /\ n \in Nat /\ q \in Seq(S) /\ Len(q) = n /\ q \in [1..n -> S]
           /\ \A i, j \in 1..n : i < j => q[i] # q[j] /\ key[q[i]] >= key[q[j]]
           /\ \A x \in S : \E i \in 1..n : q[i] = x
<1> DEFINE q == Descending(S, key)  n == Cardinality(S)
<1>1. n \in Nat
  BY FS_CardinalityType
<1>2. q \in [1..n -> S] /\ Sorted(q, key)
  <2>1. \E d \in [1..n -> S] : Sorted(d, key)
    BY SortedExists
  <2> QED BY <2>1 DEF Descending, Sorted
<1> HIDE DEF q, n
<1>3. \A i, j \in 1..n : i < j => q[i] # q[j] /\ key[q[i]] >= key[q[j]]
  BY <1>2 DEF Sorted
<1>4. q \in Seq(S) /\ Len(q) = n
  BY <1>1, <1>2, LenProperties
<1>5. q \in Injection(1..n, S)
  <2>1. \A i, j \in 1..n : q[i] = q[j] => i = j
    <3> SUFFICES ASSUME NEW i \in 1..n, NEW j \in 1..n, q[i] = q[j], i # j
                 PROVE  FALSE
      OBVIOUS
    <3>1. i < j \/ j < i
      BY <1>1
    <3> QED BY <1>3, <3>1
  <2> QED BY <1>2, <2>1 DEF Injection, IsInjective
<1>6. q \in Surjection(1..n, S)
  <2>1. Cardinality(1..n) = n
    BY <1>1, FS_Interval
  <2> QED BY <1>5, <2>1, FS_Injection DEF n
<1>7. \A x \in S : \E i \in 1..n : q[i] = x
  BY <1>6 DEF Surjection
<1> QED BY <1>1, <1>2, <1>3, <1>4, <1>7 DEF q, n

\* What slice(0, n) returns: the first n elements.
LEMMA SliceIs ==
    ASSUME NEW T, NEW s \in Seq(T), NEW n \in Nat
    PROVE  /\ Slice(s, n) \in Seq(T) /\ Len(Slice(s, n)) \in Nat
           /\ Len(Slice(s, n)) <= n /\ Len(Slice(s, n)) <= Len(s)
           /\ \A i \in 1..Len(Slice(s, n)) : Slice(s, n)[i] = s[i]
           /\ \A i \in 1..Len(s) : i <= n => i <= Len(Slice(s, n))
<1> DEFINE m == IF Len(s) < n THEN Len(s) ELSE n
<1>1. m \in Nat /\ Len(s) \in Nat /\ m <= n /\ m <= Len(s)
      /\ \A i \in 1..Len(s) : i <= n => i <= m
  BY LenProperties
<1>2. \A i \in 1..m : s[i] \in T
  BY <1>1, ElementOfSeq
<1> HIDE DEF m
<1>3. /\ SubSeq(s, 1, m) \in Seq(T)
      /\ Len(SubSeq(s, 1, m)) = IF 1 <= m THEN m - 1 + 1 ELSE 0
      /\ \A i \in 1..(m - 1 + 1) : SubSeq(s, 1, m)[i] = s[1 + i - 1]
  BY <1>1, <1>2, SubSeqProperties
<1>4. Slice(s, n) = SubSeq(s, 1, m)
  BY DEF Slice, m
<1> QED BY <1>1, <1>3, <1>4

-----------------------------------------------------------------------------
(* The screens: the inductive invariant.                                   *)

Event == [agent : Agents, name : {"Spent", "ScoreComputed"}, at : Nat]
Row == [id : Nat, ts : Nat]
Sub == [agent : Agents \cup {None}, alive : BOOLEAN,
        socket : {"connecting", "open", "waiting", "closed"}]

\* The rows of a query or page of agent a: each an event of a, none twice, and
\* none dated before its event was stored.
RowsOf(rows, a) ==
    /\ rows \in Seq(Row) /\ Len(rows) <= MaxBuffered
    /\ \A i \in 1..Len(rows) : /\ rows[i].id \in EventsOf(a)
                               /\ events[rows[i].id].at <= rows[i].ts
    /\ \A i, j \in 1..Len(rows) : rows[i].id = rows[j].id => i = j

\* The ticker holds events, none twice.
TickerOnce ==
    /\ ticker \in Seq(1..Len(events)) /\ Len(ticker) <= MaxTicker
    /\ \A i, j \in 1..Len(ticker) : ticker[i] = ticker[j] => i = j

\* The queries, and the pages that are about to replace them, hold rows of
\* their agents: a page was read from the events as they were, and events stay.
QueriesFilled ==
    /\ activity \in [Agents -> Seq(Row) \cup {None}]
    /\ pages \in [Agents -> Seq(Row) \cup {None}]
    /\ \A a \in Agents : /\ activity[a] = None \/ RowsOf(activity[a], a)
                         /\ pages[a] = None \/ RowsOf(pages[a], a)

\* No event was stored in the future.
EventsPast == \A i \in 1..Len(events) : events[i].at <= now

FeedInv ==
    /\ events \in Seq(Event) /\ now \in Times /\ EventsPast
    /\ subs \in [Subs -> Sub] /\ screen \in Subs \cup {None}
    /\ screen # None => subs[screen].alive
    /\ scores \in [Agents -> Seq(Nat)]
    /\ TickerOnce /\ QueriesFilled

\* What Prepended returns: x, then the first elements of s.
LEMMA PrependedIs ==
    ASSUME NEW T, NEW s \in Seq(T), NEW x \in T, NEW n \in Nat \ {0}
    PROVE  LET p == Prepended(x, s, n) IN
           /\ p \in Seq(T) /\ Len(p) \in 1..n /\ Len(p) <= Len(s) + 1
           /\ p[1] = x /\ \A i \in 2..Len(p) : p[i] = s[i - 1]
<1> DEFINE c == <<x>> \o s
<1>1. <<x>> \in Seq(T) /\ Len(<<x>>) = 1 /\ Len(s) \in Nat
  BY LenProperties
<1>2. /\ c \in Seq(T) /\ Len(c) = 1 + Len(s)
      /\ \A i \in 1..(1 + Len(s)) : c[i] = IF i <= 1 THEN <<x>>[i] ELSE s[i - 1]
  BY <1>1, ConcatProperties
<1> HIDE DEF c
<1> DEFINE p == Slice(c, n)
<1>3. /\ p \in Seq(T) /\ Len(p) \in Nat /\ Len(p) <= n /\ Len(p) <= Len(c)
      /\ \A i \in 1..Len(p) : p[i] = c[i]
      /\ \A i \in 1..Len(c) : i <= n => i <= Len(p)
  <2>1. c \in Seq(T) /\ n \in Nat
    BY <1>2
  <2> QED BY ONLY <2>1, SliceIs
<1> HIDE DEF p
<1>4. Len(p) >= 1
  <2>1. 1 \in 1..Len(c) /\ 1 <= n
    BY <1>1, <1>2
  <2> QED BY <1>3, <2>1
<1>5. p[1] = x
  <2>1. c[1] = <<x>>[1]
    BY <1>1, <1>2
  <2> QED BY <1>3, <1>4, <2>1
<1>6. ASSUME NEW i \in 2..Len(p) PROVE p[i] = s[i - 1]
  <2>1. i \in 1..(1 + Len(s)) /\ i \in 1..Len(p) /\ ~ (i <= 1)
    BY <1>1, <1>2, <1>3
  <2> QED BY <1>2, <1>3, <2>1
<1>7. Prepended(x, s, n) = p
  BY DEF Prepended, p, c
<1>8. Len(p) \in 1..n /\ Len(p) <= Len(s) + 1
  BY <1>1, <1>2, <1>3, <1>4
<1> QED BY <1>3, <1>5, <1>6, <1>7, <1>8

\* A page holds rows of its agent.
LEMMA PageIsOwn ==
    ASSUME NEW a \in Agents, events \in Seq(Event)
    PROVE  Page(a) \in Seq(Row) /\ RowsOf(Page(a), a)
<1> DEFINE S == EventsOf(a)  key == [e \in S |-> e]  d == Descending(S, key)
           newest == Slice(d, PageLimit)
<1>1. Len(events) \in Nat /\ PageLimit \in Nat /\ PageLimit <= MaxBuffered
      /\ MaxBuffered \in Nat
  BY FeedAssumption, LenProperties
<1>2. IsFiniteSet(S) /\ \A x \in S : key[x] \in Int /\ x \in Nat /\ x \in 1..Len(events)
  <2>1. S \in SUBSET (1..Len(events))
    BY DEF EventsOf
  <2>2. IsFiniteSet(1..Len(events))
    BY <1>1, FS_Interval
  <2> QED BY <2>1, <2>2, FS_Subset
<1> HIDE DEF S, key
<1>3. /\ d \in Seq(S) /\ Len(d) \in Nat
      /\ \A i, j \in 1..Len(d) : i < j => d[i] # d[j]
  BY <1>2, DescendingIs
<1> HIDE DEF d
<1>4. /\ newest \in Seq(S) /\ Len(newest) \in Nat /\ Len(newest) <= PageLimit
      /\ Len(newest) <= Len(d)
      /\ \A i \in 1..Len(newest) : newest[i] = d[i]
  BY <1>1, <1>3, SliceIs
<1> HIDE DEF newest
<1>5. DOMAIN newest = 1..Len(newest) /\ \A i \in 1..Len(newest) : newest[i] \in S
  BY <1>4, LenProperties, ElementOfSeq
<1> DEFINE p == [i \in 1..Len(newest) |-> [id |-> newest[i], ts |-> events[newest[i]].at]]
<1>6. Page(a) = p
  BY <1>5 DEF Page, newest, d, key, S
<1>7. ASSUME NEW i \in 1..Len(newest)
      PROVE  /\ p[i] \in Row /\ p[i].id = newest[i]
             /\ events[p[i].id].at <= p[i].ts
  <2>1. newest[i] \in Nat /\ events[newest[i]] \in Event
    BY <1>2, <1>5, ElementOfSeq
  <2> QED BY <2>1 DEF Event, Row
<1>8. p \in Seq(Row) /\ Len(p) = Len(newest)
  <2>1. p \in [1..Len(newest) -> Row]
    BY <1>7
  <2> HIDE DEF p
  <2> QED BY <1>4, <2>1, LenProperties
<1>9. \A i, j \in 1..Len(newest) : p[i].id = p[j].id => i = j
  <2> SUFFICES ASSUME NEW i \in 1..Len(newest), NEW j \in 1..Len(newest),
                      p[i].id = p[j].id, i # j
               PROVE  FALSE
    OBVIOUS
  <2>1. d[i] = d[j] /\ i \in 1..Len(d) /\ j \in 1..Len(d)
    BY <1>3, <1>4, <1>7
  <2>2. i < j \/ j < i
    BY <1>4
  <2> QED BY <1>3, <2>1, <2>2
<1> HIDE DEF p
<1> QED BY <1>1, <1>4, <1>5, <1>6, <1>7, <1>8, <1>9 DEF RowsOf, S

\* A frame merged into a query of its agent leaves rows of that agent: the row
\* in front is new, and only a last one can go.
LEMMA MergedIsOwn ==
    ASSUME NEW a \in Agents, NEW prev, prev = None \/ RowsOf(prev, a),
           NEW id \in EventsOf(a), now \in Nat, events \in Seq(Event),
           events[id].at <= now
    PROVE  mergeEvent(prev, id) \in Seq(Row) /\ RowsOf(mergeEvent(prev, id), a)
<1> DEFINE row == frameToRow(id, now)
<1>1. row \in Row /\ row.id = id /\ events[id].at <= row.ts
  <2>1. Len(events) \in Nat
    BY LenProperties
  <2> QED BY <2>1 DEF EventsOf, frameToRow, Row
<1>2. MaxBuffered \in Nat \ {0}
  BY FeedAssumption
<1> HIDE DEF row
<1>3. CASE prev = None
  <2>1. mergeEvent(prev, id) = <<row>>
    BY <1>3 DEF mergeEvent, row
  <2> QED BY <1>1, <1>2, <2>1 DEF RowsOf
<1>4. CASE prev # None /\ id \in Ids(prev)
  BY <1>4 DEF mergeEvent, RowsOf
<1>5. CASE prev # None /\ id \notin Ids(prev)
  <2>1. RowsOf(prev, a) /\ prev \in Seq(Row) /\ Len(prev) \in Nat
    BY <1>5, LenProperties DEF RowsOf
  <2> DEFINE m == Prepended(row, prev, MaxBuffered)
  <2>2. mergeEvent(prev, id) = m
    BY <1>5 DEF mergeEvent, row
  <2>3. /\ m \in Seq(Row) /\ Len(m) \in 1..MaxBuffered /\ Len(m) <= Len(prev) + 1
        /\ m[1] = row /\ \A i \in 2..Len(m) : m[i] = prev[i - 1]
    BY <1>1, <1>2, <2>1, PrependedIs
  <2> HIDE DEF m
  <2>4. ASSUME NEW i \in 1..Len(m)
        PROVE  \/ i = 1 /\ m[i].id = id /\ m[i] = row
               \/ i # 1 /\ i - 1 \in 1..Len(prev) /\ m[i] = prev[i - 1] /\ m[i].id # id
    <3>1. CASE i = 1
      BY <1>1, <2>3, <3>1
    <3>2. CASE i # 1
      <4>1. i \in 2..Len(m) /\ i - 1 \in 1..Len(prev)
        BY <2>1, <2>3, <3>2
      <4>2. prev[i - 1].id \in Ids(prev)
        BY <2>1, <4>1, LenProperties DEF Ids, ToSet
      <4> QED BY <1>5, <2>3, <3>2, <4>1, <4>2
    <3> QED BY <3>1, <3>2
  <2>5. \A i \in 1..Len(m) : m[i].id \in EventsOf(a) /\ events[m[i].id].at <= m[i].ts
    BY <1>1, <2>1, <2>4 DEF RowsOf
  <2>6. ASSUME NEW i \in 1..Len(m), NEW j \in 1..Len(m), m[i].id = m[j].id
        PROVE  i = j
    <3>1. CASE i = 1 \/ j = 1
      BY <2>4, <2>6, <3>1
    <3>2. CASE i # 1 /\ j # 1
      <4>1. i - 1 = j - 1
        BY <2>1, <2>4, <2>6, <3>2 DEF RowsOf
      <4> QED BY <4>1
    <3> QED BY <3>1, <3>2
  <2> QED BY <1>2, <2>2, <2>3, <2>5, <2>6 DEF RowsOf
<1> QED BY <1>3, <1>4, <1>5

\* The clock shows a natural number.
LEMMA NowIs == ASSUME FeedInv PROVE now \in Nat /\ (now' \in Times => now' \in Nat)
BY FeedAssumption DEF FeedInv

\* Nothing has happened yet.
LEMMA FeedStarts == FeedInit => FeedInv
<1> SUFFICES ASSUME FeedInit PROVE FeedInv
  OBVIOUS
<1>1. now \in Times
  <2>1. Times \in SUBSET Nat /\ Times # {}
    BY FeedAssumption
  <2> QED BY <2>1, LeastNat DEF FeedInit
<1>2. events \in Seq(Event) /\ Len(events) = 0 /\ \A a \in Agents : <<>> \in Seq(Nat)
  BY DEF FeedInit
<1>3. subs \in [Subs -> Sub] /\ screen \in Subs \cup {None} /\ screen = None
  BY DEF FeedInit, Sub, NoSub
<1>4. scores \in [Agents -> Seq(Nat)]
  BY <1>2 DEF FeedInit
<1>5. TickerOnce
  <2>1. ticker = <<>> /\ <<>> \in Seq(1..Len(events)) /\ Len(<<>>) = 0 /\ MaxTicker \in Nat
    BY FeedAssumption DEF FeedInit
  <2> QED BY <2>1 DEF TickerOnce
<1>6. QueriesFilled
  BY DEF FeedInit, QueriesFilled
<1>7. EventsPast
  BY <1>2 DEF EventsPast
<1> QED BY <1>1, <1>2, <1>3, <1>4, <1>5, <1>6, <1>7 DEF FeedInv

\* A new event leaves each row and each ticker entry an event.
LEMMA FeedEmit ==
    ASSUME FeedInv, NEW a \in Agents, NEW name \in {"Spent", "ScoreComputed"},
           Emit(a, name)
    PROVE  FeedInv'
<1> DEFINE e == [agent |-> a, name |-> name, at |-> now]
<1>1. e \in Event
  BY NowIs DEF Event
<1> HIDE DEF e
<1>2. events' \in Seq(Event) /\ Extends(events', events, e)
  <2>1. events \in Seq(Event) /\ events' = Append(events, e)
    BY DEF FeedInv, Emit, e
  <2> QED BY <1>1, <2>1, AppendIs
<1>3. Len(events) \in Nat /\ Len(events') = Len(events) + 1
  BY <1>2, LenProperties DEF Extends, FeedInv
<1>4. ASSUME NEW b \in Agents, NEW i \in EventsOf(b)
      PROVE  i \in EventsOf(b)' /\ events'[i] = events[i]
  BY <1>2, <1>3 DEF EventsOf, Extends
<1>5. TickerOnce'
  <2>1. ticker \in Seq(1..Len(events)) /\ ticker' = ticker
    BY DEF FeedInv, TickerOnce, Emit
  <2>2. 1..Len(events) \subseteq 1..Len(events')
    BY <1>3
  <2>3. ticker \in Seq(1..Len(events'))
    BY <2>1, <2>2, SeqMonotonic
  <2> QED BY <2>1, <2>3 DEF FeedInv, TickerOnce
<1>6. QueriesFilled'
  <2>1. UNCHANGED <<activity, pages>> /\ QueriesFilled
    BY DEF Emit, FeedInv
  <2>2. ASSUME NEW b \in Agents, NEW rows, RowsOf(rows, b)
        PROVE  /\ \A i \in 1..Len(rows) : /\ rows[i].id \in EventsOf(b)'
                                         /\ events'[rows[i].id].at <= rows[i].ts
               /\ rows \in Seq(Row) /\ Len(rows) <= MaxBuffered
               /\ \A i, j \in 1..Len(rows) : rows[i].id = rows[j].id => i = j
    BY <1>4, <2>2 DEF RowsOf
  <2> QED BY <2>1, <2>2 DEF QueriesFilled, RowsOf
<1>7. now' \in Times /\ UNCHANGED <<subs, screen, scores>>
  BY DEF Emit, FeedInv
<1>8. EventsPast'
  <2> SUFFICES ASSUME NEW i \in 1..Len(events') PROVE events'[i].at <= now'
    BY DEF EventsPast
  <2>1. now' = now /\ now \in Nat /\ e.at = now
    BY NowIs DEF Emit, e
  <2>2. CASE i \in 1..Len(events)
    BY <1>2, <2>1, <2>2 DEF Extends, FeedInv, EventsPast
  <2>3. CASE i = Len(events) + 1
    BY <1>2, <2>1, <2>3 DEF Extends
  <2> QED BY <1>3, <2>2, <2>3
<1> QED BY <1>2, <1>5, <1>6, <1>7, <1>8 DEF FeedInv

\* A step that leaves the events and the queries alone, and the ticker or nothing
\* of it.
LEMMA FeedAside ==
    ASSUME FeedInv, UNCHANGED <<events, activity, pages>>,
           ticker' = ticker \/ ticker' = <<>>,
           now' \in Times, now <= now', scores' \in [Agents -> Seq(Nat)],
           subs' \in [Subs -> Sub], screen' \in Subs \cup {None},
           screen' # None => subs'[screen'].alive
    PROVE  FeedInv'
<1>1. TickerOnce'
  <2>1. CASE ticker' = ticker
    BY <2>1 DEF FeedInv, TickerOnce
  <2>2. CASE ticker' = <<>>
    <3>1. ticker' \in Seq(1..Len(events')) /\ Len(ticker') = 0 /\ MaxTicker \in Nat
      BY <2>2, FeedAssumption
    <3> QED BY <3>1 DEF TickerOnce
  <2> QED BY <2>1, <2>2
<1>2. QueriesFilled'
  BY DEF FeedInv, QueriesFilled, RowsOf, EventsOf
<1>3. EventsPast'
  <2> SUFFICES ASSUME NEW i \in 1..Len(events) PROVE events[i].at <= now'
    BY DEF EventsPast
  <2>1. events[i] \in Event /\ events[i].at <= now
    BY ElementOfSeq DEF FeedInv, EventsPast
  <2> QED BY <2>1, NowIs DEF Event
<1> QED BY <1>1, <1>2, <1>3 DEF FeedInv

\* The screens and their sockets: only unsubscribe ends a subscription, and it
\* leaves the screen.
LEMMA FeedSockets ==
    ASSUME FeedInv,
           \/ \E a \in Agents : AgentDetail(a)
           \/ unsubscribe \/ FeedUnmounts
           \/ \E s \in Subs : onOpen(s) \/ onClose(s) \/ connect(s)
    PROVE  FeedInv'
<1>0. subs \in [Subs -> Sub] /\ screen \in Subs \cup {None}
      /\ (screen # None => subs[screen].alive) /\ now \in Times /\ now <= now
      /\ scores \in [Agents -> Seq(Nat)]
  BY NowIs DEF FeedInv
<1>1. CASE \E a \in Agents : AgentDetail(a)
  <2>1. PICK a \in Agents, s \in Subs :
          /\ subs' = [subs EXCEPT ![s] = [NoSub EXCEPT !.agent = a, !.alive = TRUE,
                                                       !.socket = "connecting"]]
          /\ screen' = s
          /\ ticker' = <<>>
          /\ UNCHANGED <<events, now, activity, pages, scores>>
    BY <1>1 DEF AgentDetail
  <2> DEFINE new == [NoSub EXCEPT !.agent = a, !.alive = TRUE, !.socket = "connecting"]
  <2>2. new \in Sub /\ new.alive
    BY DEF NoSub, Sub
  <2> HIDE DEF new
  <2>3. subs' \in [Subs -> Sub] /\ subs'[s].alive
    BY <1>0, <2>1, <2>2 DEF new
  <2> QED BY <1>0, <2>1, <2>3, FeedAside
<1>2. CASE unsubscribe
  <2>1. subs' \in [Subs -> Sub] /\ screen' = None
    BY <1>0, <1>2 DEF unsubscribe, Sub
  <2> QED BY <1>0, <1>2, <2>1, FeedAside DEF unsubscribe
<1>3. ASSUME NEW s \in Subs, onOpen(s) \/ onClose(s) \/ connect(s) PROVE FeedInv'
  <2>1. PICK to \in {"connecting", "open", "waiting", "closed"} :
          subs' = [subs EXCEPT ![s].socket = to]
    BY <1>3 DEF onOpen, onClose, connect, Socket
  <2>2. UNCHANGED <<events, now, screen, ticker, activity, pages, scores>>
    BY <1>3 DEF onOpen, onClose, connect
  <2>3. subs' \in [Subs -> Sub] /\ \A x \in Subs : subs'[x].alive = subs[x].alive
    BY <1>0, <2>1 DEF Sub
  <2>4. screen' # None => subs'[screen'].alive
    BY <1>0, <2>2, <2>3
  <2> QED BY <1>0, <2>2, <2>3, <2>4, FeedAside
<1>4. CASE FeedUnmounts
  BY <1>0, <1>4, FeedAside DEF FeedUnmounts
<1> QED BY <1>1, <1>2, <1>3, <1>4

\* A frame is an event of its subscription's agent: that agent's query and
\* history take it, and no other's.
LEMMA FeedFrame ==
    ASSUME FeedInv, NEW s \in Subs, NEW id, useLiveAgent(s, id)
    PROVE  FeedInv'
<1> DEFINE me == subs[s].agent
<1>0. UNCHANGED <<events, now, screen, subs, ticker, pages>> /\ id \in EventsOf(me)
  BY DEF useLiveAgent
<1>1. /\ id \in Nat /\ me \in Agents /\ events \in Seq(Event) /\ now \in Nat
      /\ events[id].at <= now
  <2>1. id \in 1..Len(events) /\ events[id].agent = me /\ events \in Seq(Event)
    BY <1>0 DEF EventsOf, FeedInv
  <2>2. events[id] \in Event /\ Len(events) \in Nat
    BY <2>1, ElementOfSeq, LenProperties
  <2>3. events[id].at <= now
    BY <2>1 DEF FeedInv, EventsPast
  <2> QED BY <2>1, <2>2, <2>3, NowIs DEF Event
<1>2. TickerOnce'
  BY <1>0 DEF FeedInv, TickerOnce
<1>3. scores' \in [Agents -> Seq(Nat)]
  <2>1. scores \in [Agents -> Seq(Nat)] /\ Append(scores[me], id) \in Seq(Nat)
    BY <1>1, AppendProperties DEF FeedInv
  <2>2. scores' = scores \/ scores' = [scores EXCEPT ![me] = Append(@, id)]
    BY DEF useLiveAgent
  <2> QED BY <1>1, <2>1, <2>2
<1>4. ASSUME NEW a \in Agents
      PROVE  /\ activity'[a] \in Seq(Row) \cup {None}
             /\ activity'[a] = None \/ RowsOf(activity'[a], a)
  <2>1. activity[a] \in Seq(Row) \cup {None}
        /\ (activity[a] = None \/ RowsOf(activity[a], a))
    BY DEF FeedInv, QueriesFilled
  <2>2. \/ activity'[a] = activity[a]
        \/ a = me /\ activity'[a] = mergeEvent(activity[a], id)
    BY DEF useLiveAgent, ActivityOf
  <2>3. CASE activity'[a] = activity[a]
    BY <2>1, <2>3
  <2>4. CASE a = me /\ activity'[a] = mergeEvent(activity[a], id)
    BY <1>0, <1>1, <2>1, <2>4, MergedIsOwn
  <2> QED BY <2>2, <2>3, <2>4
<1>5. QueriesFilled'
  <2>1. activity' = [a \in Agents |-> activity'[a]]
    BY DEF useLiveAgent
  <2>2. activity' \in [Agents -> Seq(Row) \cup {None}]
    BY <1>4, <2>1
  <2>3. /\ pages \in [Agents -> Seq(Row) \cup {None}] /\ pages' = pages
        /\ \A a \in Agents : pages[a] = None \/ RowsOf(pages[a], a)
    BY <1>0 DEF FeedInv, QueriesFilled
  <2> QED BY <1>0, <1>4, <2>2, <2>3 DEF QueriesFilled, RowsOf, EventsOf
<1>6. EventsPast'
  BY <1>0 DEF FeedInv, EventsPast
<1> QED BY <1>0, <1>2, <1>3, <1>5, <1>6 DEF FeedInv

\* The ticker takes an event it does not hold.
LEMMA FeedTicker ==
    ASSUME FeedInv, NEW id, useFleetTicker(id)
    PROVE  FeedInv'
<1>0. UNCHANGED <<events, now, screen, subs, activity, pages, scores>>
      /\ id \in 1..Len(events)
  BY DEF useFleetTicker
<1>1. QueriesFilled'
  <2>1. ASSUME NEW rows, NEW a \in Agents, RowsOf(rows, a)
        PROVE  /\ rows \in Seq(Row) /\ Len(rows) <= MaxBuffered
               /\ \A i \in 1..Len(rows) : /\ rows[i].id \in EventsOf(a)'
                                         /\ events'[rows[i].id].at <= rows[i].ts
               /\ \A i, j \in 1..Len(rows) : rows[i].id = rows[j].id => i = j
    BY <1>0, <2>1 DEF RowsOf, EventsOf
  <2> QED BY <1>0, <2>1 DEF FeedInv, QueriesFilled, RowsOf
<1>2. ticker \in Seq(1..Len(events)) /\ Len(ticker) \in Nat /\ Len(ticker) <= MaxTicker
      /\ \A i, j \in 1..Len(ticker) : ticker[i] = ticker[j] => i = j
  BY LenProperties DEF FeedInv, TickerOnce
<1>5. EventsPast'
  BY <1>0 DEF FeedInv, EventsPast
<1>3. CASE ticker' = ticker
  BY <1>0, <1>1, <1>3, <1>5 DEF FeedInv, TickerOnce
<1>4. CASE ticker' = Prepended(id, ticker, MaxTicker) /\ ~ Contains(ticker, id)
  <2>1. MaxTicker \in Nat \ {0}
    BY FeedAssumption
  <2> DEFINE t == Prepended(id, ticker, MaxTicker)  T == 1..Len(events)
  <2>0. ticker \in Seq(T) /\ id \in T
    BY <1>0, <1>2
  <2> HIDE DEF T
  <2>2. /\ t \in Seq(T) /\ Len(t) \in 1..MaxTicker
        /\ Len(t) <= Len(ticker) + 1 /\ t[1] = id
        /\ \A i \in 2..Len(t) : t[i] = ticker[i - 1]
    BY <2>1, <2>0, PrependedIs
  <2> HIDE DEF t
  <2>3. ASSUME NEW i \in 1..Len(t)
        PROVE  \/ i = 1 /\ t[i] = id
               \/ i # 1 /\ i - 1 \in 1..Len(ticker) /\ t[i] = ticker[i - 1] /\ t[i] # id
    <3>1. CASE i = 1
      BY <2>2, <3>1
    <3>2. CASE i # 1
      <4>1. i \in 2..Len(t) /\ i - 1 \in 1..Len(ticker)
        BY <1>2, <2>2, <3>2
      <4> QED BY <1>4, <2>2, <3>2, <4>1 DEF Contains
    <3> QED BY <3>1, <3>2
  <2>4. ASSUME NEW i \in 1..Len(t), NEW j \in 1..Len(t), t[i] = t[j] PROVE i = j
    <3>1. CASE i = 1 \/ j = 1
      BY <2>3, <2>4, <3>1
    <3>2. CASE i # 1 /\ j # 1
      <4>1. i - 1 = j - 1
        BY <1>2, <2>3, <2>4, <3>2
      <4> QED BY <4>1
    <3> QED BY <3>1, <3>2
  <2>5. Len(t) <= MaxTicker /\ ticker' = t
    BY <1>4, <2>2 DEF t
  <2>6. TickerOnce'
    BY <1>0, <2>2, <2>4, <2>5 DEF TickerOnce, T
  <2> QED BY <1>0, <1>1, <1>5, <2>6 DEF FeedInv
<1> QED BY <1>3, <1>4 DEF useFleetTicker

\* A fetch reads a page, and its answer replaces the query's rows.
LEMMA FeedPages ==
    ASSUME FeedInv, NEW a \in Agents,
           useAgentActivityQuery(a) \/ useBackfillAgent(a) \/ PageResolved(a)
    PROVE  FeedInv'
<1>0. UNCHANGED <<events, now, screen, subs, ticker, scores>>
  BY DEF useAgentActivityQuery, useBackfillAgent, PageResolved
<1>1. /\ activity \in [Agents -> Seq(Row) \cup {None}]
      /\ pages \in [Agents -> Seq(Row) \cup {None}]
      /\ \A b \in Agents : /\ activity[b] = None \/ RowsOf(activity[b], b)
                           /\ pages[b] = None \/ RowsOf(pages[b], b)
  BY DEF FeedInv, QueriesFilled
<1>2. TickerOnce'
  BY <1>0 DEF FeedInv, TickerOnce
<1>3. /\ activity' \in [Agents -> Seq(Row) \cup {None}]
      /\ pages' \in [Agents -> Seq(Row) \cup {None}]
      /\ \A b \in Agents : /\ activity'[b] = None \/ RowsOf(activity'[b], b)
                           /\ pages'[b] = None \/ RowsOf(pages'[b], b)
  <2>1. CASE useAgentActivityQuery(a) \/ useBackfillAgent(a)
    <3>1. pages' = [pages EXCEPT ![a] = Page(a)] /\ activity' = activity
      BY <2>1 DEF useAgentActivityQuery, useBackfillAgent
    <3>2. Page(a) \in Seq(Row) /\ RowsOf(Page(a), a)
      BY PageIsOwn DEF FeedInv
    <3> QED BY <1>1, <3>1, <3>2
  <2>2. CASE PageResolved(a)
    <3>1. pages' = [pages EXCEPT ![a] = None] /\ RowsOf(pages[a], a)
          /\ pages[a] \in Seq(Row)
      BY <1>1, <2>2 DEF PageResolved
    <3>2. activity' = [activity EXCEPT ![a] = pages[a]] \/ activity' = activity
      BY <2>2 DEF PageResolved
    <3> QED BY <1>1, <3>1, <3>2
  <2> QED BY <2>1, <2>2
<1>4. QueriesFilled'
  BY <1>0, <1>3 DEF QueriesFilled, RowsOf, EventsOf
<1>5. EventsPast'
  BY <1>0 DEF FeedInv, EventsPast
<1> QED BY <1>0, <1>2, <1>4, <1>5 DEF FeedInv

\* A score history is fetched as a whole.
LEMMA FeedSamples ==
    ASSUME FeedInv, NEW a \in Agents, useAgentScoreHistoryQuery(a)
    PROVE  FeedInv'
<1> DEFINE S == {i \in EventsOf(a) : events[i].name = "ScoreComputed"}
           key == [e \in S |-> e]  d == Descending(S, key)
<1>1. IsFiniteSet(S) /\ S \subseteq Nat /\ \A x \in S : key[x] \in Int
  <2>1. S \in SUBSET (1..Len(events)) /\ Len(events) \in Nat
    BY LenProperties DEF EventsOf, FeedInv
  <2>2. IsFiniteSet(1..Len(events))
    BY <2>1, FS_Interval
  <2> QED BY <2>1, <2>2, FS_Subset
<1>2. scores' = [scores EXCEPT ![a] = d]
  BY DEF useAgentScoreHistoryQuery
<1> HIDE DEF S, key
<1>3. d \in Seq(Nat)
  <2>1. d \in Seq(S)
    BY <1>1, DescendingIs
  <2> HIDE DEF d
  <2> QED BY <1>1, <2>1, SeqMonotonic
<1> HIDE DEF d
<1>4. scores' \in [Agents -> Seq(Nat)]
  BY <1>2, <1>3 DEF FeedInv
<1>5. now <= now
  BY NowIs
<1> QED BY <1>4, <1>5, FeedAside DEF useAgentScoreHistoryQuery, FeedInv

\* Each step keeps the invariant.
LEMMA FeedSteps == FeedInv /\ [FeedNext]_feedVars => FeedInv'
<1> SUFFICES ASSUME FeedInv, [FeedNext]_feedVars PROVE FeedInv'
  OBVIOUS
<1>1. CASE UNCHANGED feedVars
  <2>1. now <= now
    BY NowIs
  <2> QED BY <1>1, <2>1, FeedAside DEF feedVars, FeedInv
<1>2. ASSUME NEW a \in Agents, Emit(a, "Spent") \/ Emit(a, "ScoreComputed") PROVE FeedInv'
  BY <1>2, FeedEmit
<1>3. CASE (\E a \in Agents : AgentDetail(a)) \/ unsubscribe \/ FeedUnmounts
           \/ \E s \in Subs : onOpen(s) \/ onClose(s) \/ connect(s)
  BY <1>3, FeedSockets
<1>4. ASSUME NEW a \in Agents,
             useAgentActivityQuery(a) \/ useBackfillAgent(a) \/ PageResolved(a)
      PROVE  FeedInv'
  BY <1>4, FeedPages
<1>5. ASSUME NEW a \in Agents, useAgentScoreHistoryQuery(a) PROVE FeedInv'
  BY <1>5, FeedSamples
<1>6. CASE Tick
  <2>1. now' \in Times /\ now <= now'
    <3> DEFINE Later == {t \in Times : t > now}
    <3>1. Later \in SUBSET Nat /\ Later # {} /\ now' = Min(Later)
      BY <1>6, FeedAssumption DEF Tick
    <3> HIDE DEF Later
    <3>2. now' \in Later
      BY <3>1, LeastNat
    <3>3. now' \in Times /\ now' > now
      BY <3>2 DEF Later
    <3> QED BY <3>3, NowIs
  <2> QED BY <1>6, <2>1, FeedAside DEF Tick, FeedInv
<1>7. ASSUME NEW id, useFleetTicker(id) \/ \E s \in Subs : useLiveAgent(s, id)
      PROVE  FeedInv'
  BY <1>7, FeedTicker, FeedFrame
<1>8. CASE FeedNext
  BY <1>2, <1>3, <1>4, <1>5, <1>6, <1>7, <1>8, Zenon DEF FeedNext
<1> QED BY <1>1, <1>8

\* The invariant holds throughout.
LEMMA FeedKept == FeedSpec => []FeedInv
<1> QED BY FeedStarts, FeedSteps, PTL DEF FeedSpec

\* The buffers stay within MAX_BUFFERED_ACTIVITY and MAX_TICKER, and the mounted
\* screen has a subscription that was not ended (FeedTypeOK).
THEOREM FeedTypeCorrect == FeedSpec => []FeedTypeOK
<1>1. FeedInv => FeedTypeOK
  <2> SUFFICES ASSUME FeedInv PROVE FeedTypeOK
    OBVIOUS
  <2>1. ASSUME NEW a \in Agents PROVE Len(Rows(a)) <= MaxBuffered
    <3>1. Len(<<>>) <= MaxBuffered
      BY FeedAssumption
    <3> QED BY <3>1 DEF FeedInv, QueriesFilled, RowsOf, Rows
  <2> QED BY <2>1 DEF FeedInv, TickerOnce, FeedTypeOK
<1> QED BY <1>1, FeedKept, PTL

\* The rows shown for an agent are events of it, none twice.
LEMMA RowsAre ==
    ASSUME FeedInv, NEW a \in Agents
    PROVE  Rows(a) \in Seq(Row) /\ Len(Rows(a)) \in Nat /\ RowsOf(Rows(a), a)
<1>1. <<>> \in Seq(Row) /\ RowsOf(<<>>, a)
  BY FeedAssumption DEF RowsOf
<1>2. Rows(a) \in Seq(Row) /\ RowsOf(Rows(a), a)
  BY <1>1 DEF FeedInv, QueriesFilled, RowsOf, Rows
<1> QED BY <1>2, LenProperties

\* However frames and pages interleave, an event is one row of its own agent's
\* page, and one entry of the ticker (RowsInPlace).
THEOREM RowsStayInPlace == FeedSpec => []RowsInPlace
<1>1. FeedInv => RowsInPlace
  <2> SUFFICES ASSUME FeedInv PROVE RowsInPlace
    OBVIOUS
  <2>1. OneRowPerEvent
    BY RowsAre DEF OneRowPerEvent, RowsOf, FeedInv, TickerOnce
  <2>2. ASSUME NEW a \in Agents, NEW i \in Ids(Rows(a)) PROVE i \in EventsOf(a)
    <3>1. PICK k \in DOMAIN Rows(a) : i = Rows(a)[k].id
      BY DEF Ids, ToSet
    <3>2. k \in 1..Len(Rows(a))
      BY RowsAre, LenProperties
    <3> QED BY <3>1, <3>2, RowsAre DEF RowsOf
  <2> QED BY <2>1, <2>2 DEF RowsInPlace, OwnActivity
<1> QED BY <1>1, FeedKept, PTL

-----------------------------------------------------------------------------
(* The merged feed.                                                        *)

\* The rows of the queries.
KnownRows == UNION {ToSet(Rows(a)) : a \in Agents}

\* The rows the feed is made of, those of frames dated t.
Merged(t) ==
    KnownRows \cup {frameToRow(i, t) : i \in ToSet(ticker) \ {r.id : r \in KnownRows}}

\* They are finitely many, one for each event known.
LEMMA MergedIs ==
    ASSUME FeedInv, NEW t \in Nat
    PROVE  /\ IsFiniteSet(Merged(t)) /\ Merged(t) \subseteq Row
           /\ \A r \in Merged(t) : r.id \in 1..Len(events) /\ events[r.id] \in Event
           /\ \A r, s \in Merged(t) : r.id = s.id => r = s
           /\ \A i \in Known : \E r \in Merged(t) : r.id = i
<1> DEFINE Fresh == ToSet(ticker) \ {r.id : r \in KnownRows}
<1>0. Len(events) \in Nat /\ now \in Nat /\ events \in Seq(Event)
  BY LenProperties, NowIs DEF FeedInv
<1>1. ASSUME NEW r \in KnownRows
      PROVE  \E a \in Agents : \E k \in 1..Len(Rows(a)) : r = Rows(a)[k]
  <2>1. PICK a \in Agents : r \in ToSet(Rows(a))
    BY DEF KnownRows
  <2>2. DOMAIN Rows(a) = 1..Len(Rows(a))
    BY RowsAre, LenProperties
  <2> QED BY <2>1, <2>2 DEF ToSet
<1>2. \A r \in KnownRows : r \in Row /\ r.id \in 1..Len(events)
  BY <1>1, RowsAre, ElementOfSeq DEF RowsOf, EventsOf
<1>3. ASSUME NEW r \in KnownRows, NEW s \in KnownRows, r.id = s.id PROVE r = s
  <2>1. PICK a \in Agents : \E k \in 1..Len(Rows(a)) : r = Rows(a)[k]
    BY <1>1
  <2>2. PICK b \in Agents : \E k \in 1..Len(Rows(b)) : s = Rows(b)[k]
    BY <1>1
  <2>3. r.id \in EventsOf(a) /\ s.id \in EventsOf(b)
    BY <2>1, <2>2, RowsAre DEF RowsOf
  <2>4. a = b
    BY <1>3, <2>3 DEF EventsOf
  <2> QED BY <1>3, <2>1, <2>2, <2>4, RowsAre DEF RowsOf
<1>4. \A i \in ToSet(ticker) : i \in 1..Len(events)
  <2>1. ticker \in Seq(1..Len(events)) /\ DOMAIN ticker = 1..Len(ticker)
    BY LenProperties DEF FeedInv, TickerOnce
  <2> QED BY <2>1, ElementOfSeq DEF ToSet
<1>5. \A i \in Fresh : frameToRow(i, t) \in Row /\ frameToRow(i, t).id = i
  BY <1>0, <1>4 DEF frameToRow, Row
<1>6. Merged(t) = KnownRows \cup {frameToRow(i, t) : i \in Fresh}
  BY DEF Merged
<1>7. \A r \in Merged(t) : \/ r \in KnownRows
                        \/ \E i \in Fresh : r = frameToRow(i, t) /\ r.id = i
  BY <1>5, <1>6
<1>8. ASSUME NEW r \in Merged(t)
      PROVE  r \in Row /\ r.id \in 1..Len(events) /\ events[r.id] \in Event
  <2>1. r \in Row /\ r.id \in 1..Len(events)
    BY <1>2, <1>4, <1>5, <1>7
  <2> QED BY <1>0, <2>1, ElementOfSeq
<1>9. ASSUME NEW r \in Merged(t), NEW s \in Merged(t), r.id = s.id PROVE r = s
  BY <1>3, <1>7, <1>9
<1>10. IsFiniteSet(Merged(t))
  <2> DEFINE f == [r \in Merged(t) |-> r.id]
  <2>1. f \in Injection(Merged(t), 1..Len(events))
    <3>1. f \in [Merged(t) -> 1..Len(events)]
      BY <1>8
    <3>2. \A r, s \in DOMAIN f : f[r] = f[s] => r = s
      BY <1>9
    <3> HIDE DEF f
    <3> QED BY <3>1, <3>2 DEF Injection, IsInjective
  <2>2. IsFiniteSet(1..Len(events))
    BY <1>0, FS_Interval
  <2> QED BY <2>1, <2>2, FS_Injection
<1>11. ASSUME NEW i \in Known PROVE \E r \in Merged(t) : r.id = i
  <2>1. CASE i \in {r.id : r \in KnownRows}
    BY <1>6, <2>1
  <2>2. CASE i \notin {r.id : r \in KnownRows}
    <3>1. \A a \in Agents : i \notin Ids(Rows(a))
      BY <2>2 DEF Ids, KnownRows
    <3>2. i \in Fresh
      BY <2>2, <3>1 DEF Known
    <3> QED BY <1>5, <1>6, <3>2
  <2> QED BY <2>1, <2>2
<1> QED BY <1>8, <1>9, <1>10, <1>11

\* The feed is its limit's worth of them, newest first, and the rows cut off are
\* older than those kept.
LEMMA FleetIs ==
    ASSUME FeedInv, NEW t \in Nat
    PROVE  /\ FleetAt(t) \in Seq(Row) /\ Len(FleetAt(t)) \in Nat
           /\ ToSet(FleetAt(t)) \subseteq Merged(t)
           /\ \A i, j \in 1..Len(FleetAt(t)) : i < j => FleetAt(t)[i].id > FleetAt(t)[j].id
           /\ \A r \in Merged(t) \ ToSet(FleetAt(t)), s \in ToSet(FleetAt(t)) : s.id > r.id
<1> DEFINE key == [r \in Merged(t) |-> r.id]
           limit == PerAgentLimit * Max({1, Cardinality(Agents)})
           d == Descending(Merged(t), key)
           f == Slice(d, limit)
<1>1. limit \in Nat
  <2>1. Cardinality(Agents) \in Nat /\ PerAgentLimit \in Nat
    BY ViewAssumption, FS_CardinalityType
  <2>2. PICK m \in Nat : m = Max({1, Cardinality(Agents)})
    <3>1. \E m \in {1, Cardinality(Agents)} : \A y \in {1, Cardinality(Agents)} : m >= y
      BY <2>1
    <3> QED BY <2>1, <3>1 DEF Max
  <2> QED BY <2>1, <2>2
<1>2. FleetAt(t) = f
  <2>1. KnownRows = UNION {ToSet([a \in Agents |-> Rows(a)][b]) : b \in Agents}
    BY DEF KnownRows
  <2> QED BY <2>1 DEF FleetAt, useFleetActivity, SortThenSlice, Merged
<1> HIDE DEF limit
<1>3. \A r \in Merged(t) : r.id \in Int /\ r.id \in Nat
  BY MergedIs DEF Row
<1>4. /\ d \in Seq(Merged(t)) /\ Len(d) \in Nat
      /\ \A i, j \in 1..Len(d) : i < j => d[i] # d[j] /\ key[d[i]] >= key[d[j]]
      /\ \A r \in Merged(t) : \E i \in 1..Len(d) : d[i] = r
  <2>1. \A r \in Merged(t) : key[r] \in Int
    BY <1>3
  <2> HIDE DEF key
  <2> QED BY <2>1, MergedIs, DescendingIs
<1> HIDE DEF d
<1>5. /\ f \in Seq(Merged(t)) /\ Len(f) \in Nat /\ Len(f) <= Len(d)
      /\ \A i \in 1..Len(f) : f[i] = d[i]
      /\ \A i \in 1..Len(d) : i <= limit => i <= Len(f)
  BY <1>1, <1>4, SliceIs
<1> HIDE DEF f
<1>6. ASSUME NEW i \in 1..Len(d), NEW j \in 1..Len(d), i < j
      PROVE  d[i].id > d[j].id
  <2>1. d[i] \in Merged(t) /\ d[j] \in Merged(t)
    BY <1>4, ElementOfSeq
  <2>2. d[i].id # d[j].id /\ d[i].id >= d[j].id
    BY <1>4, <1>6, <2>1, MergedIs
  <2> QED BY <1>3, <2>1, <2>2
<1>7. DOMAIN f = 1..Len(f)
  BY <1>5, LenProperties
<1>8. ASSUME NEW i \in 1..Len(f), NEW j \in 1..Len(f), i < j PROVE f[i].id > f[j].id
  <2>1. Len(f) \in Nat /\ Len(d) \in Nat /\ Len(f) <= Len(d)
    BY <1>4, <1>5
  <2>2. i \in 1..Len(d) /\ j \in 1..Len(d)
    BY ONLY <2>1
  <2> QED BY <1>5, <1>6, <1>8, <2>2
<1>9. ASSUME NEW r \in Merged(t) \ ToSet(f), NEW s \in ToSet(f) PROVE s.id > r.id
  <2>1. PICK i \in 1..Len(d) : d[i] = r
    BY <1>4
  <2>2. PICK j \in 1..Len(f) : f[j] = s
    BY <1>7 DEF ToSet
  <2>3. ~ (i <= Len(f))
    BY <1>5, <1>7, <1>9, <2>1 DEF ToSet
  <2>4. j < i /\ j \in 1..Len(d)
    <3>1. Len(f) \in Nat /\ Len(d) \in Nat /\ Len(f) <= Len(d)
      BY <1>4, <1>5
    <3> QED BY ONLY <2>3, <3>1
  <2> QED BY <1>5, <1>6, <2>1, <2>2, <2>4
<1>10. f \in Seq(Row) /\ ToSet(f) \subseteq Merged(t)
  <2>1. f \in Seq(Row)
    BY <1>5, MergedIs, SeqMonotonic
  <2> QED BY <1>5, <1>7, <2>1, ElementOfSeq DEF ToSet
<1> QED BY <1>2, <1>5, <1>8, <1>9, <1>10

\* The panel's sample is the newest of its history.
LEMMA PanelIs ==
    ASSUME NEW h \in Seq(Nat), h # <<>>
    PROVE  \A p \in ToSet(h) : p <= ScorePanel(h)
<1> DEFINE D == 1..Len(h)
           key == [i \in D |-> -h[i]]
           q == Descending(D, key)
<1>1. Len(h) \in Nat /\ Len(h) # 0 /\ DOMAIN h = D /\ \A i \in D : h[i] \in Nat
  BY LenProperties, EmptySeq, ElementOfSeq
<1>2. IsFiniteSet(D) /\ Cardinality(D) = Len(h)
  BY <1>1, FS_Interval
<1>3. ScorePanel(h) = h[Last(q)]
  BY <1>1 DEF ScorePanel
<1>4. \A i \in D : key[i] \in Int /\ key[i] = -h[i]
  BY <1>1
<1> HIDE DEF D, key
<1>5. /\ q \in Seq(D) /\ Len(q) = Len(h)
      /\ \A i, j \in 1..Len(h) : i < j => q[i] # q[j] /\ key[q[i]] >= key[q[j]]
      /\ \A x \in D : \E i \in 1..Len(h) : q[i] = x
  BY <1>2, <1>4, DescendingIs
<1> HIDE DEF q
<1>6. PICK n \in Nat \ {0} : n = Len(h)
  BY <1>1
<1>7. Last(q) = q[n] /\ q[n] \in D
  BY <1>5, <1>6, ElementOfSeq DEF Last
<1>8. ASSUME NEW p \in ToSet(h) PROVE p <= h[q[n]]
  <2>1. PICK x \in D : p = h[x]
    BY <1>1, <1>8 DEF ToSet
  <2>2. PICK i \in 1..n : q[i] = x
    BY <1>5, <1>6, <2>1
  <2>3. CASE i = n
    BY <1>1, <2>1, <2>2, <2>3
  <2>4. CASE i < n
    <3>1. key[x] >= key[q[n]]
      <4>1. i \in 1..Len(h) /\ n \in 1..Len(h)
        BY <1>6, <2>2
      <4> QED BY <1>5, <2>2, <2>4, <4>1
    <3>2. h[x] \in Nat /\ h[q[n]] \in Nat /\ key[x] = -h[x] /\ key[q[n]] = -h[q[n]]
      BY <1>1, <1>4, <1>7, <2>1
    <3> QED BY <2>1, <3>1, <3>2
  <2> QED BY <1>6, <2>2, <2>3, <2>4
<1> QED BY <1>3, <1>7, <1>8

\* What the console shows as newest is the newest it knows: the feed is newest
\* first, its limit cuts off the oldest, and the panel's score is the newest
\* sample's (NewestShown).
THEOREM NewestIsShown == FeedSpec => []NewestShown
<1>1. FeedInv => NewestShown
  <2> SUFFICES ASSUME FeedInv PROVE NewestShown
    OBVIOUS
  <2>0. now \in Nat /\ Fleet = FleetAt(now)
    BY NowIs DEF Fleet
  <2>1. PICK f \in Seq(Row) : f = Fleet
    BY <2>0, FleetIs
  <2>2. /\ Len(f) \in Nat /\ ToSet(f) \subseteq Merged(now)
        /\ \A i, j \in 1..Len(f) : i < j => f[i].id > f[j].id
        /\ \A r \in Merged(now) \ ToSet(f), s \in ToSet(f) : s.id > r.id
    BY <2>0, <2>1, FleetIs
  <2>3. \A i \in 1..(Len(f) - 1) : f[i].id > f[i + 1].id
    <3> SUFFICES ASSUME NEW i \in 1..(Len(f) - 1) PROVE f[i].id > f[i + 1].id
      OBVIOUS
    <3>1. i \in 1..Len(f) /\ i + 1 \in 1..Len(f) /\ i < i + 1
      BY <2>2
    <3> QED BY <2>2, <3>1
  <2>4. ASSUME NEW i \in Known \ Ids(f), NEW r \in ToSet(f) PROVE r.id > i
    <3>1. PICK m \in Merged(now) : m.id = i
      BY <2>0, MergedIs
    <3>2. m \notin ToSet(f)
      BY <3>1, <2>4 DEF Ids
    <3> QED BY <2>2, <3>1, <3>2
  <2>5. FeedKeepsNewest
    BY <2>1, <2>3, <2>4 DEF FeedKeepsNewest
  <2>6. PanelShowsNewest
    BY PanelIs DEF PanelShowsNewest, FeedInv
  <2> QED BY <2>5, <2>6 DEF NewestShown
<1> QED BY <1>1, FeedKept, PTL

-----------------------------------------------------------------------------
(* The figures.                                                            *)

\* A row of the feed is not dated before its event was stored, and one that is
\* dated later is a frame's: no query knows the time.
LEMMA MergedDated ==
    ASSUME FeedInv, NEW t \in RenderTimes, NEW r \in Merged(t)
    PROVE  /\ events[r.id].at <= r.ts
           /\ r.ts = events[r.id].at \/ DatedOnArrival(r)
<1>1. t \in Nat /\ \A i \in ToSet(ticker) : events[i].at <= t
  BY FeedAssumption DEF RenderTimes
<1>2. ASSUME NEW a \in Agents, NEW m \in ToSet(Rows(a))
      PROVE  events[m.id].at <= m.ts /\ m \in Merged(t)
  <2>1. PICK k \in 1..Len(Rows(a)) : m = Rows(a)[k]
    BY RowsAre, LenProperties DEF ToSet
  <2> QED BY <2>1, RowsAre DEF RowsOf, Merged, KnownRows
<1>3. events[r.id].at <= r.ts
  <2>1. CASE r \in KnownRows
    BY <1>2, <2>1 DEF KnownRows
  <2>2. CASE r \notin KnownRows
    <3>1. PICK i \in ToSet(ticker) : r = frameToRow(i, t)
      BY <2>2 DEF Merged
    <3> QED BY <1>1, <3>1 DEF frameToRow
  <2> QED BY <2>1, <2>2
<1>4. ASSUME r.ts # events[r.id].at PROVE DatedOnArrival(r)
  <2> SUFFICES ASSUME NEW a \in Agents, NEW m \in ToSet(Rows(a)), m.id = r.id
               PROVE  m.ts # events[r.id].at
    BY DEF DatedOnArrival
  <2>1. m = r
    BY <1>1, <1>2, MergedIs
  <2> QED BY <1>4, <2>1
<1> QED BY <1>3, <1>4

\* A spend of the feed: its event is one of its agent, stored no later than its
\* date, and at its date unless only a frame told of it.
SpendIs(s) ==
    /\ s.id \in Nat /\ s.ts \in Nat /\ s.agent \in Agents
    /\ events[s.id].at \in Nat /\ events[s.id].at <= s.ts
    /\ s.ts = events[s.id].at \/ DatedOnArrival(s)

\* The spends of the feed are such, and finitely many.
LEMMA SpendsAre ==
    ASSUME FeedInv, NEW t \in RenderTimes
    PROVE  LET spends == Spends(FleetAt(t), events)
           IN  IsFiniteSet(spends) /\ \A s \in spends : SpendIs(s)
<1> DEFINE spends == Spends(FleetAt(t), events)
<1>0. t \in Nat
  BY FeedAssumption DEF RenderTimes
<1>1. PICK f \in Seq(Row) : f = FleetAt(t) /\ ToSet(f) \subseteq Merged(t)
  BY <1>0, FleetIs
<1>2. ASSUME NEW s \in spends
      PROVE  \E r \in Merged(t) :
                s = [id |-> r.id, ts |-> r.ts, agent |-> events[r.id].agent]
  BY <1>1 DEF Spends
<1>3. ASSUME NEW r \in Merged(t)
      PROVE  /\ r.id \in Nat /\ r.id \in 1..Len(events) /\ r.ts \in Nat
             /\ events[r.id].agent \in Agents /\ events[r.id].at \in Nat
  BY <1>0, MergedIs DEF Row, Event
<1>4. ASSUME NEW s \in spends PROVE s.id \in 1..Len(events) /\ SpendIs(s)
  <2>1. PICK r \in Merged(t) :
          s = [id |-> r.id, ts |-> r.ts, agent |-> events[r.id].agent]
    BY <1>2
  <2>2. s.id = r.id /\ s.ts = r.ts /\ s.agent = events[r.id].agent
    BY <2>1
  <2>3. /\ events[r.id].at <= r.ts
        /\ r.ts = events[r.id].at \/ DatedOnArrival(r)
    BY MergedDated
  <2>4. DatedOnArrival(r) => DatedOnArrival(s)
    BY <2>2 DEF DatedOnArrival
  <2> QED BY <1>3, <2>2, <2>3, <2>4 DEF SpendIs
<1> HIDE DEF spends
<1>5. ASSUME NEW s \in spends, NEW u \in spends, s.id = u.id PROVE s = u
  <2>1. PICK r \in Merged(t) :
          s = [id |-> r.id, ts |-> r.ts, agent |-> events[r.id].agent]
    BY <1>2
  <2>2. PICK m \in Merged(t) :
          u = [id |-> m.id, ts |-> m.ts, agent |-> events[m.id].agent]
    BY <1>2
  <2>3. r.id = m.id
    BY <1>5, <2>1, <2>2
  <2>4. r = m
    BY <1>0, <2>3, MergedIs
  <2> QED BY <2>1, <2>2, <2>4
<1>6. IsFiniteSet(spends)
  <2> DEFINE g == [s \in spends |-> s.id]
  <2>1. g \in Injection(spends, 1..Len(events))
    <3>1. g \in [spends -> 1..Len(events)]
      BY <1>4
    <3>2. \A s, u \in DOMAIN g : g[s] = g[u] => s = u
      BY <1>5
    <3> HIDE DEF g
    <3> QED BY <3>1, <3>2 DEF Injection, IsInjective
  <2>2. IsFiniteSet(1..Len(events))
    <3>1. Len(events) \in Nat
      BY LenProperties DEF FeedInv
    <3> QED BY <3>1, FS_Interval
  <2> QED BY <2>1, <2>2, FS_Injection
<1> QED BY <1>4, <1>6 DEF spends

\* The volume of a part of W is a sum of the amounts of W.
LEMMA VolumeIn ==
    ASSUME NEW W, IsFiniteSet(W), \A s \in W : s.id \in Nat, NEW X \in SUBSET W
    PROVE  Volume(X) = SumOver([s \in W |-> amount_usdc(s)], X)
<1> DEFINE amount == [s \in W |-> amount_usdc(s)]
           own == [s \in X |-> amount_usdc(s)]
<1>1. IsFiniteSet(X) /\ (\A s \in X : own[s] = amount[s]) /\ \A s \in X : own[s] \in Nat
  BY FS_Subset DEF amount_usdc
<1>2. Volume(X) = SumOver(own, X)
  BY DEF Volume
<1> HIDE DEF own, amount
<1>3. SumOver(own, X) = SumOver(amount, X)
  BY <1>1, SumSame
<1> QED BY <1>2, <1>3 DEF amount

\* Fewer spends are at most the volume of more.
LEMMA VolumeMonotone ==
    ASSUME NEW W, IsFiniteSet(W), \A s \in W : s.id \in Nat,
           NEW X \in SUBSET W, NEW Y \in SUBSET X
    PROVE  Volume(Y) <= Volume(X)
<1> DEFINE amount == [s \in W |-> amount_usdc(s)]
<1>1. IsFiniteSet(X) /\ \A s \in X : amount[s] \in Nat
  BY FS_Subset DEF amount_usdc
<1>2. Volume(X) = SumOver(amount, X) /\ Volume(Y) = SumOver(amount, Y)
  <2>1. X \in SUBSET W /\ Y \in SUBSET W
    OBVIOUS
  <2> QED BY <2>1, VolumeIn
<1> HIDE DEF amount
<1> QED BY <1>1, <1>2, SumMonotone

\* A volume is the sum of the volumes of its classes.
LEMMA VolumeByClass ==
    ASSUME NEW W, IsFiniteSet(W), \A s \in W : s.id \in Nat,
           NEW I, IsFiniteSet(I), NEW c, \A s \in W : c[s] \in I
    PROVE  Total([i \in I |-> Volume({s \in W : c[s] = i})]) = Volume(W)
<1> DEFINE amount == [s \in W |-> amount_usdc(s)]
           Class(i) == {s \in W : c[s] = i}
           Parts == [i \in I |-> Volume(Class(i))]
           Sums == [i \in I |-> SumOver(amount, Class(i))]
<1>1. \A s \in W : amount[s] \in Nat /\ c[s] \in I
  BY DEF amount_usdc
<1>2. ASSUME NEW X \in SUBSET W PROVE Volume(X) = SumOver(amount, X)
  BY VolumeIn
<1>3. \A i \in I : Parts[i] = Sums[i]
  <2> SUFFICES ASSUME NEW i \in I PROVE Parts[i] = Sums[i]
    OBVIOUS
  <2>1. Class(i) \in SUBSET W
    OBVIOUS
  <2> HIDE DEF Class, amount
  <2> QED BY <1>2, <2>1
<1>4. SumOver(Sums, I) = SumOver(amount, W)
  <2> HIDE DEF amount
  <2> QED BY <1>1, SumByClass
<1>5. SumOver(Parts, I) = SumOver(Sums, I)
  <2> HIDE DEF Parts, Sums
  <2> QED BY <1>3, SumSame
<1>6. Total(Parts) = SumOver(Parts, I)
  BY DEF Total
<1> HIDE DEF amount, Parts, Sums
<1>7. Volume(W) = SumOver(amount, W)
  BY <1>2
<1>8. Total(Parts) = Volume(W)
  BY <1>4, <1>5, <1>6, <1>7
<1> QED BY <1>8 DEF Parts

\* A spend's hour is one of the heatmap's, and the days since an instant are
\* a natural number.
LEMMA HourIs ==
    ASSUME NEW n \in Nat
    PROVE  n % TicksPerDay \in Hours /\ n \div TicksPerDay \in Nat
BY ViewAssumption DEF Hours

\* A figure of the spends dated since an instant counts each that was stored
\* since, and beyond them only late ones.
LEMMA FigureCounts ==
    ASSUME NEW S, IsFiniteSet(S), \A s \in S : SpendIs(s), NEW start \in Int
    PROVE  LET W == {s \in S : s.ts >= start}
           IN  VolumeSince(Volume(W), S, start) /\ CountSince(Cardinality(W), S, start)
<1> DEFINE W == {s \in S : s.ts >= start}
           L == StoredSince(S, start)
           U == LateSince(S, start)
<1>1. \A s \in L : s \in W
  BY DEF StoredSince, SpendIs
<1>2. \A s \in W : s \in U
  BY DEF LateSince, SpendIs
<1>3. U \in SUBSET S /\ W \in SUBSET U /\ L \in SUBSET W /\ W \in SUBSET S
  BY <1>1, <1>2 DEF LateSince
<1>4. \A s \in S : s.id \in Nat
  BY DEF SpendIs
<1> HIDE DEF W, L, U
<1>5. Volume(L) <= Volume(W) /\ Volume(W) <= Volume(U)
  BY <1>3, <1>4, VolumeMonotone
<1>6. Cardinality(L) <= Cardinality(W) /\ Cardinality(W) <= Cardinality(U)
  <2>1. IsFiniteSet(W) /\ IsFiniteSet(U)
    BY <1>3, FS_Subset
  <2> QED BY <1>3, <2>1, FS_Subset
<1> QED BY <1>5, <1>6 DEF VolumeSince, CountSince, L, U, W

\* The cards count the spends dated in the last 24 hours, by agent.
LEMMA CardFigures ==
    ASSUME FeedInv, NEW spends, IsFiniteSet(spends), \A s \in spends : SpendIs(s)
    PROVE  CardsCounted(spends)
<1> DEFINE cards == useEnrichedAgents(spends, now)
           start == now - TicksPerDay
<1> SUFFICES ASSUME NEW a \in Agents
             PROVE  /\ VolumeSince(cards[a].volume, SpendsOf(spends, a), start)
                    /\ CountSince(cards[a].tx, SpendsOf(spends, a), start)
  BY DEF CardsCounted
<1>1. start \in Int
  BY NowIs, ViewAssumption
<1>2. IsFiniteSet(SpendsOf(spends, a)) /\ \A s \in SpendsOf(spends, a) : SpendIs(s)
  BY FS_Subset DEF SpendsOf
<1>3. {s \in spends : s.agent = a /\ s.ts >= start}
        = {s \in SpendsOf(spends, a) : s.ts >= start}
  BY DEF SpendsOf
<1>4. /\ cards[a].volume = Volume({s \in SpendsOf(spends, a) : s.ts >= start})
      /\ cards[a].tx = Cardinality({s \in SpendsOf(spends, a) : s.ts >= start})
  BY <1>3 DEF useEnrichedAgents
<1> HIDE DEF cards, start
<1> QED BY <1>1, <1>2, <1>4, FigureCounts

\* The charts' window holds the spends dated since its start.
LEMMA WindowIs ==
    ASSUME FeedInv, NEW spends, \A s \in spends : SpendIs(s), NEW range \in Ranges
    PROVE  /\ RangeStart(range) \in Int
           /\ rangeWindow(spends, range, now) = {s \in spends : s.ts >= RangeStart(range)}
<1>1. now \in Nat /\ TicksPerDay \in Nat /\ range \in Nat
  BY NowIs, ViewAssumption DEF Ranges, All
<1>2. CASE range = All
  <2>1. \A s \in spends : s.ts >= 0
    BY DEF SpendIs
  <2> QED BY <1>2, <2>1 DEF RangeStart, rangeWindow
<1>3. CASE range # All
  BY <1>1, <1>3 DEF RangeStart, rangeWindow
<1> QED BY <1>2, <1>3

\* The services add up the spends of the window.
LEMMA ServiceFigures ==
    ASSUME FeedInv, NEW spends, IsFiniteSet(spends), \A s \in spends : SpendIs(s),
           NEW range \in Ranges
    PROVE  Total(buildServiceBreakdown(spends, range, now))
             = Volume(rangeWindow(spends, range, now))
<1> DEFINE W == rangeWindow(spends, range, now)
           c == [s \in W |-> serviceOf(s)]
<1>1. IsFiniteSet(W) /\ \A s \in W : s.id \in Nat
  BY FS_Subset DEF rangeWindow, SpendIs
<1>2. IsFiniteSet(Services) /\ \A s \in W : c[s] \in Services
  <2>1. IsFiniteSet({"even"}) /\ Services = {"even"} \cup {"odd"}
    BY FS_Singleton DEF Services
  <2>2. IsFiniteSet(Services)
    BY <2>1, FS_AddElement
  <2> QED BY <2>2 DEF serviceOf, Services
<1>3. buildServiceBreakdown(spends, range, now)
        = [v \in Services |-> Volume({s \in W : c[s] = v})]
  <2>1. ASSUME NEW v \in Services
        PROVE  {s \in W : serviceOf(s) = v} = {s \in W : c[s] = v}
    OBVIOUS
  <2>2. buildServiceBreakdown(spends, range, now)
          = [v \in Services |-> Volume({s \in W : serviceOf(s) = v})]
    BY DEF buildServiceBreakdown
  <2> HIDE DEF c, W
  <2> QED BY <2>1, <2>2, Zenon
<1> HIDE DEF c, W
<1>4. Total([v \in Services |-> Volume({s \in W : c[s] = v})]) = Volume(W)
  BY <1>1, <1>2, VolumeByClass
<1> QED BY <1>3, <1>4 DEF W

\* A row of the heatmap counts its agent's spends of the window.
LEMMA MatrixFigures ==
    ASSUME FeedInv, NEW spends, IsFiniteSet(spends), \A s \in spends : SpendIs(s),
           NEW range \in Ranges, NEW a \in Agents
    PROVE  Total(buildHourlyMatrix(spends, range, now)[a])
             = Cardinality({s \in SpendsOf(spends, a) : s.ts >= RangeStart(range)})
<1> DEFINE W == rangeWindow(spends, range, now)
           R == {s \in SpendsOf(spends, a) : s.ts >= RangeStart(range)}
           c == [s \in R |-> s.ts % TicksPerDay]
<1>1. IsFiniteSet(R) /\ \A s \in R : s.ts \in Nat
  BY FS_Subset DEF SpendsOf, SpendIs
<1>2. IsFiniteSet(Hours) /\ \A s \in R : c[s] \in Hours
  <2>1. 0 \in Int /\ TicksPerDay - 1 \in Int
    BY ViewAssumption
  <2>2. IsFiniteSet(Hours)
    BY <2>1, FS_Interval DEF Hours
  <2> QED BY <1>1, <2>2, HourIs
<1>3. buildHourlyMatrix(spends, range, now)[a]
        = [h \in Hours |-> Cardinality({s \in R : c[s] = h})]
  <2>1. ASSUME NEW h \in Hours
        PROVE  {s \in W : s.agent = a /\ s.ts % TicksPerDay = h} = {s \in R : c[s] = h}
    BY WindowIs DEF SpendsOf
  <2>2. buildHourlyMatrix(spends, range, now)[a]
          = [h \in Hours |-> Cardinality({s \in W : s.agent = a /\ s.ts % TicksPerDay = h})]
    BY DEF buildHourlyMatrix
  <2> HIDE DEF c, R, W
  <2> QED BY <2>1, <2>2, Zenon
<1> HIDE DEF c, R
<1>4. SumOver([h \in Hours |-> Cardinality({s \in R : c[s] = h})], Hours) = Cardinality(R)
  BY <1>1, <1>2, CountByClass
<1>5. Total([h \in Hours |-> Cardinality({s \in R : c[s] = h})])
        = SumOver([h \in Hours |-> Cardinality({s \in R : c[s] = h})], Hours)
  BY DEF Total
<1> QED BY <1>3, <1>4, <1>5 DEF R

\* The bars start at a midnight within a day of the window's start.
LEMMA StartIs ==
    ASSUME FeedInv, NEW range \in Ranges
    PROVE  /\ Days(range) \in Nat \ {0} /\ windowStart(range, now) \in Int
           /\ range # All => RangeStart(range) <= windowStart(range, now)
<1>1. PICK T \in Nat \ {0} : T = TicksPerDay
  BY ViewAssumption
<1>2. PICK d \in Nat \ {0} : d = Days(range)
  BY ViewAssumption DEF Days, Ranges
<1>3. PICK n \in Nat : n = now
  BY NowIs
<1>4. PICK q \in Nat : q = n \div T
  BY <1>1, <1>3, HourIs
<1>5. windowStart(range, now) = (q - (d - 1)) * T
  BY <1>1, <1>2, <1>3, <1>4 DEF windowStart
<1>6. (q - (d - 1)) * T \in Int
  OBVIOUS
<1>7. ASSUME range # All PROVE RangeStart(range) <= (q - (d - 1)) * T
  <2>1. RangeStart(range) = n - d * T
    BY <1>1, <1>2, <1>3, <1>7 DEF RangeStart, Days
  <2>2. n < q * T + T
    BY <1>4
  <2>3. (q - (d - 1)) * T = q * T - d * T + T
    OBVIOUS
  <2>4. q * T \in Nat /\ d * T \in Nat
    OBVIOUS
  <2> QED BY <2>1, <2>2, <2>3, <2>4
<1> QED BY <1>2, <1>5, <1>6, <1>7

\* The bars hold the spends since midnight of their first day.
LEMMA SeriesFigures ==
    ASSUME FeedInv, NEW spends, IsFiniteSet(spends), \A s \in spends : SpendIs(s),
           NEW range \in Ranges
    PROVE  Total(buildSpendSeries(spends, range, now))
             = Volume({s \in spends : s.ts >= windowStart(range, now)})
<1> DEFINE start == windowStart(range, now)
           days == Days(range)
           W == {s \in spends : s.ts >= start}
           day(s) == 1 + Min({days - 1, (s.ts - start) \div TicksPerDay})
           c == [s \in W |-> day(s)]
<1>1. IsFiniteSet(W) /\ \A s \in W : s.id \in Nat /\ s.ts \in Nat
  BY FS_Subset DEF SpendIs
<1>2. start \in Int /\ days \in Nat \ {0}
  BY StartIs
<1> HIDE DEF start, days
<1>3. ASSUME NEW s \in W PROVE day(s) \in 1..days
  <2>1. s.ts - start \in Nat
    BY <1>1, <1>2
  <2>2. PICK n \in Nat : n = (s.ts - start) \div TicksPerDay
    BY <2>1, HourIs
  <2>3. PICK r \in Nat : r = days - 1
    BY <1>2
  <2>4. \E m \in {r, n} : \A y \in {r, n} : m <= y
    BY <2>2, <2>3
  <2>5. Min({r, n}) \in {r, n} /\ Min({r, n}) <= r
    BY <2>4 DEF Min
  <2>6. day(s) = 1 + Min({r, n}) /\ days = r + 1
    BY <1>2, <2>2, <2>3
  <2> QED BY <2>3, <2>5, <2>6
<1> DEFINE I == 1..days
<1>4. IsFiniteSet(I) /\ \A s \in W : c[s] \in I
  <2>1. IsFiniteSet(I)
    BY <1>2, FS_Interval
  <2> QED BY <1>3, <2>1
<1>5. buildSpendSeries(spends, range, now) = [i \in I |-> Volume({s \in W : c[s] = i})]
  <2>1. ASSUME NEW i \in I
        PROVE  {s \in spends : s.ts >= start /\ day(s) = i} = {s \in W : c[s] = i}
    OBVIOUS
  <2>2. buildSpendSeries(spends, range, now)
          = [i \in I |-> Volume({s \in spends : s.ts >= start /\ day(s) = i})]
    BY DEF buildSpendSeries, start, days
  <2> HIDE DEF c, W, day, I
  <2> QED BY <2>1, <2>2, Zenon
<1> HIDE DEF c, W, I
<1>6. Total([i \in I |-> Volume({s \in W : c[s] = i})]) = Volume(W)
  BY <1>1, <1>4, VolumeByClass
<1> QED BY <1>5, <1>6 DEF W, start

\* The charts of a range count the spends dated in their windows, and the bars
\* are no more than the services.
LEMMA ChartFigures ==
    ASSUME FeedInv, NEW spends, IsFiniteSet(spends), \A s \in spends : SpendIs(s),
           NEW range \in Ranges
    PROVE  ChartsCounted(spends, range)
<1> DEFINE services == Total(buildServiceBreakdown(spends, range, now))
           matrix == buildHourlyMatrix(spends, range, now)
           bars == Total(buildSpendSeries(spends, range, now))
           from == RangeStart(range)
           start == windowStart(range, now)
           Since(t) == {s \in spends : s.ts >= t}
<1>1. services = Volume(Since(from)) /\ from \in Int
  BY ServiceFigures, WindowIs
<1>2. bars = Volume(Since(start)) /\ start \in Int
  BY SeriesFigures, StartIs
<1>3. VolumeSince(services, spends, from) /\ VolumeSince(bars, spends, start)
  BY <1>1, <1>2, FigureCounts
<1>4. ASSUME NEW a \in Agents
      PROVE  CountSince(Total(matrix[a]), SpendsOf(spends, a), from)
  <2>1. IsFiniteSet(SpendsOf(spends, a)) /\ \A s \in SpendsOf(spends, a) : SpendIs(s)
    BY FS_Subset DEF SpendsOf
  <2>2. Total(matrix[a]) = Cardinality({s \in SpendsOf(spends, a) : s.ts >= from})
    BY MatrixFigures
  <2> HIDE DEF matrix, from
  <2> QED BY <1>1, <2>1, <2>2, FigureCounts
<1>5. bars <= services
  <2>1. Since(start) \in SUBSET Since(from)
    <3> SUFFICES ASSUME NEW s \in spends, s.ts >= start PROVE s.ts >= from
      OBVIOUS
    <3>1. s.ts \in Nat
      BY DEF SpendIs
    <3>2. CASE range = All
      BY <3>1, <3>2 DEF RangeStart
    <3>3. CASE range # All
      <4>1. from <= start
        BY <3>3, StartIs
      <4> HIDE DEF from, start
      <4> QED BY <1>1, <1>2, <3>1, <4>1
    <3> QED BY <3>2, <3>3
  <2>2. Since(from) \in SUBSET spends /\ \A s \in spends : s.id \in Nat
    BY DEF SpendIs
  <2> HIDE DEF Since, services, bars, from, start
  <2> QED BY <1>1, <1>2, <2>1, <2>2, VolumeMonotone
<1> QED BY <1>3, <1>4, <1>5 DEF ChartsCounted

\* Each figure of the cards and, for every range, of the charts counts the
\* spends of the feed that the backend stored in its window, and beyond them at
\* most spends that only a late frame told the console of (SpendsCounted).
THEOREM SpendsAreCounted == FeedSpec => []SpendsCounted
<1>1. FeedInv => SpendsCounted
  BY SpendsAre, CardFigures, ChartFigures DEF SpendsCounted
<1> QED BY <1>1, FeedKept, PTL

=============================================================================
