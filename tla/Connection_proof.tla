-------------------------- MODULE Connection_proof --------------------------
(***************************************************************************)
(* The safety of Connection, for any number of connections and requests:   *)
(* one opener or one socket at a time, no second connection, no request    *)
(* that nothing can end, and an open connection was accepted by its server.*)
(* ConnInv is inductive by itself; the requests and the other end need it. *)
(***************************************************************************)
EXTENDS Connection, TLAPS

\* What is inductive.
IInv == ConnInv /\ PendingIsLive /\ OpenWasAccepted

\* What the peer and the client send.
Message == {HELLO} \union Calls

-----------------------------------------------------------------------------
(* Queues                                                                  *)

\* A queue that takes an element keeps the others in their places.
LEMMA Enqueue ==
  ASSUME NEW S, NEW q \in Seq(S), NEW e \in S
  PROVE  /\ Append(q, e) \in Seq(S) /\ Append(q, e) # << >>
         /\ Len(q) \in Nat /\ Len(Append(q, e)) = Len(q) + 1
         /\ Append(q, e)[Len(q) + 1] = e
         /\ \A i \in 1..Len(q) : Append(q, e)[i] = q[i]
  OBVIOUS

\* A queue that gives its first element away moves the others up.
LEMMA Dequeue ==
  ASSUME NEW S, NEW q \in Seq(S), q # << >>
  PROVE  /\ Head(q) \in S /\ Head(q) = q[1]
         /\ Tail(q) \in Seq(S)
         /\ Len(q) \in Nat /\ Len(q) >= 1 /\ Len(Tail(q)) = Len(q) - 1
         /\ \A i \in 1..Len(Tail(q)) : Tail(q)[i] = q[i + 1]
  OBVIOUS

\* An open() that gives the lock up leaves a line in which stop() is still the last.
LEMMA OpenerLeaves ==
  ASSUME TypeOK, LockInv, busy # "idle", Unlock
  PROVE  /\ line # << >> /\ line[1] = "open"
         /\ line' \in Seq({"open", "stop"})
         /\ Len(line) \in Nat /\ Len(line') \in Nat /\ Len(line') = Len(line) - 1
         /\ \A i \in 1..Len(line') : line'[i] = line[i + 1]
         /\ \A i \in 1..Len(line') : line'[i] = "stop" => i = Len(line') /\ phase = "stopping"
         /\ phase = "stopping" => line' # << >> /\ line'[Len(line')] = "stop"
         /\ phase \notin {"new", "stopped"}
<1>1. /\ line # << >> /\ line[1] = "open" /\ line' \in Seq({"open", "stop"})
      /\ Len(line) \in Nat /\ Len(line') = Len(line) - 1
      /\ \A i \in 1..Len(line') : line'[i] = line[i + 1]
  BY Dequeue DEF TypeOK, LockInv, OwnerIs, Unlock
<1>2. Len(line') \in Nat
  BY <1>1
<1>3. ASSUME NEW i \in 1..Len(line'), line'[i] = "stop"
      PROVE  i = Len(line') /\ phase = "stopping"
  <2>1. i + 1 \in 1..Len(line) /\ line[i + 1] = "stop"
    BY <1>1, <1>3
  <2>2. i + 1 = Len(line) /\ phase = "stopping"
    BY <2>1 DEF LockInv
  <2> QED
    BY <1>1, <2>2
<1>4. ASSUME phase = "stopping"
      PROVE  line' # << >> /\ line'[Len(line')] = "stop"
  <2>1. line[Len(line)] = "stop"
    BY <1>4 DEF LockInv
  <2>2. Len(line') \in 1..Len(line') /\ Len(line') + 1 = Len(line)
    BY <1>1, <1>2, <2>1
  <2> QED
    BY <1>1, <2>1, <2>2
<1>5. phase \notin {"new", "stopped"}
  BY <1>1 DEF LockInv
<1> QED
  BY <1>1, <1>2, <1>3, <1>4, <1>5

-----------------------------------------------------------------------------
(* The steps                                                               *)

\* start() arms the timer of a client that has no socket yet.
LEMMA StartStep ==
  ASSUME IInv, Start
  PROVE  IInv'
<1> USE DEF IInv, ConnInv
<1> USE DEF Start, client, rpc, wire
<1>1. TypeOK'
  BY DEF TypeOK
<1>2. LockInv'
  BY DEF LockInv, OwnerIs
<1>3. OneOpener'
  BY DEF LockInv, OneOpener, NewInv
<1>4. NeverGivesUp'
  BY DEF NeverGivesUp
<1>5. StoppedForGood'
  BY DEF StoppedForGood
<1>6. WireInv' /\ NewInv'
  BY DEF WireInv, NewInv
<1>7. PendingIsLive'
  BY DEF PendingIsLive, NewInv
<1>8. OpenWasAccepted'
  BY DEF OpenWasAccepted
<1> QED
  BY <1>1, <1>2, <1>3, <1>4, <1>5, <1>6, <1>7, <1>8

\* The opener moves from the timer to the end of the line.
LEMMA OpenTimerStep ==
  ASSUME IInv, OpenTimer
  PROVE  IInv'
<1> USE DEF IInv, ConnInv
<1>q. line' \in Seq({"open", "stop"})
  BY Enqueue DEF TypeOK, OpenTimer
<1>u. /\ timer' = FALSE
      /\ UNCHANGED << phase, connectState, retry, busy, socket, opened, handlers, rpc, wire,
                      conns, urlOk >>
  BY DEF OpenTimer
<1>1. TypeOK'
  <2>1. /\ timer' \in BOOLEAN /\ retry' \in BOOLEAN
        /\ opened' \in BOOLEAN /\ urlOk' \in BOOLEAN
    BY <1>u DEF TypeOK
  <2> QED
    BY <1>q, <1>u, <2>1 DEF TypeOK, rpc, wire
<1> USE DEF OpenTimer, client, rpc, wire
<1>2. LockInv'
  BY DEF LockInv, OwnerIs, OneOpener
<1>3. OneOpener'
  BY DEF OneOpener, IsOpener
<1>4. NeverGivesUp'
  BY DEF LockInv, OwnerIs, IsOpener, NeverGivesUp
<1>5. StoppedForGood'
  BY DEF StoppedForGood
<1>6. WireInv' /\ NewInv'
  BY DEF WireInv, NewInv
<1>7. PendingIsLive'
  BY DEF PendingIsLive
<1>8. OpenWasAccepted'
  BY DEF OpenWasAccepted
<1> QED
  BY <1>1, <1>2, <1>3, <1>4, <1>5, <1>6, <1>7, <1>8

\* An open() that finds the connection closed connects; another one leaves.
LEMMA OpenStep ==
  ASSUME IInv, Open
  PROVE  IInv'
<1> USE DEF IInv, ConnInv
<1>q. line' \in Seq({"open", "stop"})
  BY Dequeue DEF TypeOK, Open, OwnerIs, Unlock
<1>t. ASSUME connectState # "CLOSED"
      PROVE  /\ Len(line) \in Nat /\ Len(line') = Len(line) - 1
             /\ \A i \in 1..Len(line') : line'[i] = line[i + 1]
  <2>1. line \in Seq({"open", "stop"}) /\ line # << >> /\ line' = Tail(line)
    BY <1>t DEF TypeOK, Open, OwnerIs, Unlock
  <2> QED
    BY <2>1, Dequeue
<1> USE DEF Open, OwnerIs, Unlock, client, rpc, wire
<1>1. TypeOK'
  BY <1>q DEF TypeOK
<1>2. LockInv'
  <2>1. CASE connectState = "CLOSED"
    BY <2>1 DEF LockInv
  <2>2. CASE connectState # "CLOSED"
    <3>1. /\ Len(line) \in Nat /\ Len(line') = Len(line) - 1
          /\ \A i \in 1..Len(line') : line'[i] = line[i + 1]
      BY <2>2, <1>t
    <3>2. \A i \in 1..Len(line') :
            line'[i] = "stop" => i = Len(line') /\ phase = "stopping"
      BY <3>1 DEF LockInv
    <3>3. phase = "stopping" => line' # << >> /\ line'[Len(line')] = "stop"
      BY <1>q, <3>1 DEF LockInv
    <3>4. phase \notin {"new", "stopped"}
      BY DEF LockInv
    <3>5. connectState' = connectState /\ busy' = "idle" /\ UNCHANGED << phase, socket, urlOk >>
      BY <2>2
    <3> QED
      BY <3>2, <3>3, <3>4, <3>5 DEF LockInv
  <2> QED
    BY <2>1, <2>2
<1>3. OneOpener'
  <2>1. CASE connectState = "CLOSED"
    BY <2>1 DEF LockInv, OneOpener, IsOpener
  <2>2. CASE connectState # "CLOSED"
    <3>1. socket # "none"
      BY <2>2 DEF TypeOK, LockInv
    <3>2. \A i \in 1..Len(line) : ~IsOpener(i)
      BY <3>1 DEF OneOpener
    <3>3. IsOpener(1) /\ 1 \in 1..Len(line)
      BY <2>2, <1>t DEF IsOpener
    <3> QED
      BY <3>2, <3>3
  <2> QED
    BY <2>1, <2>2
<1>4. NeverGivesUp'
  BY DEF TypeOK, LockInv, IsOpener, NeverGivesUp
<1>5. StoppedForGood'
  BY DEF StoppedForGood
<1>6. WireInv' /\ NewInv'
  BY DEF WireInv, NewInv
<1>7. PendingIsLive'
  BY DEF PendingIsLive
<1>8. OpenWasAccepted'
  BY DEF OpenWasAccepted
<1> QED
  BY <1>1, <1>2, <1>3, <1>4, <1>5, <1>6, <1>7, <1>8

\* The opener becomes the socket.
LEMMA ConnectedStep ==
  ASSUME IInv, Connected
  PROVE  IInv'
<1> USE DEF IInv, ConnInv
<1>q. toServer' \in Seq(Message) /\ toClient' \in Seq(Message)
  BY DEF Connected, Message
<1> USE DEF Connected, Accepted, client, rpc, wire
<1>1. TypeOK'
  BY <1>q DEF TypeOK
<1>2. LockInv'
  BY DEF LockInv, OwnerIs
<1>3. OneOpener'
  BY DEF LockInv, OwnerIs, OneOpener, IsOpener
<1>4. NeverGivesUp'
  BY DEF NeverGivesUp
<1>5. StoppedForGood'
  BY DEF StoppedForGood
<1>6. WireInv' /\ NewInv'
  BY DEF LockInv, WireInv, NewInv, OwnerIs
<1>7. PendingIsLive'
  BY DEF LockInv, PendingIsLive
<1>8. OpenWasAccepted'
  BY DEF LockInv, WireInv, OpenWasAccepted
<1> QED
  BY <1>1, <1>2, <1>3, <1>4, <1>5, <1>6, <1>7, <1>8

\* The opener moves from the line back to the timer.
LEMMA ConnectFailsStep ==
  ASSUME IInv, ConnectFails
  PROVE  IInv'
<1> USE DEF IInv, ConnInv
<1>l. /\ line # << >> /\ line[1] = "open"
      /\ line' \in Seq({"open", "stop"})
      /\ Len(line) \in Nat /\ Len(line') \in Nat /\ Len(line') = Len(line) - 1
      /\ \A i \in 1..Len(line') : line'[i] = line[i + 1]
      /\ \A i \in 1..Len(line') : line'[i] = "stop" => i = Len(line') /\ phase = "stopping"
      /\ phase = "stopping" => line' # << >> /\ line'[Len(line')] = "stop"
      /\ phase \notin {"new", "stopped"}
  BY OpenerLeaves DEF ConnectFails
<1>u. /\ busy = "connect" /\ busy' = "idle" /\ socket' = "none" /\ connectState' = "CLOSED"
      /\ timer' = (phase = "up")
      /\ UNCHANGED << phase, retry, opened, handlers, rpc, wire, conns, urlOk >>
  BY DEF ConnectFails, NoSocket
<1>1. TypeOK'
  BY <1>l, <1>u DEF TypeOK, rpc, wire
<1>2. LockInv'
  BY <1>l, <1>u DEF LockInv
<1>3. OneOpener'
  <2>1. IsOpener(1) /\ 1 \in 1..Len(line)
    BY <1>l, <1>u DEF IsOpener
  <2>2. ASSUME NEW i \in 1..Len(line')
        PROVE  ~IsOpener(i)'
    <3>1. i + 1 \in 1..Len(line) /\ i + 1 # 1
      BY <1>l, <2>2
    <3>2. ~IsOpener(i + 1)
      BY <2>1, <3>1 DEF OneOpener
    <3> QED
      BY <1>l, <1>u, <2>2, <3>1, <3>2 DEF IsOpener
  <2>3. ~retry
    BY <2>1 DEF OneOpener
  <2> QED
    BY <1>u, <2>2, <2>3 DEF OneOpener
<1>4. NeverGivesUp'
  BY <1>l, <1>u DEF NeverGivesUp
<1>5. StoppedForGood'
  BY <1>l, <1>u DEF StoppedForGood
<1>6. WireInv' /\ NewInv'
  BY <1>l, <1>u DEF LockInv, WireInv, NewInv, wire
<1>7. PendingIsLive'
  BY <1>l, <1>u DEF LockInv, PendingIsLive, rpc
<1>8. OpenWasAccepted'
  BY <1>l, <1>u DEF LockInv, WireInv, OpenWasAccepted
<1> QED
  BY <1>1, <1>2, <1>3, <1>4, <1>5, <1>6, <1>7, <1>8

\* The first message of the server is its answer to the handshake.
LEMMA HandshakeDoneStep ==
  ASSUME IInv, HandshakeDone
  PROVE  IInv'
<1> USE DEF IInv, ConnInv
<1>l. /\ line # << >> /\ line[1] = "open"
      /\ line' \in Seq({"open", "stop"})
      /\ Len(line) \in Nat /\ Len(line') \in Nat /\ Len(line') = Len(line) - 1
      /\ \A i \in 1..Len(line') : line'[i] = line[i + 1]
      /\ \A i \in 1..Len(line') : line'[i] = "stop" => i = Len(line') /\ phase = "stopping"
      /\ phase = "stopping" => line' # << >> /\ line'[Len(line')] = "stop"
      /\ phase \notin {"new", "stopped"}
  BY OpenerLeaves DEF HandshakeDone
<1>u. /\ busy = "handshake" /\ busy' = "idle" /\ opened' = TRUE
      /\ toClient # << >> /\ toClient' = Tail(toClient)
      /\ handlers' = IF phase = "up" THEN "set" ELSE handlers
      /\ UNCHANGED << phase, connectState, timer, retry, socket, rpc, server, asked, toServer,
                      conns, urlOk >>
  BY DEF HandshakeDone, PeerOpened
<1>q. toClient' \in Seq(Message)
  BY Dequeue DEF TypeOK, Message, HandshakeDone
<1>1. TypeOK'
  BY <1>l, <1>u, <1>q DEF TypeOK, rpc
<1>2. LockInv'
  BY <1>l, <1>u DEF LockInv
<1>3. OneOpener'
  <2>1. ASSUME NEW i \in 1..Len(line'), IsOpener(i)'
        PROVE  i + 1 \in 1..Len(line) /\ IsOpener(i + 1)
    BY <1>l, <1>u, <2>1 DEF IsOpener
  <2>2. ASSUME NEW i \in 1..Len(line'), NEW j \in 1..Len(line'),
               IsOpener(i)', IsOpener(j)'
        PROVE  i = j
    <3>1. i + 1 = j + 1
      BY <2>1, <2>2 DEF OneOpener
    <3> QED
      BY <2>2, <3>1
  <2> QED
    BY <1>u, <2>1, <2>2 DEF OneOpener
<1>4. NeverGivesUp'
  <2>1. ASSUME NEW i \in 1..Len(line), IsOpener(i)
        PROVE  i - 1 \in 1..Len(line') /\ IsOpener(i - 1)'
    <3>1. i # 1 /\ line[i] = "open"
      BY <1>u, <2>1 DEF IsOpener
    <3>2. i - 1 \in 1..Len(line') /\ (i - 1) + 1 = i
      BY <1>l, <2>1, <3>1
    <3>3. line'[i - 1] = "open"
      BY <1>l, <3>1, <3>2
    <3> QED
      BY <1>u, <3>2, <3>3 DEF IsOpener
  <2> QED
    BY <1>u, <2>1 DEF NeverGivesUp
<1>5. StoppedForGood'
  BY <1>l, <1>u DEF StoppedForGood
<1>6. WireInv' /\ NewInv'
  BY <1>l, <1>u DEF WireInv, NewInv
<1>7. PendingIsLive'
  BY <1>l, <1>u DEF PendingIsLive, rpc
<1>8. OpenWasAccepted'
  BY <1>l, <1>u DEF WireInv, OpenWasAccepted
<1> QED
  BY <1>1, <1>2, <1>3, <1>4, <1>5, <1>6, <1>7, <1>8

\* A handshake that fails leaves the socket, or what came after its close.
LEMMA HandshakeFailsStep ==
  ASSUME IInv, HandshakeFails
  PROVE  IInv'
<1> USE DEF IInv, ConnInv
<1>l. /\ line # << >> /\ line[1] = "open"
      /\ line' \in Seq({"open", "stop"})
      /\ Len(line) \in Nat /\ Len(line') \in Nat /\ Len(line') = Len(line) - 1
      /\ \A i \in 1..Len(line') : line'[i] = line[i + 1]
      /\ \A i \in 1..Len(line') : line'[i] = "stop" => i = Len(line') /\ phase = "stopping"
      /\ phase = "stopping" => line' # << >> /\ line'[Len(line')] = "stop"
      /\ phase \notin {"new", "stopped"}
  BY OpenerLeaves DEF HandshakeFails
<1>u. /\ busy = "handshake" /\ busy' = "idle"
      /\ socket' = IF socket = "up" THEN "ended" ELSE socket
      /\ UNCHANGED << phase, connectState, timer, retry, opened, handlers, rpc, wire, conns, urlOk >>
  BY DEF HandshakeFails, EndSocket
<1>1. TypeOK'
  BY <1>l, <1>u DEF TypeOK, rpc, wire
<1>2. LockInv'
  BY <1>l, <1>u DEF LockInv
<1>3. OneOpener'
  BY <1>l, <1>u DEF OneOpener, IsOpener
<1>4. NeverGivesUp'
  <2>1. ASSUME NEW i \in 1..Len(line), IsOpener(i)
        PROVE  i - 1 \in 1..Len(line') /\ IsOpener(i - 1)'
    <3>1. i # 1 /\ line[i] = "open"
      BY <1>u, <2>1 DEF IsOpener
    <3>2. i - 1 \in 1..Len(line') /\ (i - 1) + 1 = i
      BY <1>l, <2>1, <3>1
    <3>3. line'[i - 1] = "open"
      BY <1>l, <3>1, <3>2
    <3> QED
      BY <1>u, <3>2, <3>3 DEF IsOpener
  <2> QED
    BY <1>u, <2>1 DEF NeverGivesUp
<1>5. StoppedForGood'
  BY <1>l, <1>u DEF StoppedForGood
<1>6. WireInv' /\ NewInv'
  BY <1>l, <1>u DEF WireInv, NewInv, wire
<1>7. PendingIsLive'
  BY <1>l, <1>u DEF PendingIsLive, rpc
<1>8. OpenWasAccepted'
  BY <1>l, <1>u DEF OpenWasAccepted, wire
<1> QED
  BY <1>1, <1>2, <1>3, <1>4, <1>5, <1>6, <1>7, <1>8

\* The socket becomes a retry, and no request is left in the table of a running peer.
LEMMA ClosedStep ==
  ASSUME IInv, Closed
  PROVE  IInv'
<1> USE DEF IInv, ConnInv
<1>q. toClient' = << >> /\ << >> \in Seq(Message)
  BY DEF Closed, Lost
<1> USE DEF Closed, NoSocket, PeerClosed, Lost, client, rpc, wire
<1>1. TypeOK'
  BY <1>q DEF TypeOK, Message
<1>2. LockInv'
  BY DEF LockInv, OwnerIs
<1>3. OneOpener'
  BY DEF OneOpener, IsOpener
<1>4. NeverGivesUp'
  BY DEF NeverGivesUp
<1>5. StoppedForGood'
  BY DEF StoppedForGood
<1>6. WireInv' /\ NewInv'
  BY DEF WireInv, NewInv
<1>7. PendingIsLive'
  BY DEF PendingIsLive
<1>8. OpenWasAccepted'
  BY DEF OpenWasAccepted
<1> QED
  BY <1>1, <1>2, <1>3, <1>4, <1>5, <1>6, <1>7, <1>8

\* The retry becomes a timer.
LEMMA RetryStep ==
  ASSUME IInv, Retry
  PROVE  IInv'
<1> USE DEF IInv, ConnInv
<1>1. TypeOK'
  <2>1. /\ timer' \in BOOLEAN /\ retry' \in BOOLEAN
        /\ opened' \in BOOLEAN /\ urlOk' \in BOOLEAN
    BY DEF TypeOK, Retry
  <2>2. UNCHANGED << phase, connectState, line, busy, socket, opened, handlers, rpc, wire,
                     conns, urlOk >>
    BY DEF Retry
  <2> QED
    BY <2>1, <2>2 DEF TypeOK, rpc, wire
<1> USE DEF Retry, client, rpc, wire
<1>2. LockInv'
  BY DEF LockInv, OwnerIs
<1>3. OneOpener'
  BY DEF OneOpener, IsOpener
<1>4. NeverGivesUp'
  BY DEF NeverGivesUp
<1>5. StoppedForGood'
  BY DEF StoppedForGood
<1>6. WireInv' /\ NewInv'
  BY DEF WireInv, NewInv
<1>7. PendingIsLive'
  BY DEF PendingIsLive
<1>8. OpenWasAccepted'
  BY DEF OpenWasAccepted
<1> QED
  BY <1>1, <1>2, <1>3, <1>4, <1>5, <1>6, <1>7, <1>8

\* The handlers do not matter to the connection.
LEMMA SubscribeStep ==
  ASSUME IInv, Subscribe
  PROVE  IInv'
<1> USE DEF IInv, ConnInv
<1> USE DEF Subscribe, client, rpc, wire
<1>1. TypeOK'
  BY DEF TypeOK
<1>2. LockInv'
  BY DEF LockInv, OwnerIs
<1>3. OneOpener'
  BY DEF OneOpener, IsOpener
<1>4. NeverGivesUp'
  BY DEF IsOpener, NeverGivesUp
<1>5. StoppedForGood'
  BY DEF StoppedForGood
<1>6. WireInv' /\ NewInv'
  BY DEF WireInv, NewInv
<1>7. PendingIsLive'
  BY DEF PendingIsLive
<1>8. OpenWasAccepted'
  BY DEF OpenWasAccepted
<1> QED
  BY <1>1, <1>2, <1>3, <1>4, <1>5, <1>6, <1>7, <1>8

\* stop() is the last in the line, so the line is empty after it.
LEMMA StopEndsStep ==
  ASSUME IInv, StopEnds
  PROVE  IInv'
<1> USE DEF IInv, ConnInv
<1>q. line' \in Seq({"open", "stop"})
  BY Dequeue DEF TypeOK, StopEnds, OwnerIs, Unlock
<1> USE DEF StopEnds, OwnerIs, EndSocket, Unlock, client, rpc, wire
<1>1. TypeOK'
  BY <1>q DEF TypeOK
<1>2. LockInv'
  BY DEF LockInv
<1>3. OneOpener'
  BY DEF LockInv, OneOpener
<1>4. NeverGivesUp'
  BY DEF NeverGivesUp
<1>5. StoppedForGood'
  BY DEF LockInv, OneOpener, StoppedForGood
<1>6. WireInv' /\ NewInv'
  BY DEF WireInv, NewInv
<1>7. PendingIsLive'
  BY DEF PendingIsLive
<1>8. OpenWasAccepted'
  BY DEF OpenWasAccepted
<1> QED
  BY <1>1, <1>2, <1>3, <1>4, <1>5, <1>6, <1>7, <1>8

\* Steps of the server and of the requests leave the lock alone.
LEMMA ClientUnchanged ==
  ASSUME LockInv, OneOpener, NeverGivesUp, StoppedForGood,
         UNCHANGED << client, urlOk >>
  PROVE  LockInv' /\ OneOpener' /\ NeverGivesUp' /\ StoppedForGood'
  BY DEF client, LockInv, OneOpener, NeverGivesUp, StoppedForGood, OwnerIs, IsOpener

\* A request is only kept when there is a socket, over which it was sent.
LEMMA CallStep ==
  ASSUME IInv, Call
  PROVE  IInv'
<1> USE DEF IInv, ConnInv
<1>q. /\ id' \in Calls /\ id' \in 0..MaxCalls
      /\ sentOn' \in [Calls -> Nat] /\ toServer' \in Seq(Message)
      /\ requests' \subseteq Calls /\ settled' \subseteq Calls /\ doomed' \subseteq Calls
  <2>1. id' \in Calls /\ id' \in 0..MaxCalls
    BY BoundsAssumption DEF TypeOK, Calls, Call
  <2>2. sentOn' \in [Calls -> Nat]
    BY <2>1 DEF TypeOK, Call
  <2>3. Append(toServer, id') \in Seq(Message)
    BY <2>1, Enqueue DEF TypeOK, Message
  <2>4. toServer' \in Seq(Message)
    BY <2>3 DEF Call
  <2>5. requests' \subseteq Calls /\ settled' \subseteq Calls /\ doomed' \subseteq Calls
    BY <2>1 DEF TypeOK, Call
  <2> QED
    BY <2>1, <2>2, <2>4, <2>5
<1> USE DEF Call, client, rpc, wire
<1>1. TypeOK'
  BY <1>q DEF TypeOK
<1>2. LockInv' /\ OneOpener' /\ NeverGivesUp' /\ StoppedForGood'
  BY ClientUnchanged
<1>3. WireInv' /\ NewInv'
  BY DEF WireInv, NewInv
<1>4. PendingIsLive'
  <2> SUFFICES ASSUME phase' = "up", NEW c \in requests' \ settled'
               PROVE  sentOn'[c] = conns' /\ socket' # "none"
    BY DEF PendingIsLive
  <2>1. CASE c = id'
    BY <1>q, <2>1
  <2>2. CASE c # id'
    BY <2>2 DEF PendingIsLive
  <2> QED
    BY <2>1, <2>2
<1>5. OpenWasAccepted'
  BY DEF OpenWasAccepted
<1> QED
  BY <1>1, <1>2, <1>3, <1>4, <1>5

\* An answer ends a request.
LEMMA ReceiveStep ==
  ASSUME IInv, Receive
  PROVE  IInv'
<1> USE DEF IInv, ConnInv
<1>q. Head(toClient) \in Message /\ toClient' \in Seq(Message)
  BY Dequeue DEF TypeOK, Message, Receive
<1> USE DEF Receive, client, rpc, wire
<1>1. TypeOK'
  BY <1>q DEF TypeOK
<1>2. LockInv' /\ OneOpener' /\ NeverGivesUp' /\ StoppedForGood'
  BY ClientUnchanged
<1>3. WireInv' /\ NewInv'
  BY DEF WireInv, NewInv
<1>4. PendingIsLive'
  BY DEF PendingIsLive
<1>5. OpenWasAccepted'
  BY DEF OpenWasAccepted
<1> QED
  BY <1>1, <1>2, <1>3, <1>4, <1>5

\* A rejection ends a request.
LEMMA RejectStep ==
  ASSUME NEW c \in Calls, IInv, Reject(c)
  PROVE  IInv'
<1> USE DEF IInv, ConnInv
<1> USE DEF Reject, client, rpc, wire
<1>1. TypeOK'
  BY DEF TypeOK
<1>2. LockInv' /\ OneOpener' /\ NeverGivesUp' /\ StoppedForGood'
  BY ClientUnchanged
<1>3. WireInv' /\ NewInv'
  BY DEF WireInv, NewInv
<1>4. PendingIsLive'
  BY DEF PendingIsLive
<1>5. OpenWasAccepted'
  BY DEF OpenWasAccepted
<1> QED
  BY <1>1, <1>2, <1>3, <1>4, <1>5

\* The server accepts a connection before it sends anything.
LEMMA HandshakeStep ==
  ASSUME IInv, Handshake
  PROVE  IInv'
<1> USE DEF IInv, ConnInv
<1>q. toServer' \in Seq(Message) /\ toClient' \in Seq(Message)
  <2>1. toServer \in Seq(Message) /\ toClient \in Seq(Message) /\ HELLO \in Message
    BY DEF TypeOK, Message
  <2>2. toServer' \in Seq(Message)
    BY <2>1, Dequeue DEF Handshake
  <2>3. Append(toClient, HELLO) \in Seq(Message)
    BY <2>1, Enqueue
  <2> QED
    BY <2>1, <2>2, <2>3 DEF Handshake, SendToClient
<1> USE DEF Handshake, SendToClient, client, rpc, wire
<1>1. TypeOK'
  BY <1>q DEF TypeOK, Message
<1>2. LockInv' /\ OneOpener' /\ NeverGivesUp' /\ StoppedForGood'
  BY ClientUnchanged
<1>3. WireInv' /\ NewInv'
  BY DEF WireInv, NewInv
<1>4. PendingIsLive'
  BY DEF PendingIsLive
<1>5. OpenWasAccepted'
  BY DEF OpenWasAccepted
<1> QED
  BY <1>1, <1>2, <1>3, <1>4, <1>5

\* A server that waits has sent nothing.
LEMMA HandshakeTimeoutStep ==
  ASSUME IInv, HandshakeTimeout
  PROVE  IInv'
<1> USE DEF IInv, ConnInv
<1> USE DEF HandshakeTimeout, client, rpc, wire
<1>1. TypeOK'
  BY DEF TypeOK
<1>2. LockInv' /\ OneOpener' /\ NeverGivesUp' /\ StoppedForGood'
  BY ClientUnchanged
<1>3. WireInv' /\ NewInv'
  BY DEF WireInv, NewInv
<1>4. PendingIsLive'
  BY DEF PendingIsLive
<1>5. OpenWasAccepted'
  BY DEF OpenWasAccepted
<1> QED
  BY <1>1, <1>2, <1>3, <1>4, <1>5

\* The close event of the server's end leaves what is on the way to the client.
LEMMA ServerClosedStep ==
  ASSUME IInv, ServerClosed
  PROVE  IInv'
<1> USE DEF IInv, ConnInv
<1>q. toServer' \in Seq(Message) /\ << >> \in Seq(Message)
  BY DEF ServerClosed
<1> USE DEF ServerClosed, client, rpc, wire
<1>1. TypeOK'
  BY <1>q DEF TypeOK, Message
<1>2. LockInv' /\ OneOpener' /\ NeverGivesUp' /\ StoppedForGood'
  BY ClientUnchanged
<1>3. WireInv' /\ NewInv'
  BY DEF WireInv, NewInv
<1>4. PendingIsLive'
  BY DEF PendingIsLive
<1>5. OpenWasAccepted'
  BY DEF OpenWasAccepted
<1> QED
  BY <1>1, <1>2, <1>3, <1>4, <1>5

\* A request waits for its answer at the server.
LEMMA RequestStep ==
  ASSUME IInv, Request
  PROVE  IInv'
<1> USE DEF IInv, ConnInv
<1>q. Head(toServer) \in Calls /\ toServer' \in Seq(Message)
  BY Dequeue DEF TypeOK, Message, Request
<1> USE DEF Request, client, rpc, wire
<1>1. TypeOK'
  BY <1>q DEF TypeOK
<1>2. LockInv' /\ OneOpener' /\ NeverGivesUp' /\ StoppedForGood'
  BY ClientUnchanged
<1>3. WireInv' /\ NewInv'
  BY DEF WireInv, NewInv
<1>4. PendingIsLive'
  BY DEF PendingIsLive
<1>5. OpenWasAccepted'
  BY DEF OpenWasAccepted
<1> QED
  BY <1>1, <1>2, <1>3, <1>4, <1>5

\* Only a server that has accepted the connection answers.
LEMMA AnswerStep ==
  ASSUME NEW c \in Calls, IInv, Answer(c)
  PROVE  IInv'
<1> USE DEF IInv, ConnInv
<1>q. toClient' \in Seq(Message)
  BY Enqueue DEF TypeOK, Message, Answer, SendToClient
<1> USE DEF Answer, SendToClient, client, rpc, wire
<1>1. TypeOK'
  BY <1>q DEF TypeOK
<1>2. LockInv' /\ OneOpener' /\ NeverGivesUp' /\ StoppedForGood'
  BY ClientUnchanged
<1>3. WireInv' /\ NewInv'
  BY DEF WireInv, NewInv
<1>4. PendingIsLive'
  BY DEF PendingIsLive
<1>5. OpenWasAccepted'
  BY DEF OpenWasAccepted
<1> QED
  BY <1>1, <1>2, <1>3, <1>4, <1>5

\* stop() arrives while the client runs: every task before it is an open().
LEMMA StopStep ==
  ASSUME IInv, Stop
  PROVE  IInv'
<1> USE DEF IInv, ConnInv
<1>u. /\ phase = "up" /\ phase' = "stopping" /\ timer' = FALSE
      /\ IF busy = "handshake"
           THEN busy' = "idle" /\ socket' = IF socket = "up" THEN "ended" ELSE socket
           ELSE UNCHANGED << busy, socket >>
      /\ UNCHANGED << connectState, retry, opened, handlers, rpc, wire, conns, urlOk >>
  BY DEF Stop, EndSocket
<1>l. /\ line \in Seq({"open", "stop"}) /\ Len(line) \in Nat
      /\ \A i \in 1..Len(line) : line[i] = "open"
  BY <1>u DEF TypeOK, LockInv
<1>q. /\ line' \in Seq({"open", "stop"}) /\ Len(line') \in Nat /\ Len(line') >= 1
      /\ line'[Len(line')] = "stop"
      /\ \A i \in 1..(Len(line') - 1) : line'[i] = "open"
      /\ Len(line') = IF busy = "handshake" THEN Len(line) ELSE Len(line) + 1
  <2>1. ASSUME NEW q \in Seq({"open", "stop"}), \A i \in 1..Len(q) : q[i] = "open",
               line' = Append(q, "stop")
        PROVE  /\ line' \in Seq({"open", "stop"}) /\ Len(line') = Len(q) + 1 /\ Len(q) \in Nat
               /\ line'[Len(line')] = "stop"
               /\ \A i \in 1..(Len(line') - 1) : line'[i] = "open"
    BY <2>1
  <2>2. CASE busy = "handshake"
    <3>1. line # << >>
      BY <2>2 DEF LockInv, OwnerIs
    <3>2. /\ Tail(line) \in Seq({"open", "stop"}) /\ Len(Tail(line)) = Len(line) - 1
          /\ \A i \in 1..Len(Tail(line)) : Tail(line)[i] = line[i + 1]
      BY <1>l, <3>1, Dequeue
    <3>3. \A i \in 1..Len(Tail(line)) : Tail(line)[i] = "open"
      BY <1>l, <3>2
    <3>4. line' = Append(Tail(line), "stop")
      BY <2>2 DEF Stop
    <3>5. /\ line' \in Seq({"open", "stop"}) /\ Len(line') = Len(Tail(line)) + 1
          /\ line'[Len(line')] = "stop"
          /\ \A i \in 1..(Len(line') - 1) : line'[i] = "open"
      BY <2>1, <3>2, <3>3, <3>4
    <3>6. Len(line) >= 1
      BY <1>l, <3>1
    <3> QED
      BY <1>l, <2>2, <3>2, <3>5, <3>6
  <2>3. CASE busy # "handshake"
    <3>1. line' = Append(line, "stop")
      BY <2>3 DEF Stop
    <3> QED
      BY <1>l, <2>1, <2>3, <3>1
  <2> QED
    BY <2>2, <2>3
<1>o. busy' # "idle" => line' # << >> /\ Head(line') = "open"
  <2> SUFFICES ASSUME busy' # "idle"
               PROVE  line' # << >> /\ Head(line') = "open"
    OBVIOUS
  <2>1. busy # "handshake" /\ line # << >>
    BY <1>u DEF LockInv, OwnerIs
  <2>2. Len(line) >= 1
    BY <1>l, <2>1
  <2> QED
    BY <1>q, <1>l, <2>1, <2>2
<1>1. TypeOK'
  BY <1>u, <1>q, ZenonT(60) DEF TypeOK, rpc, wire
<1>2. LockInv'
  <2>1. \A i \in 1..Len(line') : line'[i] = "stop" => i = Len(line')
    BY <1>q
  <2>2. line' # << >>
    BY <1>q
  <2>3. /\ connectState' = "CONNECTING" <=> busy' \in {"connect", "thrown"}
        /\ busy' = "thrown" => ~urlOk'
        /\ connectState' = "OPEN" <=> socket' # "none"
    BY <1>u DEF LockInv
  <2> QED
    BY <1>u, <1>q, <1>o, <2>1, <2>2, <2>3 DEF LockInv, OwnerIs
<1>3. OneOpener'
  <2>1. ASSUME NEW i \in 1..Len(line'), IsOpener(i)'
        PROVE  \E j \in 1..Len(line) :
                 IsOpener(j) /\ j = IF busy = "handshake" THEN i + 1 ELSE i
    <3>1. i < Len(line')
      BY <1>q, <2>1 DEF IsOpener
    <3>2. CASE busy = "handshake"
      BY <1>l, <1>q, <3>1, <3>2 DEF IsOpener
    <3>3. CASE busy # "handshake"
      <4>1. i \in 1..Len(line) /\ line[i] = "open" /\ busy' = busy
        BY <1>l, <1>q, <1>u, <3>1, <3>3
      <4> QED
        BY <2>1, <3>3, <4>1 DEF IsOpener
    <3> QED
      BY <3>2, <3>3
  <2>2. ASSUME NEW i \in 1..Len(line'), NEW j \in 1..Len(line'),
               IsOpener(i)', IsOpener(j)'
        PROVE  i = j
    <3>1. i \in Int /\ j \in Int
      OBVIOUS
    <3> QED
      BY <2>1, <2>2, <3>1 DEF OneOpener
  <2>3. retry => socket = "none" /\ \A i \in 1..Len(line) : ~IsOpener(i)
    BY DEF OneOpener
  <2>4. socket # "none" => \A i \in 1..Len(line) : ~IsOpener(i)
    BY DEF OneOpener
  <2> QED
    BY <1>u, <2>1, <2>2, <2>3, <2>4 DEF OneOpener
<1>4. NeverGivesUp' /\ StoppedForGood'
  BY <1>u DEF NeverGivesUp, StoppedForGood
<1>5. WireInv' /\ NewInv'
  BY <1>u DEF WireInv, NewInv, wire
<1>6. PendingIsLive' /\ OpenWasAccepted'
  BY <1>u DEF PendingIsLive, OpenWasAccepted, wire
<1> QED
  BY <1>1, <1>2, <1>3, <1>4, <1>5, <1>6

-----------------------------------------------------------------------------
(* The invariant                                                           *)

\* Nothing is open or waits at the beginning.
LEMMA InitIInv == Init => IInv
<1> SUFFICES ASSUME Init
             PROVE  IInv
  OBVIOUS
<1>1. TypeOK
  <2>1. /\ << >> \in Seq({"open", "stop"}) /\ << >> \in Seq({HELLO} \union Calls)
        /\ [c \in Calls |-> 0] \in [Calls -> Nat]
    OBVIOUS
  <2>2. 0 \in 0..MaxCalls
    BY BoundsAssumption
  <2> QED
    BY <2>1, <2>2 DEF Init, TypeOK
<1> QED
  BY <1>1
  DEF Init, IInv, ConnInv, LockInv, OneOpener, NeverGivesUp, StoppedForGood, WireInv,
      NewInv, PendingIsLive, OpenWasAccepted, OwnerIs, IsOpener

\* Every step keeps the invariant.
LEMMA NextIInv == IInv /\ [Next]_vars => IInv'
<1> SUFFICES ASSUME IInv, [Next]_vars
             PROVE  IInv'
  OBVIOUS
<1>1. CASE UNCHANGED vars
  BY <1>1
  DEF vars, client, rpc, wire, IInv, ConnInv, TypeOK, LockInv, OneOpener, NeverGivesUp,
      StoppedForGood, WireInv, NewInv, PendingIsLive, OpenWasAccepted, OwnerIs, IsOpener
<1>2. ASSUME NEW c \in Calls, Reject(c) \/ Answer(c)
      PROVE  IInv'
  BY <1>2, RejectStep, AnswerStep
<1>3. CASE ClientStep
  BY <1>3, OpenTimerStep, OpenStep, HandshakeFailsStep, HandshakeDoneStep, RetryStep,
     SubscribeStep, StopEndsStep
  DEF ClientStep
<1>4. CASE ConnectEnds \/ ServerStep \/ HandshakeTimeout \/ ServerClosed
  BY <1>4, ConnectedStep, ConnectFailsStep, HandshakeStep, RequestStep, HandshakeTimeoutStep,
     ServerClosedStep
  DEF ConnectEnds, ServerStep
<1>5. CASE Start \/ Stop \/ Closed \/ Call \/ Receive
  BY <1>5, StartStep, StopStep, ClosedStep, CallStep, ReceiveStep
<1> QED
  BY <1>1, <1>2, <1>3, <1>4, <1>5 DEF Next

\* They hold in every behaviour.
LEMMA SpecIInv == Spec => []IInv
<1> QED
  BY InitIInv, NextIInv, PTL DEF Spec

\* One task at a time opens the connection.  A client that runs has a socket or an
\* opener and never two; one that was stopped has none and connects no more.
THEOREM ConnCorrect == Spec => []ConnInv
<1>1. IInv => ConnInv
  BY DEF IInv
<1> QED
  BY <1>1, SpecIInv, PTL

\* connectHandler never replaces a socket that is still there.
THEOREM NoSocketIsLost == Spec => []NoSocketLost
<1>1. IInv => NoSocketLost
  BY DEF IInv, ConnInv, LockInv, NoSocketLost
<1> QED
  BY <1>1, SpecIInv, PTL

\* A request of invokeRpc never waits for a connection that is gone.
THEOREM RequestsAreLive == Spec => []PendingIsLive
<1>1. IInv => PendingIsLive
  BY DEF IInv
<1> QED
  BY <1>1, SpecIInv, PTL

\* `open' of ClientNet is only emitted when the ServerNet of this connection has taken
\* the handshake, whatever time-out or close event either end has had in between.
THEOREM OpenIsAccepted == Spec => []OpenWasAccepted
<1>1. IInv => OpenWasAccepted
  BY DEF IInv
<1> QED
  BY <1>1, SpecIInv, PTL
=============================================================================
