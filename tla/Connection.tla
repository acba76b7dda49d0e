----------------------------- MODULE Connection -----------------------------
(***************************************************************************)
(* ClientNet and the ClientPeer on top of it, with the ServerNet at the    *)
(* other end of its connection: opening, handshake, retries, stop() and    *)
(* the requests of invokeRpc.                                              *)
(*                                                                         *)
(* openLock is the line of its tasks, the owner first (Lock is modelled in *)
(* AsyncLock).  An open() owns it until its handshake is over, so what the *)
(* owner waits for is in `busy'.  After stop() the listeners are gone:     *)
(* close events no longer reach Peer.  Time-outs may come at any moment.   *)
(* The connection is first in, first out.  Its two ends are closed apart:  *)
(* each has its own close event, and either may be the first to have it.   *)
(* The server's end is that of the last connection; what an older one      *)
(* still does reaches nobody.                                              *)
(***************************************************************************)
EXTENDS Integers, Sequences, FiniteSets

CONSTANTS
  MaxConns,         \* bound: connections
  MaxCalls          \* bound: requests

ASSUME BoundsAssumption == MaxConns \in Nat /\ MaxCalls \in Nat

Calls == 1..MaxCalls
HELLO == 0          \* the id of the handshake and of its answer

VARIABLES
  phase,            \* "new", "up" (running), "stopping" or "stopped"
  connectState,     \* ClientNet.connectState
  timer,            \* openTimer is armed
  retry,            \* the setImmediate of onClose is pending
  line,             \* the tasks at openLock, the owner first
  busy,             \* what the owner waits for: "connect", "handshake", "idle", or
                    \* "thrown" when open() has thrown with the lock
  socket,           \* Net.socket: "none", "up", or "ended" after end()
  opened,           \* the handshake of this socket has succeeded
  handlers,         \* Peer.txHandler and blockHandler: "off", "set" or "on"
  id,               \* Peer.id
  requests,         \* Peer.requests
  doomed,           \* requests whose rejection is scheduled
  settled,          \* calls that have ended
  urlOk,            \* nodeUrl has a host and a port that net.connect takes
  conns,            \* history: connections so far
  sentOn,           \* history: the connection of each call
  server,           \* ServerNet: "none", "waiting" for HELLO, "open", "failed" before
                    \* it was open, or "closed" after
  asked,            \* requests that the server works on
  toServer, toClient

client == << phase, connectState, timer, retry, line, busy, socket, opened, handlers >>
rpc == << id, requests, doomed, settled, sentOn >>
wire == << server, asked, toServer, toClient >>
vars == << client, rpc, wire, conns, urlOk >>

Init ==
  /\ phase = "new" /\ connectState = "CLOSED"
  /\ timer = FALSE /\ retry = FALSE
  /\ line = << >> /\ busy = "idle"
  /\ socket = "none" /\ opened = FALSE /\ handlers = "off"
  /\ id = 0 /\ requests = {} /\ doomed = {} /\ settled = {}
  /\ sentOn = [c \in Calls |-> 0]
  /\ conns = 0 /\ urlOk \in BOOLEAN
  /\ server = "none" /\ asked = {} /\ toServer = << >> /\ toClient = << >>

OwnerIs(task) == line # << >> /\ Head(line) = task
Unlock == line' = Tail(line)

\* end(), and the socket setter of Net.
EndSocket == socket' = IF socket = "up" THEN "ended" ELSE socket
NoSocket == socket' = "none"

\* Peer.onOpen and Peer.onClose, as long as they listen.
PeerOpened == handlers' = IF phase = "up" THEN "set" ELSE handlers
PeerClosed ==
  IF phase = "up"
    THEN handlers' = "off" /\ requests' = {} /\ doomed' = doomed \union requests
    ELSE UNCHANGED << handlers, requests, doomed >>

\* The server takes a connection; what has not reached the client is lost with it.
Accepted == server' = "waiting" /\ asked' = {}
Lost == toClient' = << >> /\ UNCHANGED << server, asked, toServer >>

\* What is sent to a client that is gone is lost.
SendToClient(m) == toClient' = IF socket = "none" THEN toClient ELSE Append(toClient, m)

-----------------------------------------------------------------------------
(* ClientNet                                                               *)

Start ==
  /\ phase = "new"
  /\ phase' = "up"
  /\ timer' = TRUE
  /\ UNCHANGED << connectState, retry, line, busy, socket, opened, handlers, rpc, wire, conns, urlOk >>

\* The callback of startOpenTimer calls open(), which waits for the lock.
OpenTimer ==
  /\ timer
  /\ timer' = FALSE
  /\ line' = IF phase = "up" THEN Append(line, "open") ELSE line
  /\ UNCHANGED << phase, connectState, retry, busy, socket, opened, handlers, rpc, wire, conns, urlOk >>

\* On a nodeUrl that it cannot take, the assertion or net.connect throws in the
\* executor of open()'s promise: the lock is kept and the promise never settled.
Open ==
  /\ OwnerIs("open") /\ busy = "idle"
  /\ IF connectState = "CLOSED"
       THEN /\ connectState' = "CONNECTING"
            /\ busy' = IF urlOk THEN "connect" ELSE "thrown"
            /\ UNCHANGED line
       ELSE Unlock /\ UNCHANGED << connectState, busy >>
  /\ UNCHANGED << phase, timer, retry, socket, opened, handlers, rpc, wire, conns, urlOk >>

\* connectHandler, and onOpen up to the handshake it sends.
Connected ==
  /\ busy = "connect" /\ conns < MaxConns
  /\ connectState' = "OPEN"
  /\ socket' = "up"
  /\ busy' = "handshake"
  /\ conns' = conns + 1
  /\ Accepted
  /\ toServer' = << HELLO >> /\ toClient' = << >>
  /\ UNCHANGED << phase, timer, retry, line, opened, handlers, rpc, urlOk >>

\* Mutant: errHandler does not release the lock.
ConnectFailsLocked ==
  /\ busy = "connect"
  /\ connectState' = "CLOSED" /\ NoSocket
  /\ busy' = "idle"
  /\ timer' = (phase = "up")
  /\ UNCHANGED << phase, retry, line, opened, handlers, rpc, wire, conns, urlOk >>

\* errHandler, and the timer for the next try.
ConnectFails ==
  /\ busy = "connect"
  /\ connectState' = "CLOSED" /\ NoSocket
  /\ busy' = "idle" /\ Unlock
  /\ timer' = (phase = "up")
  /\ UNCHANGED << phase, retry, opened, handlers, rpc, wire, conns, urlOk >>

\* The first message of a connection ends the handshake.  Net.onOpen emits
\* `open' to Peer.onOpen, which subscribes.
HandshakeDone ==
  /\ busy = "handshake" /\ toClient # << >> /\ Head(toClient) = HELLO
  /\ toClient' = Tail(toClient)
  /\ busy' = "idle" /\ Unlock
  /\ opened' = TRUE
  /\ PeerOpened
  /\ UNCHANGED << phase, connectState, timer, retry, socket, rpc, server, asked, toServer, conns, urlOk >>

\* Mutant: a handshake that fails is tried again without waiting for the close.
HandshakeFailsRetries ==
  /\ busy = "handshake"
  /\ EndSocket
  /\ busy' = "idle" /\ Unlock
  /\ connectState' = "CLOSED" /\ timer' = TRUE
  /\ UNCHANGED << phase, retry, opened, handlers, rpc, wire, conns, urlOk >>

\* The time-out of three seconds, or the handshake cannot be sent.
HandshakeFails ==
  /\ busy = "handshake"
  /\ EndSocket
  /\ busy' = "idle" /\ Unlock
  /\ UNCHANGED << phase, connectState, timer, retry, opened, handlers, rpc, wire, conns, urlOk >>

\* Mutant: Peer.onClose does not reject the requests.
ClosedDropsRequests ==
  /\ socket # "none" /\ handlers # "set"
  /\ retry' = TRUE
  /\ connectState' = "CLOSED"
  /\ NoSocket /\ opened' = FALSE
  /\ IF phase = "up" THEN handlers' = "off" /\ requests' = {}
                     ELSE UNCHANGED << handlers, requests >>
  /\ Lost
  /\ UNCHANGED << phase, timer, line, busy, id, doomed, settled, sentOn, conns, urlOk >>

\* Mutant: Peer.onClose rejects the requests but leaves them in the table.
ClosedKeepsRequests ==
  /\ socket # "none" /\ handlers # "set"
  /\ retry' = TRUE
  /\ connectState' = "CLOSED"
  /\ NoSocket /\ opened' = FALSE
  /\ IF phase = "up" THEN handlers' = "off" /\ doomed' = doomed \union requests
                     ELSE UNCHANGED << handlers, doomed >>
  /\ Lost
  /\ UNCHANGED << phase, timer, line, busy, id, requests, settled, sentOn, conns, urlOk >>

\* Mutant: onClose does not try again.
ClosedForGood ==
  /\ socket # "none" /\ handlers # "set"
  /\ connectState' = "CLOSED"
  /\ NoSocket /\ opened' = FALSE
  /\ PeerClosed
  /\ Lost
  /\ UNCHANGED << phase, timer, retry, line, busy, id, settled, sentOn, conns, urlOk >>

\* ClientNet.onClose, Net.onClose and Peer.onClose of the client.  The event loop
\* runs close events after the setImmediate of an open event before them.
Closed ==
  /\ socket # "none" /\ handlers # "set"
  /\ retry' = TRUE
  /\ connectState' = "CLOSED"
  /\ NoSocket /\ opened' = FALSE
  /\ PeerClosed
  /\ Lost
  /\ UNCHANGED << phase, timer, line, busy, id, settled, sentOn, conns, urlOk >>

\* startOpenTimer in the setImmediate of onClose.
Retry ==
  /\ retry
  /\ retry' = FALSE
  /\ timer' = (timer \/ phase = "up")
  /\ UNCHANGED << phase, connectState, line, busy, socket, opened, handlers, rpc, wire, conns, urlOk >>

\* addSubscriptions attaches its handlers in a setImmediate.
Subscribe ==
  /\ handlers = "set"
  /\ handlers' = "on"
  /\ UNCHANGED << phase, connectState, timer, retry, line, busy, socket, opened, rpc, wire, conns, urlOk >>

\* Mutant: stop() does not wait for the lock.
StopAtOnce ==
  /\ phase = "up"
  /\ phase' = "stopped"
  /\ timer' = FALSE
  /\ EndSocket
  /\ handlers' = "off"
  /\ UNCHANGED << connectState, retry, line, busy, opened, rpc, wire, conns, urlOk >>

\* stop() rejects a handshake, whose catch branch ends the socket and releases
\* the lock, and waits for the lock.
Stop ==
  /\ phase = "up"
  /\ phase' = "stopping"
  /\ timer' = FALSE
  /\ IF busy = "handshake"
       THEN EndSocket /\ busy' = "idle" /\ line' = Append(Tail(line), "stop")
       ELSE line' = Append(line, "stop") /\ UNCHANGED << socket, busy >>
  /\ UNCHANGED << connectState, retry, opened, handlers, rpc, wire, conns, urlOk >>

\* The rest of stop(), and removeSubscriptions in ClientPeer.stop.
StopEnds ==
  /\ OwnerIs("stop")
  /\ phase' = "stopped"
  /\ EndSocket
  /\ Unlock
  /\ handlers' = "off"
  /\ UNCHANGED << connectState, timer, retry, busy, opened, rpc, wire, conns, urlOk >>

-----------------------------------------------------------------------------
(* Requests                                                                *)

\* invokeRpc.  A socket counts as open during the handshake; on one that was
\* ended the write fails later.
Call ==
  /\ phase # "new" /\ id < MaxCalls
  /\ id' = id + 1
  /\ sentOn' = [sentOn EXCEPT ![id'] = conns]
  /\ IF socket = "none" THEN settled' = settled \union {id'} /\ UNCHANGED requests
                        ELSE requests' = requests \union {id'} /\ UNCHANGED settled
  /\ doomed' = IF socket = "ended" THEN doomed \union {id'} ELSE doomed
  /\ toServer' = IF socket = "up" /\ server # "closed" THEN Append(toServer, id')
                                                      ELSE toServer
  /\ UNCHANGED << client, server, asked, toClient, conns, urlOk >>

\* onMessage in Peer, while its listener is there.  A late answer to the
\* handshake finds no request.
Receive ==
  /\ toClient # << >> /\ busy # "handshake"
  /\ toClient' = Tail(toClient)
  /\ IF phase = "up" /\ Head(toClient) \in requests
       THEN /\ requests' = requests \ {Head(toClient)}
            /\ settled' = settled \union {Head(toClient)}
       ELSE UNCHANGED << requests, settled >>
  /\ UNCHANGED << client, id, doomed, sentOn, server, asked, toServer, conns, urlOk >>

Reject(c) ==
  /\ c \in doomed
  /\ doomed' = doomed \ {c}
  /\ requests' = requests \ {c}
  /\ settled' = settled \union {c}
  /\ UNCHANGED << client, id, sentOn, wire, conns, urlOk >>

-----------------------------------------------------------------------------
(* ServerNet and the Peer of the server                                    *)

\* Mutant: the handshake is also answered after it has timed out.
HandshakeLate ==
  /\ toServer # << >> /\ Head(toServer) = HELLO
  /\ toServer' = Tail(toServer)
  /\ server' = IF server = "waiting" THEN "open" ELSE server
  /\ SendToClient(HELLO)
  /\ UNCHANGED << client, rpc, asked, conns, urlOk >>

\* The listener stays after a time-out, but then its answer cannot be sent.
Handshake ==
  /\ toServer # << >> /\ Head(toServer) = HELLO
  /\ toServer' = Tail(toServer)
  /\ IF server = "waiting" THEN server' = "open" /\ SendToClient(HELLO)
                           ELSE UNCHANGED << server, toClient >>
  /\ UNCHANGED << client, rpc, asked, conns, urlOk >>

\* The time-out of the server, which ends the socket.
HandshakeTimeout ==
  /\ server = "waiting"
  /\ server' = "failed"
  /\ UNCHANGED << client, rpc, asked, toServer, toClient, conns, urlOk >>

\* ServerNet.onClose: it rejects a handshake that is not over, its listeners go, and
\* an answer that is still worked on cannot be sent.
ServerClosed ==
  /\ server \in {"waiting", "open", "failed"}
  /\ server' = IF server = "open" THEN "closed" ELSE "failed"
  /\ asked' = {} /\ toServer' = << >>
  /\ UNCHANGED << client, rpc, toClient, conns, urlOk >>

Request ==
  /\ toServer # << >> /\ Head(toServer) # HELLO
  /\ toServer' = Tail(toServer)
  /\ asked' = asked \union {Head(toServer)}
  /\ UNCHANGED << client, rpc, server, toClient, conns, urlOk >>

\* processMessage ends with an answer or an error, in any order.
Answer(c) ==
  /\ c \in asked /\ server = "open"
  /\ asked' = asked \ {c}
  /\ SendToClient(c)
  /\ UNCHANGED << client, rpc, server, toServer, conns, urlOk >>

ClientStep ==
  \/ OpenTimer \/ Open \/ HandshakeFails \/ HandshakeDone
  \/ Retry \/ Subscribe \/ StopEnds
ConnectEnds == Connected \/ ConnectFails
ServerStep == Handshake \/ Request

Next ==
  \/ Start \/ Stop \/ ClientStep \/ ConnectEnds \/ Closed
  \/ Call \/ Receive \/ ServerStep \/ HandshakeTimeout \/ ServerClosed
  \/ \E c \in Calls : Reject(c) \/ Answer(c)

Spec == Init /\ [][Next]_vars

\* Timers and callbacks run, a connection attempt succeeds or fails, a peer takes
\* and answers what it gets, and a client whose connection was ended, by itself or by
\* its server, is told of the close.
FairSpec ==
  /\ Spec
  /\ WF_vars(OpenTimer) /\ WF_vars(Open) /\ WF_vars(HandshakeFails \/ HandshakeDone)
  /\ WF_vars(Retry) /\ WF_vars(Subscribe) /\ WF_vars(StopEnds) /\ WF_vars(ConnectEnds)
  /\ WF_vars(Receive) /\ WF_vars(ServerStep)
  /\ \A c \in Calls : WF_vars(Reject(c)) /\ WF_vars(Answer(c))
  /\ WF_vars(Closed /\ (socket = "ended" \/ server \in {"failed", "closed"}))

-----------------------------------------------------------------------------
TypeOK ==
  /\ phase \in {"new", "up", "stopping", "stopped"}
  /\ connectState \in {"OPEN", "CLOSED", "CONNECTING"}
  /\ timer \in BOOLEAN /\ retry \in BOOLEAN /\ opened \in BOOLEAN
  /\ line \in Seq({"open", "stop"})
  /\ busy \in {"idle", "connect", "handshake", "thrown"} /\ urlOk \in BOOLEAN
  /\ socket \in {"none", "up", "ended"}
  /\ handlers \in {"off", "set", "on"}
  /\ id \in 0..MaxCalls /\ conns \in Nat
  /\ requests \subseteq Calls /\ doomed \subseteq Calls /\ settled \subseteq Calls
  /\ sentOn \in [Calls -> Nat]
  /\ server \in {"none", "waiting", "open", "failed", "closed"}
  /\ asked \subseteq Calls
  /\ toServer \in Seq({HELLO} \union Calls) /\ toClient \in Seq({HELLO} \union Calls)

\* An opener is a timer, a retry or a task in the line that has yet to connect.
IsOpener(i) == line[i] = "open" /\ ~(i = 1 /\ busy \in {"handshake", "thrown"})

\* openLock: its owner alone connects and shakes hands, and stop() is the last
\* task in the line.
LockInv ==
  /\ busy # "idle" => OwnerIs("open")
  /\ connectState = "CONNECTING" <=> busy \in {"connect", "thrown"}
  /\ busy = "thrown" => ~urlOk
  /\ connectState = "OPEN" <=> socket # "none"
  /\ \A i \in 1..Len(line) : line[i] = "stop" => i = Len(line) /\ phase = "stopping"
  /\ phase = "stopping" => line # << >> /\ line[Len(line)] = "stop"
  /\ phase \in {"new", "stopped"} => line = << >>

\* There is one opener or one socket, never two.
OneOpener ==
  /\ \A i, j \in 1..Len(line) : IsOpener(i) /\ IsOpener(j) => i = j
  /\ timer => ~retry /\ socket = "none" /\ \A i \in 1..Len(line) : ~IsOpener(i)
  /\ retry => socket = "none" /\ \A i \in 1..Len(line) : ~IsOpener(i)
  /\ socket # "none" => \A i \in 1..Len(line) : ~IsOpener(i)
  /\ timer => phase = "up"

\* A client that runs, with a nodeUrl it can take, has a socket or an opener: it never
\* gives up.
NeverGivesUp ==
  phase = "up" /\ urlOk =>
    socket # "none" \/ timer \/ retry \/ \E i \in 1..Len(line) : IsOpener(i)

\* After stop() nothing connects again: at most a socket that was ended is left.
StoppedForGood ==
  phase = "stopped" =>
    ~timer /\ line = << >> /\ busy = "idle" /\ socket # "up"

\* The server sends nothing, and works on nothing, before it has answered the
\* handshake, which is the first thing it gets.
WireInv ==
  /\ toClient # << >> => socket # "none" /\ server \in {"open", "closed"}
  /\ server = "waiting" => asked = {} /\ toServer # << >> /\ toServer[1] = HELLO
  /\ opened => socket # "none"

\* Nothing happens before start().
NewInv == phase = "new" => socket = "none" /\ ~retry /\ requests = {}

\* One task at a time opens the connection; as long as the client runs there is one
\* or a socket, and after stop() there is none.
ConnInv ==
  /\ TypeOK
  /\ LockInv /\ OneOpener
  /\ NeverGivesUp /\ StoppedForGood
  /\ WireInv /\ NewInv

\* A connection is only opened when the one before is closed, so no socket is
\* left behind without an owner.
NoSocketLost == busy = "connect" => socket = "none"

\* Every request in the table was sent over the present connection, so that only
\* its answer, its write error or its close event can end it.
PendingIsLive ==
  phase = "up" => \A c \in requests \ settled : sentOn[c] = conns /\ socket # "none"

\* A client that reports an open connection was accepted by the server of this very
\* connection: the server too took it for open, and may only have lost it since.
OpenWasAccepted == opened => server \in {"open", "closed"}

\* stop() comes to its end whatever open() is waiting for, unless open() has thrown.
StopIsDone == phase = "stopping" /\ urlOk ~> phase = "stopped"

\* A client that lost its connection tries again, on a nodeUrl it can take.
Reconnects == phase = "up" /\ socket = "none" /\ urlOk ~> busy = "connect" \/ phase # "up"

\* Every call ends, with its answer or an error, unless the client is stopped.
EveryCallEnds ==
  \A c \in Calls : c \in requests ~> c \in settled \/ phase # "up"
=============================================================================
