------------------------------ MODULE NodeSync ------------------------------
(***************************************************************************)
(* Node, ClientPeerPool and Synchronizer: how a node starts, asks its      *)
(* peers for blocks, pauses when the last peer is gone, resumes when one   *)
(* comes back, and stops.                                                  *)
(*                                                                         *)
(* The peers follow one chain of height `tip' and announce its blocks.     *)
(* Chain heights stand for blocks; -1 is a chain without a block.  The     *)
(* tasks at Synchronizer.lock are a line, the owner first.  Of Producer    *)
(* only the last start() or stop() counts, and whether a block is the next *)
(* one; it may refuse that one too, for its minter, its time or its        *)
(* content (Producer has the first two).                                   *)
(*                                                                         *)
(* Two history variables say what a property leaves out.  `refused': a     *)
(* next block was refused since the last synchronization began.  `calm'    *)
(* becomes FALSE when a connection closes whose handshake failed, when the *)
(* last one closes while the lock is held or the node starts, when one     *)
(* opens while the node stops, when a synchronization that was resumed     *)
(* fails, and when stop() is called before start() has ended.              *)
(***************************************************************************)
EXTENDS Integers, Sequences, FiniteSets

CONSTANTS
  NumClients,       \* the length of ClientPeerPool.clients
  RangeLen,         \* the 100 blocks of a range
  MaxTip,           \* bound: the height of the peers' chain
  MaxMisses,        \* bound: failed handshakes
  MaxLine           \* bound: tasks in the line when another joins it

ASSUME PoolAssumption == NumClients \in Nat \ {0} /\ RangeLen \in Nat \ {0}
ASSUME BoundsAssumption == MaxTip \in Nat /\ MaxMisses \in Nat /\ MaxLine \in Nat

Clients == 0..(NumClients - 1)

VARIABLES
  phase,            \* "off", "connecting", "starting", "up", "stopping", "stopped"
  boot,             \* what Node.start waits for: "none", "connecting" or "starting"
  open,             \* the clients whose connection is open
  connectedCount,   \* ClientPeerPool.connectedCount
  index,            \* ClientPeerPool.index
  running,          \* Synchronizer.running
  isComplete,       \* Synchronizer._isComplete
  line,             \* the tasks at Synchronizer.lock, the owner first
  job,              \* the synchronization at work, or Idle
  producing,        \* Producer has been started
  head,             \* the height of the chain
  tip,              \* the height of the peers' chain
  refused,          \* history: see above
  found,            \* history: clients found disconnected in this invoke()
  misses,           \* history: closed connections that were never open
  calm              \* history: see above

pool == << open, connectedCount, misses >>
vars == << phase, boot, pool, index, running, isComplete, line, job, producing,
           head, tip, refused, found, calm >>

Idle == [state |-> "idle"]
Job(state, height) == [state |-> state, height |-> height, from |-> 0, tries |-> 0, client |-> 0,
                       next |-> 0, last |-> 0, outside |-> FALSE]

Sync == [op |-> "sync"]
Pause == [op |-> "pause"]
OwnerIs(op) == line # << >> /\ Head(line).op = op

Init ==
  /\ phase = "off" /\ boot = "none"
  /\ open = {} /\ connectedCount = 0 /\ misses = 0 /\ index = 0
  /\ running = FALSE /\ isComplete = FALSE /\ producing = FALSE
  /\ line = << >> /\ job = Idle
  /\ tip \in 0..MaxTip /\ head \in -1..tip
  /\ found = {} /\ calm = TRUE /\ refused = FALSE

-----------------------------------------------------------------------------
(* Node.start and Node.stop                                                *)

\* initPeerPool, until the first attempt of every client has ended.  Nobody
\* listens to the pool yet.
Start ==
  /\ phase = "off"
  /\ phase' = "connecting" /\ boot' = "connecting"
  /\ UNCHANGED << pool, index, running, isComplete, line, job, producing, head, tip,
                  refused, found, calm >>

\* Start goes on, also when stop() was called meanwhile.
StartSync ==
  /\ boot = "connecting"
  /\ boot' = "starting"
  /\ phase' = IF phase = "connecting" THEN "starting" ELSE phase
  /\ running' = TRUE
  /\ line' = Append(line, Sync)
  /\ UNCHANGED << pool, index, isComplete, job, producing, head, tip, refused, found, calm >>

\* producer.stop().  Its wait for the producer's lock is up to StopRest.
Stop ==
  /\ phase \in {"connecting", "starting", "up"}
  /\ phase' = "stopping"
  /\ producing' = FALSE
  /\ calm' = (calm /\ phase = "up")
  /\ UNCHANGED << pool, index, running, isComplete, boot, line, job, head, tip, refused,
                  found >>

\* Mutant: stop() leaves the synchronizer running.
StopRestKeepsSync ==
  /\ phase = "stopping"
  /\ phase' = "stopped"
  /\ index' = 0
  /\ UNCHANGED << pool, running, isComplete, boot, line, job, producing, head, tip,
                  refused, found, calm >>

\* sync.stop() and peerPool.stop(), which removes the listeners.
StopRest ==
  /\ phase = "stopping"
  /\ phase' = "stopped"
  /\ running' = FALSE
  /\ index' = 0
  /\ UNCHANGED << pool, isComplete, boot, line, job, producing, head, tip, refused, found,
                  calm >>

-----------------------------------------------------------------------------
(* The connections of the pool                                             *)

Listening == phase \in {"starting", "up", "stopping"} /\ boot # "connecting"

\* Mutant: the synchronizer is not resumed.
OpenUnresumed(c) ==
  /\ phase \notin {"off", "stopped"} /\ c \notin open
  /\ open' = open \union {c}
  /\ connectedCount' = connectedCount + 1
  /\ IF Listening /\ connectedCount = 0 /\ isComplete
       THEN producing' = TRUE /\ calm' = (calm /\ phase # "stopping")
       ELSE UNCHANGED << producing, calm >>
  /\ UNCHANGED << phase, misses, index, running, isComplete, boot, line, job, head, tip,
                  refused, found >>

\* `open' of a client, and of the pool when it is the first: producer.start(true)
\* and sync.resume().
Open(c) ==
  /\ phase \notin {"off", "stopped"} /\ c \notin open
  /\ open' = open \union {c}
  /\ connectedCount' = connectedCount + 1
  /\ IF Listening /\ connectedCount = 0 /\ isComplete
       THEN /\ producing' = TRUE
            /\ running' = TRUE
            /\ line' = IF running THEN line ELSE Append(line, Sync)
            /\ calm' = (calm /\ phase # "stopping")
       ELSE UNCHANGED << producing, running, line, calm >>
  /\ UNCHANGED << phase, misses, index, isComplete, boot, job, head, tip, refused, found >>

\* `close' of the pool: sync.pause() waits for the lock, producer.stop().
PoolCloses ==
  /\ IF line = << >> THEN running' = FALSE /\ UNCHANGED line
                     ELSE line' = Append(line, Pause) /\ UNCHANGED running
  /\ producing' = FALSE
  /\ calm' = (calm /\ line = << >> /\ phase # "starting")

\* The requests of a closed connection are rejected: invoke() goes on.
Interrupted(c) ==
  IF job.state = "asked" /\ job.client = c
    THEN /\ job' = [job EXCEPT !.state = "ask", !.tries = job.tries + 1]
         /\ found' = found \union {c}
    ELSE UNCHANGED << job, found >>

CountDown ==
  /\ connectedCount' = connectedCount - 1
  /\ IF Listening /\ connectedCount = 1
       THEN PoolCloses
       ELSE UNCHANGED << line, running, producing, calm >>

Close(c) ==
  /\ phase \notin {"off", "stopped"} /\ c \in open /\ Len(line) < MaxLine
  /\ open' = open \ {c}
  /\ CountDown
  /\ Interrupted(c)
  /\ UNCHANGED << phase, misses, index, isComplete, boot, head, tip, refused >>

\* A connection closes before its handshake is done: the pool counts it as well.
CloseUnopened(c) ==
  /\ phase \notin {"off", "stopped"} /\ c \notin open
  /\ misses < MaxMisses /\ Len(line) < MaxLine
  /\ misses' = misses + 1
  /\ connectedCount' = connectedCount - 1
  /\ IF Listening /\ connectedCount = 1
       THEN /\ line' = IF line = << >> THEN line ELSE Append(line, Pause)
            /\ running' = (running /\ line # << >>)
            /\ producing' = FALSE
       ELSE UNCHANGED << line, running, producing >>
  /\ calm' = FALSE
  /\ UNCHANGED << phase, open, index, isComplete, boot, job, head, tip, refused, found >>

PauseTurn ==
  /\ OwnerIs("pause")
  /\ running' = FALSE
  /\ line' = Tail(line)
  /\ UNCHANGED << phase, pool, index, isComplete, boot, job, producing, head, tip, refused,
                  found, calm >>

-----------------------------------------------------------------------------
(* synchronizeChain                                                        *)

\* Mutant: synchronizeChain does not keep the lock.
BeginSyncUnlocked ==
  /\ OwnerIs("sync") /\ job = Idle
  /\ job' = Job("top", head) /\ refused' = FALSE
  /\ line' = Tail(line)
  /\ UNCHANGED << phase, pool, index, running, isComplete, boot, producing, head, tip,
                  found, calm >>

BeginSync ==
  /\ OwnerIs("sync") /\ job = Idle
  /\ job' = Job("top", head) /\ refused' = FALSE
  /\ UNCHANGED << phase, pool, index, running, isComplete, boot, line, producing, head,
                  tip, found, calm >>

\* The range to ask for; a height of 0 is taken for no height.
AskRange ==
  /\ job.state = "top" /\ running
  /\ LET first == IF job.height > 0 THEN job.height + 1 ELSE 0
         last  == (IF job.height > 0 THEN job.height ELSE first) + RangeLen
     IN  job' = [job EXCEPT !.state = "ask", !.from = index, !.tries = 0,
                              !.next = first, !.last = last]
  /\ found' = {}
  /\ UNCHANGED << phase, pool, index, running, isComplete, boot, line, producing, head,
                  tip, refused, calm >>

\* invoke() counts from the index it found.
NextIndex == (job.from + job.tries + 1) % NumClients

\* Mutant: invoke() asks the same client again.
AskSameClient ==
  /\ job.state = "ask" /\ job.tries < NumClients
  /\ IF index \in open
       THEN job' = [job EXCEPT !.state = "asked", !.client = index] /\ UNCHANGED found
       ELSE job' = [job EXCEPT !.tries = job.tries + 1] /\ found' = found \union {index}
  /\ UNCHANGED << phase, pool, index, running, isComplete, boot, line, producing, head,
                  tip, refused, calm >>

\* invoke() asks one client after the other.
AskClient ==
  /\ job.state = "ask" /\ job.tries < NumClients
  /\ index' = NextIndex
  /\ IF NextIndex \in open
       THEN job' = [job EXCEPT !.state = "asked", !.client = NextIndex] /\ UNCHANGED found
       ELSE job' = [job EXCEPT !.tries = job.tries + 1] /\ found' = found \union {NextIndex}
  /\ UNCHANGED << phase, pool, running, isComplete, boot, line, producing, head, tip,
                  refused, calm >>

\* EndOfClients: the loop waits for three seconds.
NoClient ==
  /\ job.state = "ask" /\ job.tries >= NumClients
  /\ job' = [job EXCEPT !.state = "wait"]
  /\ UNCHANGED << phase, pool, index, running, isComplete, boot, line, producing, head,
                  tip, refused, found, calm >>

AskAgain ==
  /\ job.state = "wait"
  /\ job' = [job EXCEPT !.state = "top"]
  /\ UNCHANGED << phase, pool, index, running, isComplete, boot, line, producing, head,
                  tip, refused, found, calm >>

\* The blocks of the range, as far as the peer has them.
Answer ==
  /\ job.state = "asked" /\ phase # "stopped"
  /\ job' = [job EXCEPT !.state = "index", !.height = job.last,
                        !.outside = job.last > tip,
                        !.last = IF job.last > tip THEN tip ELSE job.last]
  /\ UNCHANGED << phase, pool, index, running, isComplete, boot, line, producing, head,
                  tip, refused, found, calm >>

IndexBlock ==
  /\ job.state = "index" /\ running /\ job.next <= job.last
  /\ job.next = head + 1
  /\ head' = job.next
  /\ job' = [job EXCEPT !.next = job.next + 1]
  /\ UNCHANGED << phase, pool, index, running, isComplete, boot, line, producing, tip,
                  refused, found, calm >>

EndRange ==
  /\ job.state = "index" /\ (~running \/ job.next > job.last)
  /\ job' = [job EXCEPT !.state = IF job.outside THEN "done" ELSE "top"]
  /\ UNCHANGED << phase, pool, index, running, isComplete, boot, line, producing, head,
                  tip, refused, found, calm >>

\* synchronizeChain returns.  Synchronizer.start and Node.start go on with the
\* outcome; resume() drops it.
Return(ok) ==
  /\ job' = Idle
  /\ line' = Tail(line)
  /\ IF boot # "starting"
       THEN UNCHANGED << isComplete, boot, producing, phase, running >>
       ELSE /\ boot' = "none"
            /\ isComplete' = ok
            /\ producing' = ok
            /\ phase' = IF phase # "starting" THEN phase ELSE IF ok THEN "up" ELSE "stopping"
            /\ running' = (ok /\ running)
  /\ UNCHANGED << pool, index, head, tip, refused, found >>

SyncEnds ==
  /\ job.state = "done" \/ (job.state = "top" /\ ~running)
  /\ Return(TRUE)
  /\ UNCHANGED calm

\* A block is not the next one, or the peer answers with an error.
SyncFails ==
  /\ \/ job.state = "index" /\ running /\ job.next <= job.last /\ job.next # head + 1
     \/ job.state = "asked" /\ phase # "stopped"
  /\ Return(FALSE)
  /\ calm' = (calm /\ phase = "starting")

-----------------------------------------------------------------------------
(* Blocks of the peers                                                     *)

\* Mutant: handleBlock drops a block when the lock is held.
NewBlockBusy ==
  /\ tip < MaxTip
  /\ tip' = tip + 1
  /\ line' = IF Listening /\ open # {} /\ running /\ line = << >>
               THEN Append(line, [op |-> "block", height |-> tip']) ELSE line
  /\ UNCHANGED << phase, pool, index, running, isComplete, boot, job, producing, head,
                  refused, found, calm >>

\* The peers have a new block; handleBlock waits for the lock.
NewBlock ==
  /\ tip < MaxTip /\ Len(line) < MaxLine
  /\ tip' = tip + 1
  /\ line' = IF Listening /\ open # {} /\ running
               THEN Append(line, [op |-> "block", height |-> tip']) ELSE line
  /\ UNCHANGED << phase, pool, index, running, isComplete, boot, job, producing, head,
                  refused, found, calm >>

\* Producer.onBlock adds the block if it is the next one, and even then may refuse it:
\* another minter is due by its own count of missed blocks, or the block is too early
\* or not valid.
BlockTurn ==
  /\ OwnerIs("block")
  /\ line' = Tail(line)
  /\ LET next == producing /\ Head(line).height = head + 1
     IN  \/ next /\ head' = head + 1 /\ UNCHANGED refused
         \/ UNCHANGED head /\ refused' = (refused \/ next)
  /\ UNCHANGED << phase, pool, index, running, isComplete, boot, job, producing, tip,
                  found, calm >>

SyncStep ==
  \/ BeginSync \/ AskRange \/ AskClient \/ NoClient \/ AskAgain
  \/ Answer \/ IndexBlock \/ EndRange \/ SyncEnds \/ SyncFails

Next ==
  \/ Start \/ StartSync \/ Stop \/ StopRest
  \/ \E c \in Clients : Open(c) \/ Close(c) \/ CloseUnopened(c)
  \/ PauseTurn \/ BlockTurn \/ SyncStep \/ NewBlock

Spec == Init /\ [][Next]_vars

\* The event loop runs what is ready, and a connected peer answers or fails.
FairSpec ==
  /\ Spec
  /\ WF_vars(SyncStep) /\ WF_vars(PauseTurn) /\ WF_vars(BlockTurn)

-----------------------------------------------------------------------------
Jobs == [state : {"top", "ask", "asked", "wait", "index", "done"},
         height : Int, from : Nat, tries : Nat, client : Clients, next : Int, last : Int,
         outside : BOOLEAN]

TypeOK ==
  /\ phase \in {"off", "connecting", "starting", "up", "stopping", "stopped"}
  /\ open \subseteq Clients /\ connectedCount \in Int /\ misses \in Nat
  /\ index \in Clients
  /\ running \in BOOLEAN /\ isComplete \in BOOLEAN
  /\ producing \in BOOLEAN /\ calm \in BOOLEAN /\ refused \in BOOLEAN
  /\ boot \in {"none", "connecting", "starting"}
  /\ line \in Seq({Sync, Pause} \union [op : {"block"}, height : Nat])
  /\ job \in Jobs \union {Idle}
  /\ head \in Int /\ tip \in Nat
  /\ found \subseteq Clients

\* The synchronization at work owns the lock, so blocks and transactions of peers
\* wait.  Nothing waits before the node starts, and it starts with a synchronization.
LineInv ==
  /\ job # Idle => OwnerIs("sync")
  /\ phase \in {"off", "connecting"} => line = << >>
  /\ phase = "starting" => OwnerIs("sync")
  /\ phase = "off" \/ boot # "none" => ~isComplete
  /\ phase = "up" => isComplete
  /\ phase \in {"connecting", "starting"} => boot = phase
  /\ phase \in {"off", "up"} => boot = "none"

\* The pool counts its connections but for the failed handshakes.
CountInv == connectedCount = Cardinality(open) - misses

\* invoke() has found every client gone that it has tried, and waits for the answer
\* of one that is connected.  A synchronization waits when all are gone.
InvokeInv ==
  /\ job.state \in {"ask", "asked"} =>
       job.from \in Clients /\ \A k \in 1..job.tries : (job.from + k) % NumClients \in found
  /\ job.state = "asked" => job.client = NextIndex /\ job.client \in open
  /\ job.state = "wait" => found = Clients

\* As long as it is calm, synchronizer and producer follow the connections, and only
\* a synchronization at its head and announced blocks are in the line.
CalmInv ==
  calm =>
    /\ misses = 0
    /\ boot # "none" => phase = boot
    /\ \A i \in 1..Len(line) : line[i].op # "pause"
    /\ phase = "starting" => running
    /\ phase = "up" => running = (open # {}) /\ producing = (open # {})
    /\ phase = "stopping" => ~producing
    /\ phase = "stopped" => ~running /\ ~producing
    /\ phase = "starting" /\ open = {} => Len(line) = 1 /\ job.state \notin {"index", "done"}
    /\ phase = "up" /\ open = {} => line = << >>

\* The blocks in the line are the last ones that were announced, and the chain and
\* the synchronization at work reach to the first of them, unless a block was refused.
ReachInv ==
  /\ head >= -1
  /\ calm /\ phase \in {"starting", "up"} =>
       /\ \A i \in 1..Len(line) :
            IF line[i].op = "block" THEN line[i].height = tip - (Len(line) - i) ELSE i = 1
       /\ job.state \in {"top", "ask", "asked", "wait"} => head >= job.height
       /\ job.state \in {"ask", "asked", "index"} => head >= job.next - 1
       /\ job.state = "index" =>
            IF job.outside THEN job.last + Len(line) - 1 >= tip ELSE job.height = job.last
       /\ job.state = "done" => head + Len(line) - 1 >= tip
       /\ open # {} /\ ~OwnerIs("sync") /\ ~refused => head + Len(line) >= tip

\* Locking, counting and asking are in order, and whatever interleaving of closing
\* and opening connections and of new blocks comes, no block is left out but those
\* that onBlock has refused.
SyncInv ==
  /\ TypeOK
  /\ LineInv /\ CountInv /\ InvokeInv
  /\ CalmInv /\ ReachInv

AtRest == phase = "up" /\ line = << >>

\* At rest the node follows its connections: synchronizer and producer run if and
\* only if some peer is connected.
FollowsPeers ==
  calm /\ AtRest => running = (open # {}) /\ producing = (open # {})

\* A node at rest with a peer has every block of the peers, however the ranges of
\* a synchronization and the announced blocks came together, unless onBlock has
\* refused one that no synchronization has brought since.
UpToDate == calm /\ ~refused /\ AtRest /\ open # {} => head >= tip

\* A stopped node neither synchronizes nor produces.
StoppedIsOff == calm /\ phase = "stopped" => ~running /\ ~producing

\* With one peer that stays connected a synchronization ends, also when it began
\* without any.
SyncCompletes ==
  (\E c \in Clients : <>[](c \in open /\ phase # "stopped")) => (job # Idle ~> job = Idle)
=============================================================================
