------------------------------ MODULE Producer ------------------------------
(***************************************************************************)
(* Producer and Scheduler (src/src/lib/producer/), with the calls that     *)
(* Node and Synchronizer make: who produces the next block, the production *)
(* and missed-block timers, start, stop and the blocks of peers.           *)
(*                                                                         *)
(* `queue' is the line of Producer.lock (AsyncLock shows that Lock is one):*)
(* its first task owns the lock.  A task that finds the lock free runs in  *)
(* the same turn of the event loop; a task that waited runs in a later     *)
(* turn, so other callbacks may come before it.                            *)
(*                                                                         *)
(* The calm ends when a block that passed the tests of onBlock cannot be   *)
(* added, the bonds cannot be read, a synchronization moves the head, or   *)
(* a timer is armed that is due at once while other tasks wait.            *)
(*                                                                         *)
(* Time is counted in units of the missed-block timer.  The clock stands   *)
(* while a task or a due timer is ready to run, and moves while the loop   *)
(* is idle or the owner awaits the disk.  The clock of a peer may be ahead *)
(* of it: no test of onBlock bounds the time of a block from above.        *)
(***************************************************************************)
EXTENDS Integers, Sequences, SequencesExt

CONSTANTS
  NumBonds,         \* the length of Scheduler.bonds
  Self,             \* where LocalMinter comes in them; NumBonds if it has no bond
  ProdTime,         \* BLOCK_PROD_TIME
  MaxTime,          \* bound: the clock
  MaxQueue,         \* bound: tasks in the line of the lock
  MaxStorm,         \* bound: calls after the first disturbance
  MaxAhead,         \* bound: how far the clock of a peer is ahead
  NoTimer

Minters == 0..(NumBonds - 1)

ASSUME BondsAssumption == NumBonds \in Nat \ {0} /\ Self \in 0..NumBonds
ASSUME TimeAssumption ==
  /\ ProdTime \in Nat \ {0}
  /\ MaxTime \in Nat /\ MaxQueue \in Nat /\ MaxStorm \in Nat /\ MaxAhead \in Nat

VARIABLES
  running,          \* Producer._running
  initd,            \* Producer.initd: the bonds are loaded
  queue,            \* the tasks at Producer.lock, the owner first
  turn,             \* "free", or the owner is "fresh", "handed" or in an "await"
  timer,            \* what this.timer will do, or NoTimer
  lost,             \* pending timers that this.timer no longer refers to
  missed,           \* Producer.missed
  head,             \* height and time of Blockchain.head
  now,              \* the clock
  ahead,            \* history: the head was ahead of the clock when it was added
  storm             \* history: 0 until a disturbance, then counts them and the calls

vars ==
  << running, initd, queue, turn, timer, lost, missed, head, now, ahead, storm >>

\* Scheduler.nextMinter
NextMinter(height, skip) == (height + skip) % NumBonds
Scheduled == NextMinter(head.height, missed)

Try == [op |-> "try"]
Missed(height) == [op |-> "missed", expect |-> height]

\* setTimeout: what a pending timer does and when.
Timeout(task, delay) == [task |-> task, due |-> now + delay]

Larger(a, b) == IF a > b THEN a ELSE b
Smaller(a, b) == IF a < b THEN a ELSE b

\* The delay of startTimer after a block of this time.
Schedule(time) == Smaller(Larger(time + ProdTime - now, 0), ProdTime)

\* startTimer clears this.timer; startMissedBlockTimer overwrites it.
StartTimer(delay) ==
  /\ timer' = Timeout(Try, delay)
  /\ storm' = IF delay = 0 /\ Len(queue) > 1 THEN storm + 1 ELSE storm
  /\ UNCHANGED lost
StartMissedBlockTimer(height) ==
  /\ timer' = Timeout(Missed(height), 1)
  /\ lost' = IF timer = NoTimer THEN lost ELSE Append(lost, timer)

\* addBlock replaces Blockchain.head, whatever the time of the block.
NewHead(height, time) ==
  /\ head' = [height |-> height, time |-> time]
  /\ ahead' \in BOOLEAN /\ (ahead' <=> time > now)

-----------------------------------------------------------------------------
(* The lock                                                                *)

Owner == Head(queue)
Owns(op) == turn \in {"fresh", "handed"} /\ Owner.op = op
Awaits(op) == turn = "await" /\ Owner.op = op

Lock(task) ==
  /\ turn # "fresh"
  /\ queue' = Append(queue, task)
  /\ turn' = IF queue = << >> THEN "fresh" ELSE turn

\* A call from outside; after a disturbance a bounded number of them.
Call(task) ==
  /\ Len(queue) < MaxQueue
  /\ storm <= MaxStorm
  /\ storm' = IF storm = 0 THEN 0 ELSE storm + 1
  /\ Lock(task)

Leave(rest) ==
  /\ queue' = rest
  /\ turn' = IF rest = << >> THEN "free" ELSE "handed"

Unlock == Leave(Tail(queue))
Await == turn' = "await" /\ UNCHANGED queue

Init ==
  /\ running = FALSE /\ initd = FALSE
  /\ queue = << >> /\ turn = "free"
  /\ timer = NoTimer /\ lost = << >>
  /\ missed = 0
  /\ head = [height |-> 0, time |-> 0]
  /\ now = 0
  /\ ahead = FALSE /\ storm = 0

-----------------------------------------------------------------------------
(* start and stop                                                          *)

\* Node.start, or `open' of the peer pool, which forces the later schedule.
CallStart ==
  \E later \in BOOLEAN :
    /\ Call([op |-> "start", later |-> later])
    /\ UNCHANGED << running, initd, timer, lost, missed, head, now, ahead >>

\* `close' of the peer pool, or Node.stop.
CallStop ==
  /\ Call([op |-> "stop"])
  /\ UNCHANGED << running, initd, timer, lost, missed, head, now, ahead >>

FirstTimer ==
  StartTimer(IF Owner.later THEN ProdTime ELSE Schedule(head.time))

StartAgain ==
  /\ Owns("start") /\ running
  /\ Unlock
  /\ UNCHANGED << running, initd, timer, lost, missed, head, now, ahead, storm >>

\* The first start awaits Scheduler.init.
StartBegin ==
  /\ Owns("start") /\ ~running
  /\ running' = TRUE
  /\ initd' = TRUE
  /\ IF initd THEN Unlock /\ FirstTimer ELSE Await /\ UNCHANGED << timer, lost, storm >>
  /\ UNCHANGED << missed, head, now, ahead >>

StartEnd ==
  /\ Awaits("start")
  /\ Unlock
  /\ FirstTimer
  /\ UNCHANGED << running, initd, missed, head, now, ahead >>

\* init() rejects; running stays set.
StartFails ==
  /\ Awaits("start")
  /\ Unlock
  /\ storm' = storm + 1
  /\ UNCHANGED << running, initd, timer, lost, missed, head, now, ahead >>

\* Mutant: stop() leaves the timer armed.
StopKeepsTimer ==
  /\ Owns("stop")
  /\ running' = FALSE
  /\ Unlock
  /\ UNCHANGED << initd, timer, lost, missed, head, now, ahead, storm >>

Stop ==
  /\ Owns("stop")
  /\ running' = FALSE
  /\ timer' = NoTimer
  /\ Unlock
  /\ UNCHANGED << initd, lost, missed, head, now, ahead, storm >>

-----------------------------------------------------------------------------
(* Blocks of peers                                                         *)

\* handleBlock holds the lock of Synchronizer, so there is one onBlock at a
\* time.  A block at height + 2 follows one that was lost.
CallBlock ==
  \E signer \in Minters \ {Self}, time \in 0..(now + MaxAhead), gap \in 1..2 :
    /\ running
    /\ \A i \in 1..Len(queue) : queue[i].op # "block"
    /\ Call([op |-> "block", signer |-> signer, time |-> time,
             height |-> head.height + gap])
    /\ UNCHANGED << running, initd, timer, lost, missed, head, now, ahead >>

Acceptable(b) == b.signer = Scheduled /\ b.time - head.time >= ProdTime

BlockRejected ==
  /\ Owns("block") /\ ~Acceptable(Owner)
  /\ Unlock
  /\ UNCHANGED << running, initd, timer, lost, missed, head, now, ahead, storm >>

\* Mutant: onBlock leaves the timer armed while the block is added.
BlockAcceptedKeepsTimer ==
  /\ Owns("block") /\ Acceptable(Owner)
  /\ Await
  /\ UNCHANGED << running, initd, timer, lost, missed, head, now, ahead, storm >>

BlockAccepted ==
  /\ Owns("block") /\ Acceptable(Owner)
  /\ timer' = NoTimer
  /\ Await
  /\ UNCHANGED << running, initd, lost, missed, head, now, ahead, storm >>

\* Mutant: postProduction leaves the missed counter.
BlockAddedKeepsMissed ==
  /\ Awaits("block") /\ Owner.height = head.height + 1
  /\ NewHead(Owner.height, Owner.time)
  /\ IF running THEN StartTimer(Schedule(Owner.time))
                ELSE UNCHANGED << timer, lost, storm >>
  /\ Unlock
  /\ UNCHANGED << running, initd, missed, now >>

\* addBlock and postProduction; startTimer throws when stop() came between the
\* call of onBlock and its turn.
BlockAdded ==
  /\ Awaits("block") /\ Owner.height = head.height + 1
  /\ NewHead(Owner.height, Owner.time)
  /\ missed' = 0
  /\ IF running THEN StartTimer(Schedule(Owner.time))
                ELSE UNCHANGED << timer, lost, storm >>
  /\ Unlock
  /\ UNCHANGED << running, initd, now >>

BlockFails ==
  /\ Awaits("block") /\ Owner.height # head.height + 1
  /\ storm' = storm + 1
  /\ Unlock
  /\ UNCHANGED << running, initd, timer, lost, missed, head, now, ahead >>

\* A resumed synchronization adds a block behind the producer's back.
SyncBlock ==
  /\ turn # "fresh" /\ storm <= MaxStorm
  /\ \E time \in {now, now + MaxAhead} : NewHead(head.height + 1, time)
  /\ storm' = storm + 1
  /\ UNCHANGED << running, initd, queue, turn, timer, lost, missed, now >>

-----------------------------------------------------------------------------
(* Timers and own blocks                                                   *)

FireTimer ==
  /\ timer # NoTimer /\ timer.due <= now
  /\ Lock(timer.task)
  /\ timer' = NoTimer
  /\ UNCHANGED << running, initd, lost, missed, head, now, ahead, storm >>

FireLost ==
  \E i \in 1..Len(lost) :
    /\ lost[i].due <= now
    /\ Lock(lost[i].task)
    /\ lost' = RemoveAt(lost, i)
    /\ UNCHANGED << running, initd, timer, missed, head, now, ahead, storm >>

\* Mutant: the callback awaits tryProducingBlock while it holds the lock.
MissedBlockAwaits ==
  /\ Owns("missed") /\ head.height # Owner.expect
  /\ missed' = missed + 1
  /\ queue' = Append(queue, Try)
  /\ turn' = "await"
  /\ UNCHANGED << running, initd, timer, lost, head, now, ahead, storm >>

\* The missed-block callback: tryProducingBlock goes to the end of the line,
\* because the lock is still held, and is not awaited.
MissedBlock ==
  /\ Owns("missed") /\ head.height # Owner.expect
  /\ missed' = missed + 1
  /\ Leave(Append(Tail(queue), Try))
  /\ UNCHANGED << running, initd, timer, lost, head, now, ahead, storm >>

BlockWasThere ==
  /\ Owns("missed") /\ head.height = Owner.expect
  /\ Unlock
  /\ UNCHANGED << running, initd, timer, lost, missed, head, now, ahead, storm >>

\* tryProducingBlock: another minter's turn.
TryWaits ==
  /\ Owns("try") /\ Scheduled # Self
  /\ StartMissedBlockTimer(head.height + 1)
  /\ Unlock
  /\ UNCHANGED << running, initd, missed, head, now, ahead, storm >>

\* The own turn: produceBlock sets the time of the block and awaits the pool
\* and addBlock.  The task keeps the head it read.
TryBegin ==
  /\ Owns("try") /\ Scheduled = Self
  /\ queue' = << [op |-> "produce", time |-> now, height |-> head.height + 1] >>
              \o Tail(queue)
  /\ turn' = "await"
  /\ UNCHANGED << running, initd, timer, lost, missed, head, now, ahead, storm >>

\* The block is added and the pool emptied.  startTimer throws when stopped, and
\* the catch branch arms the missed-block timer instead.
TryDone ==
  /\ Awaits("produce") /\ Owner.height = head.height + 1
  /\ NewHead(Owner.height, Owner.time)
  /\ missed' = 0
  /\ IF running THEN StartTimer(Schedule(Owner.time))
                ELSE StartMissedBlockTimer(Owner.height) /\ UNCHANGED storm
  /\ Unlock
  /\ UNCHANGED << running, initd, now >>

\* Mutant: a failed production arms no timer.
TryFailsSilently ==
  /\ Awaits("produce")
  /\ Unlock
  /\ UNCHANGED << running, initd, timer, lost, missed, head, now, ahead, storm >>

\* produceBlock throws.
TryFails ==
  /\ Awaits("produce")
  /\ StartMissedBlockTimer(Owner.height)
  /\ Unlock
  /\ UNCHANGED << running, initd, missed, head, now, ahead, storm >>

Tick ==
  /\ now < MaxTime
  /\ turn \in {"free", "await"}
  /\ timer # NoTimer => timer.due > now
  /\ \A i \in 1..Len(lost) : lost[i].due > now
  /\ now' = now + 1
  /\ UNCHANGED << running, initd, queue, turn, timer, lost, missed, head, ahead, storm >>

Task ==
  \/ StartAgain \/ StartBegin \/ StartEnd \/ StartFails \/ Stop
  \/ BlockRejected \/ BlockAccepted \/ BlockAdded \/ BlockFails
  \/ MissedBlock \/ BlockWasThere \/ TryWaits \/ TryBegin \/ TryDone \/ TryFails

Next ==
  \/ CallStart \/ CallStop \/ CallBlock \/ SyncBlock
  \/ Task \/ FireTimer \/ FireLost \/ Tick

Spec == Init /\ [][Next]_vars

\* The event loop runs what is ready and the disk answers.
FairSpec == Spec /\ WF_vars(Task)

-----------------------------------------------------------------------------
Tasks ==
  [op : {"try", "stop"}]
    \union [op : {"missed"}, expect : Nat]
    \union [op : {"start"}, later : BOOLEAN]
    \union [op : {"produce"}, time : Nat, height : Nat]
    \union [op : {"block"}, signer : Minters, time : Nat, height : Nat]
Timers == [task : [op : {"try"}] \union [op : {"missed"}, expect : Nat], due : Nat]

ASSUME NoTimerAssumption == NoTimer \notin Timers

TypeOK ==
  /\ running \in BOOLEAN /\ initd \in BOOLEAN /\ storm \in Nat
  /\ queue \in Seq(Tasks)
  /\ turn \in {"free", "fresh", "handed", "await"}
  /\ timer \in Timers \union {NoTimer}
  /\ lost \in Seq(Timers)
  /\ missed \in Nat /\ now \in Nat
  /\ head \in [height : Nat, time : Nat] /\ ahead \in BOOLEAN

Calm == storm = 0

\* The tasks that lead to another attempt to produce a block.
IsAttempt(task) == task.op \in {"try", "produce", "missed"}
AttemptRuns == queue # << >> /\ IsAttempt(Owner)

\* An operation that will arm the timer again.
Arming == Awaits("start") \/ Awaits("block")

\* The line of the lock: who runs in this turn found it free, and only the
\* operations that await the disk are in an await.
LineInv ==
  /\ turn = "free" <=> queue = << >>
  /\ turn = "fresh" => Len(queue) = 1
  /\ turn = "await" => Owner.op \in {"start", "block", "produce"}
  /\ \A i \in 1..Len(queue) :
       /\ queue[i].op = "produce" => i = 1 /\ turn = "await"
       /\ queue[i].op = "produce" => queue[i].time <= now

\* In the calm a timer never fires while another task holds the lock, so an
\* attempt never waits behind a block, a stop or a start.
TimerInv ==
  /\ lost = << >>
  /\ turn = "handed" /\ timer # NoTimer => timer.due > now
  /\ turn = "await" \/ AttemptRuns => timer = NoTimer
  /\ \A i \in 1..Len(queue) : IsAttempt(queue[i]) => i = 1
  /\ AttemptRuns /\ Owner.op = "missed"
       => turn = "fresh" /\ Owner.expect = head.height + 1
  /\ AttemptRuns /\ Owner.op = "produce" => Owner.height = head.height + 1
  /\ timer # NoTimer /\ timer.task.op = "missed"
       => timer.task.expect = head.height + 1
  /\ Awaits("start") => running
  /\ Awaits("block") => Owner.time >= head.time + ProdTime

\* In the calm, after a head that was not ahead of the clock, time is kept: no attempt
\* before the next block is due, and a unit of time for every missed block.  After one
\* that was, startTimer cuts the delay to ProdTime and attempts come too early.
PaceInv ==
  ~ahead =>
    /\ timer # NoTimer => timer.due >= head.time + ProdTime + missed
    /\ timer # NoTimer /\ timer.task.op = "missed"
         => timer.due > head.time + ProdTime + missed
    /\ AttemptRuns => now >= head.time + ProdTime + missed
    /\ AttemptRuns /\ Owner.op = "missed" => now > head.time + ProdTime + missed
    /\ AttemptRuns /\ Owner.op = "produce" => Owner.time >= head.time + ProdTime

\* A running producer never stalls: a timer is armed, or the task that will arm
\* it is at work.
NeverStalls == Calm /\ running => timer # NoTimer \/ AttemptRuns \/ Arming

\* After stop() no timer and no waiting callback tries to produce a block.
StoppedIsQuiet ==
  Calm /\ ~running =>
    timer = NoTimer /\ \A i \in 1..Len(queue) : ~IsAttempt(queue[i])

\* A block counts as missed once per unit of time since it was due, unless the head
\* came from a clock ahead; counting it faster, the minters would disagree on whose
\* turn it is.
MissedIsPaced ==
  Calm /\ ~ahead /\ missed > 0 => missed <= now - head.time - ProdTime

ProducerInv ==
  /\ TypeOK
  /\ ~ahead => head.time <= now
  /\ LineInv
  /\ Calm => TimerInv /\ PaceInv
  /\ NeverStalls
  /\ StoppedIsQuiet
  /\ MissedIsPaced

\* Blocks follow each other at the production time at least, also the own ones, which
\* no test of the node itself looks at and peers would reject.  Only after a block
\* whose time was ahead of the clock may an own one come too early.
BlocksAreSpaced ==
  [][head' # head /\ storm' = 0 /\ (ahead => Awaits("block"))
       => head'.time >= head.time + ProdTime]_vars

\* A stop() that was called takes effect, whatever holds the lock before it.
StopIsServed == (\E i \in 1..Len(queue) : queue[i].op = "stop") ~> ~running

\* The assertion of startTimer, 'producer must be running', when a block of a peer
\* has been added.
MustBeRunning == Awaits("block") => running
=============================================================================
