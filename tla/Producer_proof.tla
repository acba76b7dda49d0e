--------------------------- MODULE Producer_proof ---------------------------
(***************************************************************************)
(* Proofs about Producer, for every number of minters, place of the own    *)
(* one, production time and bounds.                                        *)
(***************************************************************************)
EXTENDS Producer, TLAPS

USE BondsAssumption, TimeAssumption

\* What a task of the line is made of.
LEMMA TaskShape ==
  ASSUME NEW t \in Tasks
  PROVE  /\ t.op \in {"try", "stop", "missed", "start", "produce", "block"}
         /\ t.op = "missed" => t.expect \in Nat
         /\ t.op = "start" => t.later \in BOOLEAN
         /\ t.op \in {"produce", "block"} => t.time \in Nat /\ t.height \in Nat
PROOF BY DEF Tasks

\* What a timer can hold.
LEMMA TimerShape ==
  ASSUME NEW t \in Timers
  PROVE  /\ t.due \in Nat /\ t.task \in Tasks
         /\ t.task.op \in {"try", "missed"}
         /\ t.task.op = "missed" => t.task.expect \in Nat
PROOF BY DEF Timers, Tasks

LEMMA TimerMade ==
  ASSUME NEW task \in [op : {"try"}] \union [op : {"missed"}, expect : Nat],
         NEW delay \in Nat, now \in Nat
  PROVE  Timeout(task, delay) \in Timers
PROOF BY DEF Timeout, Timers

\* The delay of startTimer is at most the production time, and for a block that
\* is not ahead of the clock it ends when the next block is due, or now.
LEMMA ScheduleBound ==
  ASSUME NEW time \in Nat, now \in Nat
  PROVE  /\ Schedule(time) \in Nat
         /\ time <= now => now + Schedule(time) >= time + ProdTime
         /\ time <= now /\ Schedule(time) = 0 => now >= time + ProdTime
PROOF BY DEF Schedule, Larger, Smaller

-----------------------------------------------------------------------------
\* What lock() does to the line.
LEMMA LockEffect ==
  ASSUME NEW t \in Tasks, TypeOK, LineInv, Lock(t)
  PROVE  /\ queue' \in Seq(Tasks) /\ queue' # << >>
         /\ Len(queue') = Len(queue) + 1
         /\ \A i \in 1..Len(queue) : queue'[i] = queue[i]
         /\ queue'[Len(queue) + 1] = t
         /\ turn # "fresh"
         /\ turn' \in {"fresh", "handed", "await"}
         /\ queue = << >> => turn' = "fresh" /\ queue'[1] = t
         /\ queue # << >> => turn' = turn /\ queue'[1] = queue[1]
         /\ Head(queue') = queue'[1]
PROOF BY DEF TypeOK, LineInv, Lock

\* What unlock() does to the line.
LEMMA UnlockEffect ==
  ASSUME TypeOK, LineInv, queue # << >>, Unlock
  PROVE  /\ queue' \in Seq(Tasks)
         /\ Len(queue') = Len(queue) - 1
         /\ \A i \in 1..Len(queue') : queue'[i] = queue[i + 1]
         /\ turn' \in {"free", "handed"}
         /\ turn' = "free" <=> queue' = << >>
         /\ Len(queue) = 1 <=> queue' = << >>
         /\ queue' # << >> => Head(queue') = queue[2]
<1>1. queue \in Seq(Tasks) /\ queue' = Tail(queue)
  BY DEF TypeOK, Unlock, Leave
<1>2. /\ queue' \in Seq(Tasks)
      /\ Len(queue') = Len(queue) - 1
      /\ \A i \in 1..Len(queue') : queue'[i] = queue[i + 1]
  BY <1>1
<1>3. queue' = << >> <=> Len(queue) = 1
  <2>1. queue' = << >> <=> Len(queue') = 0
    BY <1>2
  <2>2. Len(queue) \in Nat
    BY <1>1
  <2> QED  BY <1>2, <2>1, <2>2
<1>4. ASSUME queue' # << >> PROVE Head(queue') = queue[2]
  <2>1. Len(queue') \in Nat /\ Len(queue') >= 1
    BY <1>2, <1>4
  <2>2. Head(queue') = queue'[1]
    BY <1>2, <1>4
  <2>3. queue'[1] = queue[1 + 1]
    BY <1>2, <2>1
  <2> QED  BY <2>2, <2>3
<1> QED  BY <1>2, <1>3, <1>4 DEF Unlock, Leave

\* The owner is the first task of the line.
LEMMA OwnerIsFirst ==
  ASSUME TypeOK, LineInv, turn # "free"
  PROVE  queue # << >> /\ Len(queue) >= 1 /\ Owner = queue[1] /\ Owner \in Tasks
PROOF BY DEF TypeOK, LineInv, Owner
-----------------------------------------------------------------------------
(* The line of the lock                                                    *)

LEMMA LineLock ==
  ASSUME NEW t \in Tasks, TypeOK, LineInv, Lock(t), now' = now,
         t.op # "produce"
  PROVE  LineInv'
<1>1. /\ queue' \in Seq(Tasks) /\ queue' # << >>
      /\ Len(queue') = Len(queue) + 1
      /\ \A i \in 1..Len(queue) : queue'[i] = queue[i]
      /\ queue'[Len(queue) + 1] = t
      /\ queue = << >> => turn' = "fresh"
      /\ queue # << >> => turn' = turn /\ turn # "fresh" /\ queue'[1] = queue[1]
      /\ Head(queue') = queue'[1]
  BY LockEffect
<1>2. queue \in Seq(Tasks) /\ Len(queue) \in Nat /\ (queue = << >> <=> Len(queue) = 0)
  BY DEF TypeOK
<1>3. turn' = "free" <=> queue' = << >>
  BY <1>1 DEF LineInv
<1>4. turn' = "fresh" => Len(queue') = 1
  BY <1>1, <1>2
<1>5. turn' = "await" => Owner'.op \in {"start", "block", "produce"}
  <2>1. turn' = "await" => queue # << >> /\ turn = "await"
    BY <1>1
  <2>2. queue # << >> => Owner = queue[1]
    BY <1>2 DEF Owner
  <2> QED  BY <1>1, <2>1, <2>2 DEF Owner, LineInv
<1>6. ASSUME NEW i \in 1..Len(queue')
      PROVE  /\ queue'[i].op = "produce" => i = 1 /\ turn' = "await"
             /\ queue'[i].op = "produce" => queue'[i].time <= now'
  <2>1. CASE i = Len(queue) + 1
    BY <1>1, <2>1
  <2>2. CASE i # Len(queue) + 1
    <3>1. i \in 1..Len(queue) /\ queue # << >>
      BY <1>1, <1>2, <2>2
    <3> QED  BY <1>1, <3>1 DEF LineInv
  <2> QED  BY <2>1, <2>2
<1> QED  BY <1>3, <1>4, <1>5, <1>6 DEF LineInv, Owner

LEMMA LineUnlock ==
  ASSUME TypeOK, LineInv, turn # "free", Unlock, now' = now
  PROVE  LineInv' /\ queue' \in Seq(Tasks) /\ turn' \in {"free", "handed"}
<1>1. queue # << >> /\ queue \in Seq(Tasks)
  BY DEF TypeOK, LineInv
<1>2. /\ queue' \in Seq(Tasks)
      /\ Len(queue') = Len(queue) - 1
      /\ \A i \in 1..Len(queue') : queue'[i] = queue[i + 1]
      /\ turn' \in {"free", "handed"}
      /\ turn' = "free" <=> queue' = << >>
  BY <1>1, UnlockEffect
<1>3. ASSUME NEW i \in 1..Len(queue')
      PROVE  queue'[i].op # "produce"
  <2>1. i + 1 \in 1..Len(queue) /\ i + 1 # 1
    BY <1>1, <1>2
  <2> QED  BY <1>2, <2>1 DEF LineInv
<1> QED  BY <1>2, <1>3 DEF LineInv

\* tryProducingBlock goes to the end of the line before the callback leaves it.
LEMMA LineMissed ==
  ASSUME TypeOK, LineInv, MissedBlock
  PROVE  /\ LineInv' /\ queue' \in Seq(Tasks) /\ queue' # << >> /\ turn' = "handed"
         /\ Len(queue') = Len(queue) /\ queue'[Len(queue)] = Try
<1>1. queue # << >> /\ queue \in Seq(Tasks) /\ Len(queue) \in Nat /\ Len(queue) >= 1
  BY OwnerIsFirst DEF TypeOK, MissedBlock, Owns
<1>2. Try \in Tasks /\ Try.op = "try"
  BY DEF Try, Tasks
<1>3. queue' = Append(Tail(queue), Try)
  BY DEF MissedBlock, Leave
<1>4. /\ queue' \in Seq(Tasks)
      /\ Len(queue') = Len(queue)
      /\ \A i \in 1..(Len(queue) - 1) : queue'[i] = queue[i + 1]
      /\ queue'[Len(queue)] = Try
  BY <1>1, <1>2, <1>3
<1>5. queue' # << >> /\ turn' = "handed"
  BY <1>1, <1>4 DEF MissedBlock, Leave
<1>6. ASSUME NEW i \in 1..Len(queue')
      PROVE  queue'[i].op # "produce"
  <2>1. CASE i = Len(queue)
    BY <1>2, <1>4, <2>1
  <2>2. CASE i # Len(queue)
    <3>1. i \in 1..(Len(queue) - 1) /\ i + 1 \in 1..Len(queue) /\ i + 1 # 1
      BY <1>1, <1>4, <2>2
    <3> QED  BY <1>4, <3>1 DEF LineInv, MissedBlock
  <2> QED  BY <2>1, <2>2
<1> QED  BY <1>4, <1>5, <1>6 DEF LineInv

\* The task of an own block takes the place of its attempt.
LEMMA LineTry ==
  ASSUME TypeOK, LineInv, TryBegin
  PROVE  /\ LineInv' /\ queue' \in Seq(Tasks) /\ queue' # << >>
         /\ Len(queue') = Len(queue)
         /\ \A i \in 2..Len(queue) : queue'[i] = queue[i]
         /\ Owner' = queue'[1]
         /\ Owner' = [op |-> "produce", time |-> now, height |-> head.height + 1]
<1> DEFINE t == [op |-> "produce", time |-> now, height |-> head.height + 1]
<1>1. queue # << >> /\ queue \in Seq(Tasks) /\ Len(queue) \in Nat /\ Len(queue) >= 1
  BY OwnerIsFirst DEF TypeOK, TryBegin, Owns
<1>2. t \in Tasks
  BY DEF Tasks, TypeOK
<1>3. queue' = << t >> \o Tail(queue) /\ turn' = "await" /\ now' = now
  BY DEF TryBegin
<1> HIDE DEF t
<1>4. /\ queue' \in Seq(Tasks)
      /\ Len(queue') = Len(queue)
      /\ queue'[1] = t
  BY <1>1, <1>2, <1>3
<1>5. \A i \in 2..Len(queue) : queue'[i] = queue[i]
  BY <1>1, <1>2, <1>3
<1>6. queue' # << >> /\ Head(queue') = t
  BY <1>1, <1>4
<1>7. ASSUME NEW i \in 1..Len(queue')
      PROVE  /\ queue'[i].op = "produce" => i = 1
             /\ queue'[i].op = "produce" => queue'[i].time <= now'
  <2>1. CASE i = 1
    BY <1>3, <1>4, <2>1 DEF t, TypeOK
  <2>2. CASE i # 1
    BY <1>1, <1>3, <1>4, <1>5, <2>2 DEF LineInv
  <2> QED  BY <2>1, <2>2
<1>8. LineInv'
  BY <1>3, <1>4, <1>6, <1>7 DEF LineInv, Owner, t
<1> QED  BY <1>4, <1>5, <1>6, <1>8 DEF t, Owner
-----------------------------------------------------------------------------
(* Types                                                                   *)

Base == TypeOK /\ (~ahead => head.time <= now) /\ LineInv

\* The two ways to arm a timer.
LEMMA TimerTypes ==
  ASSUME TypeOK
  PROVE  /\ \A delay \in Nat : StartTimer(delay) =>
              /\ timer' \in Timers /\ lost' = lost /\ storm' \in Nat
              /\ timer' = [task |-> Try, due |-> now + delay]
         /\ \A height \in Nat : StartMissedBlockTimer(height) =>
              timer' \in Timers /\ lost' \in Seq(Timers)
<1>1. ASSUME NEW delay \in Nat, StartTimer(delay)
      PROVE  /\ timer' \in Timers /\ lost' = lost /\ storm' \in Nat
             /\ timer' = [task |-> Try, due |-> now + delay]
  BY <1>1, TimerMade DEF StartTimer, TypeOK, Try, Timeout
<1>2. ASSUME NEW height \in Nat, StartMissedBlockTimer(height)
      PROVE  timer' \in Timers /\ lost' \in Seq(Timers)
  <2>1. timer' \in Timers
    BY <1>2, TimerMade DEF StartMissedBlockTimer, TypeOK, Missed
  <2>2. lost' \in Seq(Timers)
    BY <1>2 DEF StartMissedBlockTimer, TypeOK
  <2> QED  BY <2>1, <2>2
<1> QED  BY <1>1, <1>2

\* In the calm a timer that is due at once is armed only with an empty line behind.
LEMMA TimerLater ==
  ASSUME TypeOK, queue # << >>, NEW delay \in Nat, StartTimer(delay), storm' = 0,
         Len(queue) # 1
  PROVE  delay > 0
<1>1. Len(queue) \in Nat /\ Len(queue) # 0 /\ storm \in Nat
  BY DEF TypeOK
<1>2. Len(queue) > 1
  BY <1>1
<1>3. storm + 1 # 0
  BY <1>1
<1>4. delay # 0
  BY <1>2, <1>3 DEF StartTimer
<1> QED  BY <1>4

\* The first timer, after start().
LEMMA FirstTimerTypes ==
  ASSUME Base, turn # "free", Owner.op = "start", FirstTimer
  PROVE  /\ timer' \in Timers /\ lost' = lost /\ storm' \in Nat
         /\ timer'.task = Try /\ timer'.due >= now
         /\ ~ahead => timer'.due >= head.time + ProdTime
         /\ storm' = 0 /\ Len(queue) # 1 => timer'.due > now
<1> DEFINE delay == IF Owner.later THEN ProdTime ELSE Schedule(head.time)
<1>1. delay \in Nat /\ (~ahead => now + delay >= head.time + ProdTime)
  <2>1. head.time \in Nat /\ now \in Nat /\ (~ahead => head.time <= now)
    BY DEF Base, TypeOK
  <2>2. /\ Schedule(head.time) \in Nat
        /\ ~ahead => now + Schedule(head.time) >= head.time + ProdTime
    BY <2>1, ScheduleBound
  <2>3. CASE Owner.later
    BY <2>1, <2>3
  <2>4. CASE ~Owner.later
    BY <2>2, <2>4
  <2> QED  BY <2>3, <2>4
<1>2. StartTimer(delay)
  BY DEF FirstTimer
<1> HIDE DEF delay
<1>3. /\ timer' \in Timers /\ lost' = lost /\ storm' \in Nat
      /\ timer' = [task |-> Try, due |-> now + delay]
  BY <1>1, <1>2, TimerTypes DEF Base
<1>4. storm' = 0 /\ Len(queue) # 1 => delay > 0
  <2>1. TypeOK /\ queue # << >> /\ delay \in Nat
    BY <1>1, OwnerIsFirst DEF Base
  <2> QED  BY <1>2, <2>1, TimerLater
<1> QED  BY <1>1, <1>3, <1>4 DEF Base, TypeOK

\* Every step keeps the types, the clock ahead of the head and the line.
LEMMA BaseStep == Base /\ [Next]_vars => Base'
<1> SUFFICES ASSUME Base, [Next]_vars PROVE Base'
  OBVIOUS
<1> USE DEF Base
<1>own. ASSUME turn # "free"
        PROVE  queue # << >> /\ Len(queue) >= 1 /\ Owner = queue[1] /\ Owner \in Tasks
  BY <1>own, OwnerIsFirst
<1>CallStart. CASE CallStart
  <2> PICK later \in BOOLEAN : Call([op |-> "start", later |-> later])
    BY <1>CallStart DEF CallStart
  <2> DEFINE t == [op |-> "start", later |-> later]
  <2>1. t \in Tasks /\ t.op = "start"
    BY DEF Tasks
  <2>2. Lock(t) /\ now' = now
    BY <1>CallStart DEF CallStart, Call
  <2> HIDE DEF t
  <2>3. LineInv' /\ queue' \in Seq(Tasks) /\ turn' \in {"fresh", "handed", "await"}
    BY <2>1, <2>2, LineLock, LockEffect
  <2> QED  BY <1>CallStart, <2>3 DEF TypeOK, CallStart, Call
<1>CallStop. CASE CallStop
  <2> DEFINE t == [op |-> "stop"]
  <2>1. t \in Tasks /\ t.op = "stop"
    BY DEF Tasks
  <2>2. Lock(t) /\ now' = now
    BY <1>CallStop DEF CallStop, Call
  <2> HIDE DEF t
  <2>3. LineInv' /\ queue' \in Seq(Tasks) /\ turn' \in {"fresh", "handed", "await"}
    BY <2>1, <2>2, LineLock, LockEffect
  <2> QED  BY <1>CallStop, <2>3 DEF TypeOK, CallStop, Call
<1>CallBlock. CASE CallBlock
  <2> PICK signer \in Minters \ {Self}, time \in 0..(now + MaxAhead), gap \in 1..2 :
         Call([op |-> "block", signer |-> signer, time |-> time,
               height |-> head.height + gap])
    BY <1>CallBlock DEF CallBlock
  <2> DEFINE t == [op |-> "block", signer |-> signer, time |-> time,
                   height |-> head.height + gap]
  <2>1. t \in Tasks /\ t.op = "block"
    BY DEF Tasks, TypeOK
  <2>2. Lock(t) /\ now' = now
    BY <1>CallBlock DEF CallBlock, Call
  <2> HIDE DEF t
  <2>3. LineInv' /\ queue' \in Seq(Tasks) /\ turn' \in {"fresh", "handed", "await"}
    BY <2>1, <2>2, LineLock, LockEffect
  <2> QED  BY <1>CallBlock, <2>3 DEF TypeOK, CallBlock, Call
<1>SyncBlock. CASE SyncBlock
  <2> PICK time \in {now, now + MaxAhead} : NewHead(head.height + 1, time)
    BY <1>SyncBlock DEF SyncBlock
  <2>1. time \in Nat /\ head.height \in Nat
    BY DEF TypeOK
  <2>2. head' \in [height : Nat, time : Nat] /\ ahead' \in BOOLEAN
    BY <2>1 DEF NewHead
  <2>3. ~ahead' => head'.time <= now
    BY <2>1 DEF NewHead, TypeOK
  <2>4. UNCHANGED << running, initd, queue, turn, timer, lost, missed, now >>
        /\ storm' \in Nat
    BY <1>SyncBlock DEF SyncBlock, TypeOK
  <2>5. TypeOK'
    BY <2>2, <2>4 DEF TypeOK
  <2>6. LineInv'
    BY <2>4 DEF LineInv, Owner
  <2> QED  BY <2>3, <2>4, <2>5, <2>6
<1>StartAgain. CASE StartAgain
  <2>1. turn # "free" /\ now' = now /\ Unlock
    BY <1>StartAgain DEF StartAgain, Owns, Awaits
  <2>2. LineInv' /\ queue' \in Seq(Tasks) /\ turn' \in {"free", "handed"}
    BY <2>1, LineUnlock
  <2> QED  BY <1>StartAgain, <2>2 DEF TypeOK, StartAgain
<1>StartBegin. CASE StartBegin
  <2>1. CASE initd
    <3>1. turn # "free" /\ now' = now /\ Unlock /\ FirstTimer /\ Owner.op = "start"
      BY <1>StartBegin, <2>1 DEF StartBegin, Owns
    <3>2. LineInv' /\ queue' \in Seq(Tasks) /\ turn' \in {"free", "handed"}
      BY <3>1, LineUnlock
    <3>3. timer' \in Timers /\ lost' = lost /\ storm' \in Nat
      BY <3>1, FirstTimerTypes
    <3> QED  BY <1>StartBegin, <3>2, <3>3 DEF TypeOK, StartBegin
  <2>2. CASE ~initd
    BY <1>StartBegin, <2>2 DEF TypeOK, StartBegin, Owns, Await, LineInv, Owner
  <2> QED  BY <2>1, <2>2
<1>StartEnd. CASE StartEnd
  <2>1. turn # "free" /\ now' = now /\ Unlock
    BY <1>StartEnd DEF StartEnd, Owns, Awaits
  <2>2. LineInv' /\ queue' \in Seq(Tasks) /\ turn' \in {"free", "handed"}
    BY <2>1, LineUnlock
  <2>3. timer' \in Timers /\ lost' = lost /\ storm' \in Nat
    BY <1>StartEnd, <2>1, FirstTimerTypes DEF StartEnd, Awaits
  <2> QED  BY <1>StartEnd, <2>2, <2>3 DEF TypeOK, StartEnd
<1>StartFails. CASE StartFails
  <2>1. turn # "free" /\ now' = now /\ Unlock
    BY <1>StartFails DEF StartFails, Owns, Awaits
  <2>2. LineInv' /\ queue' \in Seq(Tasks) /\ turn' \in {"free", "handed"}
    BY <2>1, LineUnlock
  <2> QED  BY <1>StartFails, <2>2 DEF TypeOK, StartFails
<1>Stop. CASE Stop
  <2>1. turn # "free" /\ now' = now /\ Unlock
    BY <1>Stop DEF Stop, Owns, Awaits
  <2>2. LineInv' /\ queue' \in Seq(Tasks) /\ turn' \in {"free", "handed"}
    BY <2>1, LineUnlock
  <2> QED  BY <1>Stop, <2>2 DEF TypeOK, Stop
<1>BlockRejected. CASE BlockRejected
  <2>1. turn # "free" /\ now' = now /\ Unlock
    BY <1>BlockRejected DEF BlockRejected, Owns, Awaits
  <2>2. LineInv' /\ queue' \in Seq(Tasks) /\ turn' \in {"free", "handed"}
    BY <2>1, LineUnlock
  <2> QED  BY <1>BlockRejected, <2>2 DEF TypeOK, BlockRejected
<1>BlockFails. CASE BlockFails
  <2>1. turn # "free" /\ now' = now /\ Unlock
    BY <1>BlockFails DEF BlockFails, Owns, Awaits
  <2>2. LineInv' /\ queue' \in Seq(Tasks) /\ turn' \in {"free", "handed"}
    BY <2>1, LineUnlock
  <2> QED  BY <1>BlockFails, <2>2 DEF TypeOK, BlockFails
<1>BlockWasThere. CASE BlockWasThere
  <2>1. turn # "free" /\ now' = now /\ Unlock
    BY <1>BlockWasThere DEF BlockWasThere, Owns, Awaits
  <2>2. LineInv' /\ queue' \in Seq(Tasks) /\ turn' \in {"free", "handed"}
    BY <2>1, LineUnlock
  <2> QED  BY <1>BlockWasThere, <2>2 DEF TypeOK, BlockWasThere
<1>BlockAccepted. CASE BlockAccepted
  BY <1>BlockAccepted DEF TypeOK, BlockAccepted, Owns, Await, LineInv, Owner
<1>BlockAdded. CASE BlockAdded
  <2>1. turn # "free" /\ now' = now /\ Unlock
    BY <1>BlockAdded DEF BlockAdded, Owns, Awaits
  <2>2. LineInv' /\ queue' \in Seq(Tasks) /\ turn' \in {"free", "handed"}
    BY <2>1, LineUnlock
  <2>3. Owner.time \in Nat /\ Owner.height \in Nat
    BY <1>BlockAdded, <1>own, TaskShape DEF BlockAdded, Awaits
  <2>4. /\ timer' \in Timers \union {NoTimer} /\ lost' = lost /\ storm' \in Nat
    BY <1>BlockAdded, <2>3, ScheduleBound, TimerTypes DEF BlockAdded, TypeOK
  <2>5. /\ head' \in [height : Nat, time : Nat] /\ ahead' \in BOOLEAN
        /\ ~ahead' => head'.time <= now'
    <3>1. NewHead(Owner.height, Owner.time) /\ now' = now /\ now \in Nat
      BY <1>BlockAdded DEF BlockAdded, TypeOK
    <3> HIDE DEF Base
    <3> QED  BY <2>3, <3>1 DEF NewHead
  <2> QED  BY <1>BlockAdded, <2>2, <2>4, <2>5 DEF TypeOK, BlockAdded
<1>MissedBlock. CASE MissedBlock
  <2>1. LineInv' /\ queue' \in Seq(Tasks) /\ turn' = "handed"
    BY <1>MissedBlock, LineMissed
  <2> QED  BY <1>MissedBlock, <2>1 DEF TypeOK, MissedBlock
<1>TryWaits. CASE TryWaits
  <2>1. turn # "free" /\ now' = now /\ Unlock
    BY <1>TryWaits DEF TryWaits, Owns, Awaits
  <2>2. LineInv' /\ queue' \in Seq(Tasks) /\ turn' \in {"free", "handed"}
    BY <2>1, LineUnlock
  <2>3. timer' \in Timers /\ lost' \in Seq(Timers)
    BY <1>TryWaits, TimerTypes DEF TryWaits, TypeOK
  <2> QED  BY <1>TryWaits, <2>2, <2>3 DEF TypeOK, TryWaits
<1>TryBegin. CASE TryBegin
  <2>1. LineInv' /\ queue' \in Seq(Tasks)
    BY <1>TryBegin, LineTry
  <2> QED  BY <1>TryBegin, <2>1 DEF TypeOK, TryBegin
<1>TryDone. CASE TryDone
  <2>1. turn # "free" /\ now' = now /\ Unlock
    BY <1>TryDone DEF TryDone, Owns, Awaits
  <2>2. LineInv' /\ queue' \in Seq(Tasks) /\ turn' \in {"free", "handed"}
    BY <2>1, LineUnlock
  <2>3. Owner.time \in Nat /\ Owner.height \in Nat /\ Owner.time <= now
    BY <1>TryDone, <1>own, TaskShape DEF TryDone, Awaits, LineInv
  <2>4. /\ timer' \in Timers /\ lost' \in Seq(Timers) /\ storm' \in Nat
    BY <1>TryDone, <2>3, ScheduleBound, TimerTypes DEF TryDone, TypeOK
  <2> QED  BY <1>TryDone, <2>2, <2>3, <2>4 DEF TypeOK, TryDone, NewHead
<1>TryFails. CASE TryFails
  <2>1. turn # "free" /\ now' = now /\ Unlock
    BY <1>TryFails DEF TryFails, Owns, Awaits
  <2>2. LineInv' /\ queue' \in Seq(Tasks) /\ turn' \in {"free", "handed"}
    BY <2>1, LineUnlock
  <2>3. Owner.height \in Nat
    BY <1>TryFails, <1>own, TaskShape DEF TryFails, Awaits
  <2>4. timer' \in Timers /\ lost' \in Seq(Timers)
    BY <1>TryFails, <2>3, TimerTypes DEF TryFails
  <2> QED  BY <1>TryFails, <2>2, <2>4 DEF TypeOK, TryFails
<1>FireTimer. CASE FireTimer
  <2>1. timer \in Timers /\ Lock(timer.task) /\ now' = now
    BY <1>FireTimer DEF FireTimer, TypeOK
  <2>2. timer.task \in Tasks /\ timer.task.op \in {"try", "missed"}
    BY <2>1, TimerShape
  <2>3. LineInv' /\ queue' \in Seq(Tasks) /\ turn' \in {"fresh", "handed", "await"}
    BY <2>1, <2>2, LineLock, LockEffect
  <2> QED  BY <1>FireTimer, <2>3 DEF TypeOK, FireTimer
<1>FireLost. CASE FireLost
  <2> PICK i \in 1..Len(lost) : Lock(lost[i].task) /\ lost' = RemoveAt(lost, i)
    BY <1>FireLost DEF FireLost
  <2>1. lost[i] \in Timers /\ now' = now
    BY <1>FireLost DEF FireLost, TypeOK
  <2>2. lost[i].task \in Tasks /\ lost[i].task.op \in {"try", "missed"}
    BY <2>1, TimerShape
  <2>3. LineInv' /\ queue' \in Seq(Tasks) /\ turn' \in {"fresh", "handed", "await"}
    BY <2>1, <2>2, LineLock, LockEffect
  <2>4. lost' \in Seq(Timers)
    BY DEF RemoveAt, TypeOK
  <2> QED  BY <1>FireLost, <2>3, <2>4 DEF TypeOK, FireLost
<1>Tick. CASE Tick
  <2>1. TypeOK' /\ (~ahead' => head.time' <= now')
    BY <1>Tick DEF Tick, TypeOK
  <2>2. ASSUME NEW i \in 1..Len(queue), queue[i].op = "produce"
        PROVE  queue[i].time <= now + 1
    <3>1. queue[i] \in Tasks /\ now \in Nat
      BY DEF TypeOK
    <3>2. queue[i].time \in Nat /\ queue[i].time <= now
      BY <2>2, <3>1, TaskShape DEF LineInv
    <3> QED  BY <3>1, <3>2
  <2> QED  BY <1>Tick, <2>1, <2>2 DEF Tick, LineInv, Owner
<1>same. CASE UNCHANGED vars
  BY <1>same DEF vars, TypeOK, LineInv, Owner
<1> QED
  BY <1>CallStart, <1>CallStop, <1>CallBlock, <1>SyncBlock, <1>StartAgain, <1>StartBegin,
     <1>StartEnd, <1>StartFails, <1>Stop, <1>BlockRejected, <1>BlockAccepted, <1>BlockAdded,
     <1>BlockFails, <1>MissedBlock, <1>BlockWasThere, <1>TryWaits, <1>TryBegin, <1>TryDone,
     <1>TryFails, <1>FireTimer, <1>FireLost, <1>Tick, <1>same DEF Next, Task
-----------------------------------------------------------------------------
(* The calm                                                                *)

\* What the calm promises, in one piece.
CalmInv ==
  /\ TimerInv
  /\ PaceInv
  /\ running => timer # NoTimer \/ AttemptRuns \/ Arming
  /\ ~running => timer = NoTimer /\ \A i \in 1..Len(queue) : ~IsAttempt(queue[i])
  /\ ~ahead /\ missed > 0 => missed <= now - head.time - ProdTime

LEMMA InvSplit == ProducerInv <=> Base /\ (Calm => CalmInv)
PROOF BY DEF ProducerInv, Base, CalmInv, NeverStalls, StoppedIsQuiet, MissedIsPaced

\* A new task that is no attempt, with the timers as they are.
LEMMA CalmCall ==
  ASSUME NEW t \in Tasks, Base, CalmInv, Lock(t), ~IsAttempt(t),
         UNCHANGED << running, timer, lost, missed, head, now, ahead >>
  PROVE  CalmInv'
<1> USE DEF Base
<1>1. queue \in Seq(Tasks) /\ Len(queue) \in Nat /\ (queue = << >> <=> Len(queue) = 0)
  BY DEF TypeOK
<1>2. /\ queue' \in Seq(Tasks) /\ queue' # << >>
      /\ Len(queue') = Len(queue) + 1
      /\ \A i \in 1..Len(queue) : queue'[i] = queue[i]
      /\ queue'[Len(queue) + 1] = t
      /\ turn # "fresh"
      /\ queue = << >> => turn' = "fresh" /\ queue'[1] = t
      /\ queue # << >> => turn' = turn /\ queue'[1] = queue[1]
      /\ Head(queue') = queue'[1]
  BY LockEffect
<1>3. queue # << >> => Owner' = Owner
  BY <1>1, <1>2 DEF Owner
<1>4. AttemptRuns' <=> AttemptRuns
  BY <1>2, <1>3 DEF AttemptRuns, Owner, IsAttempt
<1>5. \A i \in 1..Len(queue') : IsAttempt(queue'[i]) => i \in 1..Len(queue)
        /\ IsAttempt(queue[i])
  <2> SUFFICES ASSUME NEW i \in 1..Len(queue'), IsAttempt(queue'[i])
               PROVE  i \in 1..Len(queue) /\ IsAttempt(queue[i])
    OBVIOUS
  <2>1. i # Len(queue) + 1
    BY <1>2 DEF IsAttempt
  <2>2. i \in 1..Len(queue)
    BY <1>1, <1>2, <2>1
  <2> QED  BY <1>2, <2>2
<1>6. Arming => Arming'
  BY <1>2, <1>3 DEF Arming, Awaits, LineInv
<1>7. TimerInv'
  <2>1. turn' = "await" => turn = "await"
    BY <1>2
  <2>2. turn' = "handed" => turn = "handed"
    BY <1>2
  <2>3. AttemptRuns => Owner' = Owner
    BY <1>3 DEF AttemptRuns
  <2>4. \A i \in 1..Len(queue') : IsAttempt(queue'[i]) => i = 1
    BY <1>5 DEF CalmInv, TimerInv
  <2>5. AttemptRuns => Owner.op # "missed"
    BY <1>2 DEF CalmInv, TimerInv
  <2>6. /\ Awaits("start")' => Awaits("start")
        /\ Awaits("block")' => Awaits("block") /\ Owner' = Owner
    BY <1>2, <1>3 DEF Awaits
  <2> QED  BY <1>4, <2>1, <2>2, <2>3, <2>4, <2>5, <2>6 DEF CalmInv, TimerInv
<1>8. PaceInv'
  <2>1. Awaits("block")' => Awaits("block") /\ Owner' = Owner
    BY <1>2, <1>3 DEF Awaits
  <2> QED  BY <1>3, <1>4, <2>1 DEF CalmInv, PaceInv, AttemptRuns
<1> QED  BY <1>4, <1>5, <1>6, <1>7, <1>8 DEF CalmInv

\* When the owner leaves, no attempt is left in the line.
LEMMA CalmUnlock ==
  ASSUME Base, TimerInv, turn # "free", Unlock
  PROVE  /\ \A i \in 1..Len(queue') : ~IsAttempt(queue'[i])
         /\ ~AttemptRuns'
         /\ turn' \in {"free", "handed"}
         /\ turn' = "handed" => Len(queue) # 1
<1> USE DEF Base
<1>1. queue # << >> /\ queue \in Seq(Tasks)
  BY DEF TypeOK, LineInv
<1>2. /\ queue' \in Seq(Tasks)
      /\ Len(queue') = Len(queue) - 1
      /\ \A i \in 1..Len(queue') : queue'[i] = queue[i + 1]
      /\ turn' \in {"free", "handed"}
      /\ turn' = "free" <=> queue' = << >>
      /\ Len(queue) = 1 <=> queue' = << >>
  BY <1>1, UnlockEffect
<1>3. ASSUME NEW i \in 1..Len(queue') PROVE ~IsAttempt(queue'[i])
  <2>1. i + 1 \in 1..Len(queue) /\ i + 1 # 1
    BY <1>1, <1>2
  <2> QED  BY <1>2, <2>1 DEF TimerInv
<1>4. ~AttemptRuns'
  BY <1>2, <1>3 DEF AttemptRuns, Owner
<1> QED  BY <1>2, <1>3, <1>4

\* No disturbance is undone.
LEMMA CalmBefore ==
  ASSUME Base, [Next]_vars, Calm'
  PROVE  Calm
<1> USE DEF Base
<1>0. storm \in Nat
  BY DEF TypeOK
<1>1. CASE CallStart \/ CallStop \/ CallBlock \/ SyncBlock
  <2>1. (\E t : Call(t)) \/ SyncBlock
    BY <1>1 DEF CallStart, CallStop, CallBlock
  <2>2. ASSUME NEW t, Call(t) PROVE storm = 0
    BY <1>0, <2>2 DEF Call, Calm
  <2>3. ~SyncBlock
    BY <1>0 DEF SyncBlock, Calm
  <2> QED  BY <2>1, <2>2, <2>3 DEF Calm
<1>2. CASE StartBegin \/ StartEnd \/ BlockAdded \/ TryDone
  BY <1>0, <1>2 DEF StartBegin, StartEnd, BlockAdded, TryDone, FirstTimer, StartTimer, Calm
<1>3. CASE StartFails \/ BlockFails
  BY <1>0, <1>3 DEF StartFails, BlockFails, Calm
<1>4. CASE StartAgain \/ Stop \/ BlockRejected \/ BlockAccepted \/ MissedBlock \/ BlockWasThere
  BY <1>4 DEF StartAgain, Stop, BlockRejected, BlockAccepted, MissedBlock, BlockWasThere, Calm
<1>5. CASE TryWaits \/ TryBegin \/ TryFails \/ FireTimer \/ FireLost \/ Tick \/ UNCHANGED vars
  BY <1>5 DEF TryWaits, TryBegin, TryFails, FireTimer, FireLost, Tick, vars, Calm
<1> QED
  BY <1>1, <1>2, <1>3, <1>4, <1>5 DEF Next, Task

\* In the calm every step keeps what the calm promises.
LEMMA CalmStep ==
  ASSUME Base, Calm, CalmInv, Next, Base', Calm'
  PROVE  CalmInv'
<1>len. queue # << >> => Len(queue) \in Nat /\ Len(queue) >= 1 /\ 1 \in 1..Len(queue)
          /\ Owner = queue[1]
  BY DEF Base, TypeOK, Owner
<1>calls. CASE CallStart \/ CallStop \/ CallBlock
  <2>1. PICK t \in Tasks : Lock(t) /\ t.op \in {"start", "stop", "block"}
    <3>1. CASE CallStart
      BY <3>1 DEF CallStart, Call, Tasks
    <3>2. CASE CallStop
      BY <3>2 DEF CallStop, Call, Tasks
    <3>3. CASE CallBlock
      <4> PICK signer \in Minters \ {Self}, time \in 0..(now + MaxAhead), gap \in 1..2 :
             Call([op |-> "block", signer |-> signer, time |-> time,
                   height |-> head.height + gap])
        BY <3>3 DEF CallBlock
      <4>1. [op |-> "block", signer |-> signer, time |-> time,
             height |-> head.height + gap] \in Tasks
        BY SMTT(30) DEF Tasks, Base, TypeOK
      <4> QED  BY <4>1 DEF Call
    <3> QED  BY <1>calls, <3>1, <3>2, <3>3
  <2>2. ~IsAttempt(t)
    BY <2>1 DEF IsAttempt
  <2>3. UNCHANGED << running, timer, lost, missed, head, now, ahead >>
    BY <1>calls DEF CallStart, CallStop, CallBlock
  <2> QED  BY <2>1, <2>2, <2>3, CalmCall
<1>noise. CASE SyncBlock \/ StartFails \/ BlockFails
  BY <1>noise DEF SyncBlock, StartFails, BlockFails, Calm
<1>StartAgain. CASE StartAgain
  <2>1. turn # "free" /\ Unlock /\ queue # << >> /\ Owner = queue[1]
    BY <1>StartAgain, OwnerIsFirst DEF StartAgain, Owns, Awaits, Base
  <2>2. /\ \A i \in 1..Len(queue') : ~IsAttempt(queue'[i])
        /\ ~AttemptRuns' /\ ~Arming' /\ ~Awaits("start")' /\ ~Awaits("block")'
        /\ turn' \in {"free", "handed"}
        /\ turn' = "handed" => Len(queue) # 1
    BY <2>1, CalmUnlock DEF CalmInv, Arming, Awaits
  <2>3. ~AttemptRuns /\ ~Arming
    BY <1>StartAgain DEF StartAgain, Owns, AttemptRuns, IsAttempt, Arming, Awaits
  <2>4. turn' = "handed" => turn = "handed"
    BY <1>StartAgain, <2>2 DEF StartAgain, Owns, Base, LineInv
  <2> QED  BY <1>StartAgain, <2>2, <2>3, <2>4 DEF StartAgain, CalmInv, TimerInv, PaceInv
<1>StartBegin. CASE StartBegin
  <2>0. timer = NoTimer /\ running' /\ \A i \in 1..Len(queue) : ~IsAttempt(queue[i])
    BY <1>StartBegin DEF StartBegin, CalmInv
  <2>a. CASE initd
    <3>1. turn # "free" /\ Unlock /\ FirstTimer /\ Owner.op = "start"
      BY <1>StartBegin, <2>a DEF StartBegin, Owns
    <3>2. /\ \A i \in 1..Len(queue') : ~IsAttempt(queue'[i])
          /\ ~AttemptRuns' /\ ~Arming' /\ ~Awaits("start")' /\ ~Awaits("block")'
          /\ turn' \in {"free", "handed"}
          /\ turn' = "handed" => Len(queue) # 1
      BY <3>1, CalmUnlock DEF CalmInv, Arming, Awaits
    <3>3. /\ timer' \in Timers /\ lost' = lost
          /\ timer'.task = Try /\ timer'.due >= now
          /\ ~ahead => timer'.due >= head.time + ProdTime
          /\ Len(queue) # 1 => timer'.due > now
      BY <3>1, FirstTimerTypes DEF Calm
    <3>4. ~ahead => timer'.due >= head.time + ProdTime + missed
      BY <3>3, TimerShape, SMTT(30) DEF CalmInv, Base, TypeOK
    <3>5. timer' # NoTimer
      BY <3>3, NoTimerAssumption
    <3> QED
      BY <1>StartBegin, <2>0, <3>2, <3>3, <3>4, <3>5
      DEF StartBegin, CalmInv, TimerInv, PaceInv, Try
  <2>b. CASE ~initd
    <3>1. turn' = "await" /\ queue' = queue /\ timer' = timer /\ lost' = lost /\ Owner' = Owner
      BY <1>StartBegin, <2>b DEF StartBegin, Await, Owner
    <3>2. Arming' /\ queue # << >> /\ ~AttemptRuns' /\ ~Awaits("block")'
      BY <1>StartBegin, <3>1
      DEF StartBegin, Owns, Arming, Awaits, AttemptRuns, IsAttempt, Base, LineInv
    <3> QED
      BY <1>StartBegin, <2>0, <3>1, <3>2 DEF StartBegin, CalmInv, TimerInv, PaceInv
  <2> QED  BY <2>a, <2>b
<1>StartEnd. CASE StartEnd
  <2>1. turn # "free" /\ Unlock /\ queue # << >> /\ Owner = queue[1]
    BY <1>StartEnd, OwnerIsFirst DEF StartEnd, Owns, Awaits, Base
  <2>2. /\ \A i \in 1..Len(queue') : ~IsAttempt(queue'[i])
        /\ ~AttemptRuns' /\ ~Arming' /\ ~Awaits("start")' /\ ~Awaits("block")'
        /\ turn' \in {"free", "handed"}
        /\ turn' = "handed" => Len(queue) # 1
    BY <2>1, CalmUnlock DEF CalmInv, Arming, Awaits
  <2>3. running /\ ~AttemptRuns
    BY <1>StartEnd DEF StartEnd, Awaits, CalmInv, TimerInv, AttemptRuns, IsAttempt
  <2>4. /\ timer' \in Timers /\ lost' = lost
        /\ timer'.task = Try /\ timer'.due >= now
        /\ ~ahead => timer'.due >= head.time + ProdTime
        /\ Len(queue) # 1 => timer'.due > now
    BY <1>StartEnd, <2>1, FirstTimerTypes DEF Calm, StartEnd, Awaits
  <2>5. ~ahead => timer'.due >= head.time + ProdTime + missed
    BY <2>4, TimerShape, SMTT(30) DEF CalmInv, Base, TypeOK
  <2>6. timer' # NoTimer
    BY <2>4, NoTimerAssumption
  <2> QED
    BY <1>StartEnd, <2>2, <2>3, <2>4, <2>5, <2>6 DEF StartEnd, CalmInv, TimerInv, PaceInv, Try
<1>Stop. CASE Stop
  <2>1. turn # "free" /\ Unlock /\ queue # << >> /\ Owner = queue[1]
    BY <1>Stop, OwnerIsFirst DEF Stop, Owns, Awaits, Base
  <2>2. /\ \A i \in 1..Len(queue') : ~IsAttempt(queue'[i])
        /\ ~AttemptRuns' /\ ~Arming' /\ ~Awaits("start")' /\ ~Awaits("block")'
        /\ turn' \in {"free", "handed"}
        /\ turn' = "handed" => Len(queue) # 1
    BY <2>1, CalmUnlock DEF CalmInv, Arming, Awaits
  <2> QED  BY <1>Stop, <2>2 DEF Stop, CalmInv, TimerInv, PaceInv
<1>BlockRejected. CASE BlockRejected
  <2>1. turn # "free" /\ Unlock /\ queue # << >> /\ Owner = queue[1]
    BY <1>BlockRejected, OwnerIsFirst DEF BlockRejected, Owns, Awaits, Base
  <2>2. /\ \A i \in 1..Len(queue') : ~IsAttempt(queue'[i])
        /\ ~AttemptRuns' /\ ~Arming' /\ ~Awaits("start")' /\ ~Awaits("block")'
        /\ turn' \in {"free", "handed"}
        /\ turn' = "handed" => Len(queue) # 1
    BY <2>1, CalmUnlock DEF CalmInv, Arming, Awaits
  <2>3. ~AttemptRuns /\ ~Arming
    BY <1>BlockRejected DEF BlockRejected, Owns, AttemptRuns, IsAttempt, Arming, Awaits
  <2>4. turn' = "handed" => turn = "handed"
    BY <1>BlockRejected, <2>2 DEF BlockRejected, Owns, Base, LineInv
  <2> QED  BY <1>BlockRejected, <2>2, <2>3, <2>4 DEF BlockRejected, CalmInv, TimerInv, PaceInv
<1>BlockAccepted. CASE BlockAccepted
  <2>1. turn' = "await" /\ queue' = queue /\ timer' = NoTimer /\ lost' = lost /\ Owner' = Owner
    BY <1>BlockAccepted DEF BlockAccepted, Await, Owner
  <2>2. Arming' /\ ~AttemptRuns' /\ ~Awaits("start")'
    BY <1>BlockAccepted, <2>1 DEF BlockAccepted, Owns, Arming, Awaits, AttemptRuns, IsAttempt
  <2>3. Owner'.time >= head.time + ProdTime
    <3>1. Owner.op = "block" /\ Owner.time - head.time >= ProdTime
      BY <1>BlockAccepted DEF BlockAccepted, Owns, Acceptable
    <3>2. Owner.time \in Nat
      BY <1>BlockAccepted, <3>1, OwnerIsFirst, TaskShape DEF BlockAccepted, Owns, Base
    <3> QED  BY <2>1, <3>1, <3>2 DEF Base, TypeOK
  <2> QED
    BY <1>BlockAccepted, <2>1, <2>2, <2>3 DEF BlockAccepted, CalmInv, TimerInv, PaceInv
<1>BlockAdded. CASE BlockAdded
  <2>1. turn # "free" /\ Unlock /\ queue # << >> /\ Owner = queue[1]
    BY <1>BlockAdded, OwnerIsFirst DEF BlockAdded, Owns, Awaits, Base
  <2>2. /\ \A i \in 1..Len(queue') : ~IsAttempt(queue'[i])
        /\ ~AttemptRuns' /\ ~Arming' /\ ~Awaits("start")' /\ ~Awaits("block")'
        /\ turn' \in {"free", "handed"}
        /\ turn' = "handed" => Len(queue) # 1
    BY <2>1, CalmUnlock DEF CalmInv, Arming, Awaits
  <2>3. Owner.time \in Nat /\ Owner \in Tasks
    BY <1>BlockAdded, <2>1, <1>len, OwnerIsFirst, TaskShape
    DEF BlockAdded, Awaits, Base, LineInv
  <2>4. timer = NoTimer
    BY <1>BlockAdded DEF BlockAdded, Awaits, CalmInv, TimerInv
  <2>5. CASE ~running
    BY <1>BlockAdded, <2>2, <2>4, <2>5 DEF BlockAdded, NewHead, CalmInv, TimerInv, PaceInv
  <2>6. CASE running
    <3>1. /\ Schedule(Owner.time) \in Nat
          /\ ~ahead' => now + Schedule(Owner.time) >= Owner.time + ProdTime
      BY <1>BlockAdded, <2>3, ScheduleBound DEF BlockAdded, NewHead, Base, TypeOK
    <3>2. /\ timer' \in Timers /\ lost' = lost
          /\ timer' = [task |-> Try, due |-> now + Schedule(Owner.time)]
      BY <1>BlockAdded, <2>6, <3>1, TimerTypes DEF BlockAdded, Base
    <3>3. Len(queue) # 1 => Schedule(Owner.time) > 0
      <4>1. StartTimer(Schedule(Owner.time)) /\ storm' = 0
        BY <1>BlockAdded, <2>6 DEF BlockAdded, Calm
      <4>2. TypeOK /\ Schedule(Owner.time) \in Nat
        BY <3>1 DEF Base
      <4> QED  BY <2>1, <4>1, <4>2, TimerLater
    <3>4. timer' # NoTimer
      BY <3>2, NoTimerAssumption
    <3> QED
      BY <1>BlockAdded, <2>2, <2>3, <2>6, <3>1, <3>2, <3>3, <3>4, SMTT(30)
      DEF BlockAdded, NewHead, CalmInv, TimerInv, PaceInv, Try, Base, TypeOK
  <2> QED  BY <2>5, <2>6
<1>MissedBlock. CASE MissedBlock
  <2>1. queue # << >> /\ AttemptRuns /\ Owner.op = "missed"
    BY <1>MissedBlock, OwnerIsFirst DEF MissedBlock, Owns, AttemptRuns, IsAttempt, Base
  <2>2. Len(queue) = 1 /\ timer = NoTimer /\ running
    BY <1>len, <2>1 DEF Base, LineInv, CalmInv, TimerInv, AttemptRuns
  <2>3. ~ahead => now > head.time + ProdTime + missed
    BY <2>1 DEF CalmInv, PaceInv
  <2>4. /\ queue' \in Seq(Tasks) /\ queue' # << >> /\ turn' = "handed"
        /\ Len(queue') = 1 /\ queue'[1] = Try
    BY <1>MissedBlock, <2>2, LineMissed DEF Base
  <2>5. Owner' = Try
    BY <2>4 DEF Owner
  <2>6. Len(queue') = 1 /\ Owner' = Try /\ AttemptRuns'
    BY <2>4, <2>5 DEF AttemptRuns, IsAttempt, Try
  <2>7. ~ahead => now >= head.time + ProdTime + (missed + 1)
    BY <2>3, SMTT(30) DEF Base, TypeOK
  <2>8. TimerInv'
    <3>1. lost' = lost /\ timer' = NoTimer /\ running' /\ lost = << >>
      BY <1>MissedBlock, <2>2 DEF MissedBlock, CalmInv, TimerInv
    <3>2. Owner'.op = "try" /\ ~Awaits("start")' /\ ~Awaits("block")'
      BY <2>4, <2>6 DEF Try, Awaits
    <3>3. \A i \in 1..Len(queue') : i = 1
      BY <2>6
    <3> QED  BY <2>6, <3>1, <3>2, <3>3 DEF TimerInv
  <2>9. PaceInv'
    BY <1>MissedBlock, <2>2, <2>4, <2>6, <2>7 DEF MissedBlock, PaceInv, Try, Awaits
  <2>10. ~ahead /\ missed' > 0 => missed' <= now' - head'.time - ProdTime
    BY <1>MissedBlock, <2>7 DEF MissedBlock, Base, TypeOK
  <2> QED
    BY <1>MissedBlock, <2>2, <2>6, <2>8, <2>9, <2>10 DEF MissedBlock, CalmInv
<1>BlockWasThere. CASE BlockWasThere
  <2>1. AttemptRuns /\ Owner.op = "missed"
    BY <1>BlockWasThere, OwnerIsFirst DEF BlockWasThere, Owns, AttemptRuns, IsAttempt, Base
  <2> QED  BY <1>BlockWasThere, <2>1 DEF BlockWasThere, CalmInv, TimerInv, Base, TypeOK
<1>TryWaits. CASE TryWaits
  <2>1. turn # "free" /\ Unlock /\ queue # << >> /\ Owner = queue[1]
    BY <1>TryWaits, OwnerIsFirst DEF TryWaits, Owns, Awaits, Base
  <2>2. /\ \A i \in 1..Len(queue') : ~IsAttempt(queue'[i])
        /\ ~AttemptRuns' /\ ~Arming' /\ ~Awaits("start")' /\ ~Awaits("block")'
        /\ turn' \in {"free", "handed"}
        /\ turn' = "handed" => Len(queue) # 1
    BY <2>1, CalmUnlock DEF CalmInv, Arming, Awaits
  <2>3. AttemptRuns /\ timer = NoTimer /\ running
    BY <1>TryWaits, <2>1, <1>len
    DEF TryWaits, Owns, AttemptRuns, IsAttempt, CalmInv, TimerInv
  <2>4. ~ahead => now >= head.time + ProdTime + missed
    BY <2>3 DEF CalmInv, PaceInv
  <2>5. timer' = [task |-> Missed(head.height + 1), due |-> now + 1] /\ lost' = lost
    BY <1>TryWaits, <2>3 DEF TryWaits, StartMissedBlockTimer, Timeout
  <2>6. timer' # NoTimer
    BY <1>TryWaits, <2>5, NoTimerAssumption, TimerTypes DEF TryWaits, Base, TypeOK
  <2>7. (~ahead => timer'.due > head.time + ProdTime + missed) /\ timer'.due > now
    BY <2>4, <2>5, SMTT(30) DEF Base, TypeOK
  <2> QED
    BY <1>TryWaits, <2>2, <2>3, <2>5, <2>6, <2>7
    DEF TryWaits, CalmInv, TimerInv, PaceInv, Missed, Base, TypeOK
<1>TryBegin. CASE TryBegin
  <2>1. turn # "free" /\ queue # << >> /\ Owner.op = "try"
    BY <1>TryBegin, OwnerIsFirst DEF TryBegin, Owns, Base
  <2>2. /\ queue' # << >> /\ Len(queue') = Len(queue)
        /\ \A i \in 2..Len(queue) : queue'[i] = queue[i]
        /\ Owner' = [op |-> "produce", time |-> now, height |-> head.height + 1]
    BY <1>TryBegin, LineTry DEF Base
  <2>3. AttemptRuns /\ timer = NoTimer /\ running
    BY <2>1, <1>len DEF AttemptRuns, IsAttempt, CalmInv, TimerInv
  <2>4. ~ahead => now >= head.time + ProdTime + missed /\ now >= head.time + ProdTime
    BY <2>3, SMTT(30) DEF CalmInv, PaceInv, Base, TypeOK
  <2>5. \A i \in 1..Len(queue') : IsAttempt(queue'[i]) => i = 1
    BY <2>2, <1>len, <2>1 DEF CalmInv, TimerInv
  <2>6. AttemptRuns' /\ ~Awaits("start")' /\ ~Awaits("block")'
    BY <2>2 DEF AttemptRuns, IsAttempt, Awaits
  <2> QED
    BY <1>TryBegin, <2>2, <2>3, <2>4, <2>5, <2>6 DEF TryBegin, CalmInv, TimerInv, PaceInv
<1>TryDone. CASE TryDone
  <2>1. turn # "free" /\ Unlock /\ queue # << >> /\ Owner = queue[1]
    BY <1>TryDone, OwnerIsFirst DEF TryDone, Owns, Awaits, Base
  <2>2. /\ \A i \in 1..Len(queue') : ~IsAttempt(queue'[i])
        /\ ~AttemptRuns' /\ ~Arming' /\ ~Awaits("start")' /\ ~Awaits("block")'
        /\ turn' \in {"free", "handed"}
        /\ turn' = "handed" => Len(queue) # 1
    BY <2>1, CalmUnlock DEF CalmInv, Arming, Awaits
  <2>3. AttemptRuns /\ timer = NoTimer /\ running
    BY <1>TryDone, <2>1, <1>len
    DEF TryDone, Awaits, AttemptRuns, IsAttempt, CalmInv, TimerInv
  <2>4. Owner.time \in Nat /\ Owner.time <= now /\ Owner \in Tasks
    BY <1>TryDone, <2>1, <1>len, OwnerIsFirst, TaskShape DEF TryDone, Awaits, Base, LineInv
  <2>5. Schedule(Owner.time) \in Nat /\ now + Schedule(Owner.time) >= Owner.time + ProdTime
    BY <2>4, ScheduleBound DEF Base, TypeOK
  <2>6. /\ timer' \in Timers /\ lost' = lost
        /\ timer' = [task |-> Try, due |-> now + Schedule(Owner.time)]
    BY <1>TryDone, <2>3, <2>5, TimerTypes DEF TryDone, Base
  <2>7. Len(queue) # 1 => Schedule(Owner.time) > 0
    <3>1. StartTimer(Schedule(Owner.time)) /\ storm' = 0
      BY <1>TryDone, <2>3 DEF TryDone, Calm
    <3>2. TypeOK /\ Schedule(Owner.time) \in Nat
      BY <2>5 DEF Base
    <3> QED  BY <2>1, <3>1, <3>2, TimerLater
  <2>8. timer' # NoTimer
    BY <2>6, NoTimerAssumption
  <2> QED
    BY <1>TryDone, <2>2, <2>3, <2>4, <2>5, <2>6, <2>7, <2>8, SMTT(30)
    DEF TryDone, NewHead, CalmInv, TimerInv, PaceInv, Try, Base, TypeOK
<1>TryFails. CASE TryFails
  <2>1. turn # "free" /\ Unlock /\ queue # << >> /\ Owner = queue[1]
    BY <1>TryFails, OwnerIsFirst DEF TryFails, Owns, Awaits, Base
  <2>2. /\ \A i \in 1..Len(queue') : ~IsAttempt(queue'[i])
        /\ ~AttemptRuns' /\ ~Arming' /\ ~Awaits("start")' /\ ~Awaits("block")'
        /\ turn' \in {"free", "handed"}
        /\ turn' = "handed" => Len(queue) # 1
    BY <2>1, CalmUnlock DEF CalmInv, Arming, Awaits
  <2>3. AttemptRuns /\ timer = NoTimer /\ running /\ Owner.height = head.height + 1
    BY <1>TryFails, <2>1, <1>len
    DEF TryFails, Awaits, AttemptRuns, IsAttempt, CalmInv, TimerInv
  <2>4. ~ahead => now >= head.time + ProdTime + missed
    BY <2>3 DEF CalmInv, PaceInv
  <2>5. timer' = [task |-> Missed(head.height + 1), due |-> now + 1] /\ lost' = lost
    BY <1>TryFails, <2>3 DEF TryFails, StartMissedBlockTimer, Timeout
  <2>6. timer' # NoTimer
    BY <1>TryFails, <2>5, NoTimerAssumption, TimerTypes, <2>3 DEF TryFails, Base, TypeOK
  <2>7. (~ahead => timer'.due > head.time + ProdTime + missed) /\ timer'.due > now
    BY <2>4, <2>5, SMTT(30) DEF Base, TypeOK
  <2> QED
    BY <1>TryFails, <2>2, <2>3, <2>5, <2>6, <2>7
    DEF TryFails, CalmInv, TimerInv, PaceInv, Missed, Base, TypeOK
<1>FireTimer. CASE FireTimer
  <2>1. /\ timer \in Timers /\ timer # NoTimer /\ Lock(timer.task) /\ timer.due <= now
        /\ timer' = NoTimer
    BY <1>FireTimer DEF FireTimer, Base, TypeOK
  <2>2. timer.task \in Tasks /\ IsAttempt(timer.task) /\ timer.due \in Nat
        /\ timer.task.op \in {"try", "missed"}
    BY <2>1, TimerShape DEF IsAttempt
  <2>3. turn = "free" /\ queue = << >>
    BY <2>1, <2>2 DEF CalmInv, TimerInv, Lock, Base, TypeOK, LineInv
  <2>4. running
    BY <2>1 DEF CalmInv
  <2>5. queue' = << timer.task >> /\ turn' = "fresh"
    BY <2>1, <2>2, <2>3 DEF Lock
  <2>6. Len(queue') = 1 /\ Owner' = timer.task /\ AttemptRuns'
    BY <2>2, <2>5 DEF Owner, AttemptRuns, IsAttempt
  <2>7. TimerInv'
    BY <1>FireTimer, <2>1, <2>2, <2>5, <2>6 DEF FireTimer, CalmInv, TimerInv, Awaits
  <2>8. PaceInv'
    BY <1>FireTimer, <2>1, <2>2, <2>5, <2>6
    DEF FireTimer, CalmInv, PaceInv, Base, TypeOK, Awaits
  <2> QED  BY <1>FireTimer, <2>4, <2>6, <2>7, <2>8 DEF FireTimer, CalmInv
<1>FireLost. CASE FireLost
  BY <1>FireLost DEF FireLost, CalmInv, TimerInv
<1>Tick. CASE Tick
  <2>1. Owner' = Owner /\ (AttemptRuns' <=> AttemptRuns) /\ (Arming' <=> Arming)
        /\ (Awaits("start")' <=> Awaits("start")) /\ (Awaits("block")' <=> Awaits("block"))
    BY <1>Tick DEF Tick, Owner, AttemptRuns, IsAttempt, Arming, Awaits
  <2>2. turn' # "handed" /\ turn' # "fresh" /\ now' = now + 1
    BY <1>Tick DEF Tick
  <2>3. AttemptRuns => Owner.op # "missed"
    BY <1>Tick DEF Tick, CalmInv, TimerInv
  <2>4. TimerInv'
    BY <1>Tick, <2>1, <2>2, <2>3 DEF Tick, CalmInv, TimerInv
  <2>5. PaceInv'
    BY <1>Tick, <2>1, <2>2, <2>3 DEF Tick, CalmInv, PaceInv, Base, TypeOK
  <2> QED  BY <1>Tick, <2>1, <2>2, <2>4, <2>5 DEF Tick, CalmInv, Base, TypeOK
<1> QED
  BY <1>calls, <1>noise, <1>StartAgain, <1>StartBegin, <1>StartEnd, <1>Stop, <1>BlockRejected,
     <1>BlockAccepted, <1>BlockAdded, <1>MissedBlock, <1>BlockWasThere, <1>TryWaits,
     <1>TryBegin, <1>TryDone, <1>TryFails, <1>FireTimer, <1>FireLost, <1>Tick
  DEF Next, Task

-----------------------------------------------------------------------------
(* The theorems                                                            *)

\* The line of the lock, the timers, the pace of missed blocks and the silence
\* after stop() in every reachable state: production neither stalls nor doubles
\* as long as nothing disturbs it.
THEOREM SpecProducerInv == Spec => []ProducerInv
<1>1. Init => ProducerInv
  <2> SUFFICES ASSUME Init PROVE ProducerInv
    OBVIOUS
  <2>1. /\ queue = << >> /\ Len(queue) = 0
        /\ ~AttemptRuns /\ ~Awaits("start") /\ ~Awaits("block")
    BY DEF Init, AttemptRuns, Awaits
  <2>2. Base
    <3>1. TypeOK
      <4>1. queue \in Seq(Tasks) /\ lost \in Seq(Timers)
        BY DEF Init
      <4>2. head \in [height : Nat, time : Nat]
        BY DEF Init
      <4> QED  BY <4>1, <4>2 DEF Init, TypeOK
    <3>2. LineInv
      BY <2>1 DEF Init, LineInv
    <3> QED  BY <3>1, <3>2 DEF Init, Base
  <2>3. CalmInv
    BY <2>1 DEF Init, CalmInv, TimerInv, PaceInv
  <2> QED  BY <2>2, <2>3, InvSplit
<1>2. ProducerInv /\ [Next]_vars => ProducerInv'
  <2> SUFFICES ASSUME ProducerInv, [Next]_vars PROVE ProducerInv'
    OBVIOUS
  <2>1. Base /\ (Calm => CalmInv)
    BY InvSplit
  <2>2. Base'
    BY <2>1, BaseStep
  <2>3. ASSUME Calm' PROVE CalmInv'
    <3>1. Calm /\ CalmInv
      BY <2>1, <2>3, CalmBefore
    <3>2. CASE Next
      BY <2>1, <2>2, <2>3, <3>1, <3>2, CalmStep
    <3>3. CASE UNCHANGED vars
      <4>1. /\ TimerInv' /\ PaceInv'
            /\ (AttemptRuns' <=> AttemptRuns) /\ (Arming' <=> Arming)
        BY <3>1, <3>3
        DEF vars, CalmInv, TimerInv, PaceInv, AttemptRuns, Arming, Awaits, Owner, IsAttempt
      <4> QED  BY <3>1, <3>3, <4>1 DEF vars, CalmInv
    <3> QED  BY <3>2, <3>3
  <2> QED  BY <2>2, <2>3 DEF ProducerInv, Base, CalmInv, NeverStalls, StoppedIsQuiet,
       MissedIsPaced
<1> QED  BY <1>1, <1>2, PTL DEF Spec

\* NeverStalls in every reachable state: until a disturbance a running producer
\* has a timer armed or a task that will arm one.
THEOREM SpecNeverStalls == Spec => []NeverStalls
<1>1. ProducerInv => NeverStalls
  BY DEF ProducerInv
<1> QED  BY <1>1, SpecProducerInv, PTL

\* StoppedIsQuiet in every reachable state: until a disturbance no timer and no
\* waiting task of a stopped producer tries to make a block.
THEOREM SpecStoppedIsQuiet == Spec => []StoppedIsQuiet
<1>1. ProducerInv => StoppedIsQuiet
  BY DEF ProducerInv
<1> QED  BY <1>1, SpecProducerInv, PTL

\* The times of two blocks that follow each other are at least the production time
\* apart, also when the block is an own one, which onBlock never tests, unless the
\* own one follows a block whose time was ahead of the clock.
THEOREM SpecBlocksAreSpaced == Spec => BlocksAreSpaced
<1> DEFINE Spaced ==
      head' # head /\ storm' = 0 /\ (ahead => Awaits("block"))
        => head'.time >= head.time + ProdTime
<1>1. ProducerInv /\ [Next]_vars => [Spaced]_vars
  <2> SUFFICES ASSUME ProducerInv, [Next]_vars, head' # head, storm' = 0,
                      ahead => Awaits("block")
               PROVE  head'.time >= head.time + ProdTime
    BY DEF vars
  <2>1. Base /\ (Calm => CalmInv)
    BY InvSplit
  <2>2. Calm /\ CalmInv
    BY <2>1, CalmBefore DEF Calm
  <2>3. BlockAdded \/ TryDone \/ SyncBlock
    BY DEF Next, Task, vars, CallStart, CallStop, CallBlock, StartAgain, StartBegin,
           StartEnd, StartFails, Stop, BlockRejected, BlockAccepted, BlockFails,
           MissedBlock, BlockWasThere, TryWaits, TryBegin, TryFails, FireTimer, FireLost,
           Tick
  <2>4. CASE BlockAdded
    <3>1. Owner.time >= head.time + ProdTime
      BY <2>2, <2>4 DEF BlockAdded, CalmInv, TimerInv
    <3> QED  BY <2>4, <3>1 DEF BlockAdded, NewHead
  <2>5. CASE TryDone
    <3>1. AttemptRuns /\ Owner.op = "produce"
      BY <2>1, <2>5, OwnerIsFirst DEF TryDone, Awaits, AttemptRuns, IsAttempt, Base
    <3>2. Owner.time >= head.time + ProdTime
      BY <2>2, <2>5, <3>1 DEF CalmInv, PaceInv, TryDone, Awaits
    <3> QED  BY <2>5, <3>2 DEF TryDone, NewHead
  <2>6. ~SyncBlock
    BY <2>1 DEF SyncBlock, Base, TypeOK
  <2> QED  BY <2>3, <2>4, <2>5, <2>6
<1> QED  BY <1>1, SpecProducerInv, PTL DEF Spec, BlocksAreSpaced
=============================================================================
