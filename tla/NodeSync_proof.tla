--------------------------- MODULE NodeSync_proof ---------------------------
(***************************************************************************)
(* Starting, synchronizing, pausing, resuming and stopping of a node, for  *)
(* any number of clients, any length of the ranges and any height of the   *)
(* peers' chain.  SyncInv is inductive: who holds the lock, what the pool  *)
(* counts, which clients invoke() has found gone, what the connections ask *)
(* of synchronizer and producer, and how far chain, range and line reach.  *)
(***************************************************************************)
EXTENDS NodeSync, FiniteSetTheorems, TLAPS

\* What waits at Synchronizer.lock.
Tasks == {Sync, Pause} \union [op : {"block"}, height : Nat]

-----------------------------------------------------------------------------
(* Queues, synchronizations and clients                                    *)

\* A queue that takes an element keeps the others in their places.
LEMMA Enqueue ==
  ASSUME NEW S, NEW q \in Seq(S), NEW e \in S
  PROVE  /\ Append(q, e) \in Seq(S) /\ Append(q, e) # << >>
         /\ Len(q) \in Nat /\ Len(Append(q, e)) = Len(q) + 1
         /\ Append(q, e)[Len(q) + 1] = e
         /\ \A i \in 1..Len(q) : Append(q, e)[i] = q[i]
         /\ Head(Append(q, e)) = IF q = << >> THEN e ELSE Head(q)
<1>1. /\ Append(q, e) \in Seq(S) /\ Append(q, e) # << >>
      /\ Len(q) \in Nat /\ Len(Append(q, e)) = Len(q) + 1
      /\ Append(q, e)[Len(q) + 1] = e
      /\ \A i \in 1..Len(q) : Append(q, e)[i] = q[i]
  OBVIOUS
<1>2. Head(Append(q, e)) = Append(q, e)[1]
  BY <1>1
<1>3. CASE q = << >>
  BY <1>1, <1>2, <1>3
<1>4. CASE q # << >>
  <2>1. Len(q) >= 1 /\ Head(q) = q[1]
    BY <1>4
  <2> QED
    BY <1>1, <1>2, <1>4, <2>1
<1> QED
  BY <1>1, <1>3, <1>4

\* A queue is empty when its length is 0.
LEMMA EmptyQueue ==
  ASSUME NEW S, NEW q \in Seq(S)
  PROVE  Len(q) \in Nat /\ (q = << >> <=> Len(q) = 0)
  OBVIOUS

\* A queue that loses its first element keeps the others in their order.
LEMMA Dequeue ==
  ASSUME NEW S, NEW q \in Seq(S), q # << >>
  PROVE  /\ Head(q) \in S /\ Head(q) = q[1]
         /\ Tail(q) \in Seq(S)
         /\ Len(q) \in Nat /\ Len(q) >= 1 /\ Len(Tail(q)) = Len(q) - 1
         /\ \A i \in 1..Len(Tail(q)) : Tail(q)[i] = q[i + 1]
  OBVIOUS

\* A synchronization at work has all the fields of one.
LEMMA JobFields ==
  ASSUME TypeOK, job # Idle
  PROVE  job \in Jobs /\ job.state # "idle"
  BY DEF TypeOK, Jobs

\* A synchronization that asks for its next range is still one.
LEMMA RangeJob ==
  ASSUME NEW j \in Jobs, NEW f \in Nat, NEW n \in Int, NEW l \in Int
  PROVE  [j EXCEPT !.state = "ask", !.from = f, !.tries = 0, !.next = n, !.last = l] \in Jobs
  BY DEF Jobs

\* No synchronization is idle.
LEMMA IdleState == Idle.state = "idle" BY DEF Idle

\* Counting on modulo the number of clients comes back to the same client.
LEMMA Wraps ==
  ASSUME NEW x \in Clients
  PROVE  x % NumClients = x /\ (x + NumClients) % NumClients = x
  BY PoolAssumption DEF Clients

\* There is a client to begin with.
LEMMA ZeroClient == 0 \in Clients
  BY PoolAssumption DEF Clients

\* Counting on modulo the number of clients names a client.
LEMMA ModIn ==
  ASSUME NEW x \in Nat
  PROVE  x % NumClients \in Clients
  BY PoolAssumption DEF Clients

\* Who has tried every client behind the first one, round once, has tried all.
LEMMA AllTried ==
  ASSUME NEW from \in Clients, NEW S \in SUBSET Clients,
         \A k \in 1..NumClients : (from + k) % NumClients \in S
  PROVE  S = Clients
<1> SUFFICES ASSUME NEW c \in Clients
             PROVE  c \in S
  OBVIOUS
<1>1. CASE c > from
  <2>1. c - from \in 1..NumClients /\ from + (c - from) = c
    BY <1>1, PoolAssumption DEF Clients
  <2> QED
    BY <2>1, Wraps
<1>2. CASE c <= from
  <2>1. /\ c + NumClients - from \in 1..NumClients
        /\ from + (c + NumClients - from) = c + NumClients
    BY <1>2, PoolAssumption DEF Clients
  <2> QED
    BY <2>1, Wraps
<1> QED
  BY <1>1, <1>2 DEF Clients

\* The client that is tried next and found gone joins those that were.
LEMMA OneMore ==
  ASSUME job \in Jobs, \A k \in 1..job.tries : (job.from + k) % NumClients \in found
  PROVE  \A k \in 1..(job.tries + 1) : (job.from + k) % NumClients \in found \union {NextIndex}
<1> SUFFICES ASSUME NEW k \in 1..(job.tries + 1)
             PROVE  (job.from + k) % NumClients \in found \union {NextIndex}
  OBVIOUS
<1>1. job.tries \in Nat /\ job.from \in Nat
  BY DEF Jobs
<1>2. CASE k = job.tries + 1
  <2>1. job.from + k = job.from + job.tries + 1
    BY <1>1, <1>2
  <2> QED
    BY <2>1 DEF NextIndex
<1>3. CASE k # job.tries + 1
  BY <1>1, <1>3
<1> QED
  BY <1>2, <1>3

\* The pool counts its open connections one by one, and tells the last one.
LEMMA Counting ==
  ASSUME NEW S \in SUBSET Clients, NEW c \in Clients
  PROVE  /\ IsFiniteSet(S) /\ Cardinality(S) \in Nat
         /\ c \notin S => Cardinality(S \union {c}) = Cardinality(S) + 1
         /\ c \in S => Cardinality(S \ {c}) = Cardinality(S) - 1
         /\ Cardinality(S) = 0 <=> S = {}
         /\ c \in S /\ Cardinality(S) = 1 => S \ {c} = {}
         /\ c \in S /\ Cardinality(S) # 1 => S \ {c} # {}
<1>1. IsFiniteSet(S)
  <2>1. IsFiniteSet(Clients)
    BY FS_Interval, PoolAssumption DEF Clients
  <2> QED
    BY <2>1, FS_Subset
<1>2. IsFiniteSet(S \ {c})
  BY <1>1, FS_Subset
<1>3. \A T : IsFiniteSet(T) => Cardinality(T) \in Nat /\ (Cardinality(T) = 0 <=> T = {})
  BY FS_CardinalityType, FS_EmptySet
<1>4. c \notin S => Cardinality(S \union {c}) = Cardinality(S) + 1
  BY <1>1, FS_AddElement
<1>5. c \in S => Cardinality(S \ {c}) = Cardinality(S) - 1
  BY <1>1, FS_RemoveElement
<1> QED
  BY <1>1, <1>2, <1>3, <1>4, <1>5

-----------------------------------------------------------------------------
(* Every action keeps the invariant                                        *)

\* Start keeps the invariant.
LEMMA StartStep ==
  ASSUME SyncInv, Start
  PROVE  SyncInv'
<1> USE DEF SyncInv
<1>j. job # Idle => job \in Jobs /\ job.state # "idle"
  BY JobFields
<1> USE DEF Start, pool
<1>1. TypeOK'
  BY <1>j DEF TypeOK
<1>2. LineInv'
  BY <1>j, IdleState DEF LineInv, OwnerIs
<1>3. CountInv'
  BY Counting DEF CountInv
<1>4. InvokeInv'
  BY <1>j, IdleState DEF InvokeInv, NextIndex
<1>5. CalmInv'
  BY <1>j, IdleState, Counting DEF CalmInv
<1>6. ReachInv'
  BY <1>j, IdleState DEF ReachInv
<1> QED
  BY <1>1, <1>2, <1>3, <1>4, <1>5, <1>6

\* StartSync keeps the invariant.
LEMMA StartSyncStep ==
  ASSUME SyncInv, StartSync
  PROVE  SyncInv'
<1> USE DEF SyncInv
<1>j. job # Idle => job \in Jobs /\ job.state # "idle"
  BY JobFields
<1>q. /\ line \in Seq(Tasks) /\ Len(line) \in Nat
      /\ line = << >> <=> Len(line) = 0
      /\ TRUE => /\ line' \in Seq(Tasks) /\ line' # << >>
              /\ Len(line') = Len(line) + 1
              /\ line'[Len(line) + 1] = Sync
              /\ \A i \in 1..Len(line) : line'[i] = line[i]
              /\ Head(line') = IF line = << >> THEN Sync ELSE Head(line)
  <2>1. line \in Seq(Tasks) /\ Sync \in Tasks
    BY DEF TypeOK, Tasks
  <2>2. TRUE => line' = Append(line, Sync)
    BY DEF StartSync
  <2> QED
    BY <2>1, <2>2, Enqueue, EmptyQueue
<1> USE DEF StartSync, pool
<1>1. TypeOK'
  BY <1>q, <1>j DEF TypeOK
<1>2. LineInv'
  BY <1>q, <1>j, IdleState DEF LineInv, OwnerIs, Sync
<1>3. CountInv'
  BY <1>q, Counting DEF CountInv
<1>4. InvokeInv'
  BY <1>j, IdleState DEF InvokeInv, NextIndex
<1>5. CalmInv'
  BY <1>q, <1>j, IdleState, Counting DEF CalmInv, LineInv, OwnerIs, Sync
<1>6. ReachInv'
  BY <1>q, <1>j, IdleState DEF ReachInv, LineInv, OwnerIs, Sync
<1> QED
  BY <1>1, <1>2, <1>3, <1>4, <1>5, <1>6

\* Stop keeps the invariant.
LEMMA StopStep ==
  ASSUME SyncInv, Stop
  PROVE  SyncInv'
<1> USE DEF SyncInv
<1>j. job # Idle => job \in Jobs /\ job.state # "idle"
  BY JobFields
<1> USE DEF Stop, pool
<1>1. TypeOK'
  BY <1>j DEF TypeOK
<1>2. LineInv'
  BY <1>j, IdleState DEF LineInv, OwnerIs
<1>3. CountInv'
  BY Counting DEF CountInv
<1>4. InvokeInv'
  BY <1>j, IdleState DEF InvokeInv, NextIndex
<1>5. CalmInv'
  BY <1>j, IdleState, Counting DEF CalmInv, LineInv
<1>6. ReachInv'
  BY <1>j, IdleState DEF ReachInv
<1> QED
  BY <1>1, <1>2, <1>3, <1>4, <1>5, <1>6

\* StopRest keeps the invariant.
LEMMA StopRestStep ==
  ASSUME SyncInv, StopRest
  PROVE  SyncInv'
<1> USE DEF SyncInv
<1>j. job # Idle => job \in Jobs /\ job.state # "idle"
  BY JobFields
<1> USE DEF StopRest, pool
<1>1. TypeOK'
  BY <1>j, ZeroClient DEF TypeOK
<1>2. LineInv'
  BY <1>j, IdleState DEF LineInv, OwnerIs
<1>3. CountInv'
  BY Counting DEF CountInv
<1>4. InvokeInv'
  BY <1>j, IdleState DEF InvokeInv, NextIndex
<1>5. CalmInv'
  BY <1>j, IdleState, Counting DEF CalmInv, TypeOK
<1>6. ReachInv'
  BY <1>j, IdleState DEF ReachInv
<1> QED
  BY <1>1, <1>2, <1>3, <1>4, <1>5, <1>6

\* Open keeps the invariant.
LEMMA OpenStep ==
  ASSUME SyncInv, NEW c \in Clients, Open(c)
  PROVE  SyncInv'
<1> USE DEF SyncInv
<1>j. job # Idle => job \in Jobs /\ job.state # "idle"
  BY JobFields
<1>q. /\ line \in Seq(Tasks) /\ Len(line) \in Nat
      /\ line = << >> <=> Len(line) = 0
      /\ line' # line => /\ line' \in Seq(Tasks) /\ line' # << >>
              /\ Len(line') = Len(line) + 1
              /\ line'[Len(line) + 1] = Sync
              /\ \A i \in 1..Len(line) : line'[i] = line[i]
              /\ Head(line') = IF line = << >> THEN Sync ELSE Head(line)
  <2>1. line \in Seq(Tasks) /\ Sync \in Tasks
    BY DEF TypeOK, Tasks
  <2>2. line' # line => line' = Append(line, Sync)
    BY DEF Open
  <2> QED
    BY <2>1, <2>2, Enqueue, EmptyQueue
<1> USE DEF Open, Listening, pool
<1>1. TypeOK'
  <2>1. calm' \in BOOLEAN /\ producing' \in BOOLEAN /\ running' \in BOOLEAN
    BY DEF TypeOK
  <2>2. line' \in Seq(Tasks)
    BY <1>q
  <2> QED
    BY <2>1, <2>2 DEF TypeOK
<1>2. LineInv'
  BY <1>q, <1>j, IdleState DEF LineInv, OwnerIs
<1>3. CountInv'
  BY <1>q, Counting DEF CountInv, TypeOK
<1>4. InvokeInv'
  BY <1>j, IdleState DEF InvokeInv, NextIndex
<1>5. CalmInv'
  <2> SUFFICES ASSUME calm'
               PROVE  CalmInv'
    BY DEF CalmInv
  <2>1. calm /\ misses = 0 /\ (connectedCount = 0 <=> open = {})
    <3>1. Cardinality(open) \in Nat /\ (Cardinality(open) = 0 <=> open = {})
      BY Counting DEF TypeOK
    <3>2. calm /\ misses = 0
      BY DEF CalmInv
    <3> QED
      BY <3>1, <3>2 DEF CountInv
  <2>2. open' # {}
    OBVIOUS
  <2>3. CASE Listening /\ connectedCount = 0 /\ isComplete
    <3>1. phase = "up" /\ line = << >> /\ ~running
      BY <2>1, <2>3 DEF LineInv, CalmInv
    <3>2. Len(line') = 1 /\ line'[1] = Sync /\ producing' = TRUE /\ running' = TRUE
      BY <1>q, <2>3, <3>1
    <3>3. \A i \in 1..Len(line') : line'[i].op # "pause"
      BY <3>2 DEF Sync
    <3> QED
      BY <2>1, <2>2, <3>1, <3>2, <3>3 DEF CalmInv
  <2>4. CASE ~(Listening /\ connectedCount = 0 /\ isComplete)
    <3>1. phase = "up" => open # {}
      BY <2>1, <2>4 DEF LineInv
    <3> QED
      BY <2>1, <2>2, <2>4, <3>1 DEF CalmInv
  <2> QED
    BY <2>3, <2>4
<1>6. ReachInv'
  <2> SUFFICES ASSUME calm', phase \in {"starting", "up"}
               PROVE  ReachInv'
    BY DEF ReachInv
  <2>1. calm /\ misses = 0 /\ (connectedCount = 0 <=> open = {})
    <3>1. Cardinality(open) \in Nat /\ (Cardinality(open) = 0 <=> open = {})
      BY Counting DEF TypeOK
    <3>2. calm /\ misses = 0
      BY DEF CalmInv
    <3> QED
      BY <3>1, <3>2 DEF CountInv
  <2>2. CASE Listening /\ connectedCount = 0 /\ isComplete
    <3>1. phase = "up" /\ line = << >> /\ ~running /\ job = Idle
      BY <2>1, <2>2 DEF LineInv, CalmInv, OwnerIs
    <3>2. Len(line') = 1 /\ line'[1] = Sync /\ OwnerIs("sync")'
      BY <1>q, <2>2, <3>1 DEF OwnerIs, Sync
    <3> QED
      BY <3>1, <3>2, IdleState DEF ReachInv, Sync
  <2>3. CASE ~(Listening /\ connectedCount = 0 /\ isComplete)
    <3>1. open = {} => OwnerIs("sync")
      BY <2>1, <2>3 DEF LineInv
    <3> QED
      BY <2>1, <2>3, <3>1 DEF ReachInv, OwnerIs
  <2> QED
    BY <2>2, <2>3
<1> QED
  BY <1>1, <1>2, <1>3, <1>4, <1>5, <1>6

\* Close keeps the invariant.
LEMMA CloseStep ==
  ASSUME SyncInv, NEW c \in Clients, Close(c)
  PROVE  SyncInv'
<1> USE DEF SyncInv
<1>j. job # Idle => job \in Jobs /\ job.state # "idle"
  BY JobFields
<1>q. /\ line \in Seq(Tasks) /\ Len(line) \in Nat
      /\ line = << >> <=> Len(line) = 0
      /\ line' # line => /\ line' \in Seq(Tasks) /\ line' # << >>
              /\ Len(line') = Len(line) + 1
              /\ line'[Len(line) + 1] = Pause
              /\ \A i \in 1..Len(line) : line'[i] = line[i]
              /\ Head(line') = IF line = << >> THEN Pause ELSE Head(line)
  <2>1. line \in Seq(Tasks) /\ Pause \in Tasks
    BY DEF TypeOK, Tasks
  <2>2. line' # line => line' = Append(line, Pause)
    BY DEF Close, CountDown, PoolCloses
  <2> QED
    BY <2>1, <2>2, Enqueue, EmptyQueue
<1> USE DEF Close, CountDown, Interrupted, PoolCloses, Listening, pool
<1>1. TypeOK'
  <2>1. calm' \in BOOLEAN /\ producing' \in BOOLEAN /\ running' \in BOOLEAN
    BY DEF TypeOK
  <2>2. line' \in Seq(Tasks)
    BY <1>q
  <2>3. job' \in Jobs \union {Idle} /\ found' \subseteq Clients
    <3>1. CASE job.state = "asked" /\ job.client = c
      <4>1. job \in Jobs /\ job.tries + 1 \in Nat
        BY <1>j, <3>1, IdleState DEF Jobs
      <4> QED
        BY <3>1, <4>1, ZenonT(60) DEF TypeOK, Jobs
    <3>2. CASE ~(job.state = "asked" /\ job.client = c)
      BY <3>2 DEF TypeOK
    <3> QED
      BY <3>1, <3>2
  <2> QED
    BY <2>1, <2>2, <2>3 DEF TypeOK, Tasks
<1>2. LineInv'
  BY <1>q, <1>j, IdleState DEF LineInv, OwnerIs
<1>3. CountInv'
  BY <1>q, Counting DEF CountInv, TypeOK
<1>4. InvokeInv'
  <2>1. CASE job.state = "asked" /\ job.client = c
    <3>1. job \in Jobs
      BY <1>j, <2>1, IdleState
    <3>2. /\ job'.state = "ask" /\ job'.from = job.from /\ job'.tries = job.tries + 1
          /\ found' = found \union {NextIndex}
      BY <2>1, <3>1 DEF Jobs, InvokeInv
    <3>3. \A k \in 1..(job.tries + 1) : (job.from + k) % NumClients \in found'
      BY <2>1, <3>1, <3>2, OneMore DEF InvokeInv
    <3> QED
      BY <2>1, <3>2, <3>3 DEF InvokeInv
  <2>2. CASE ~(job.state = "asked" /\ job.client = c)
    BY <2>2 DEF InvokeInv, NextIndex
  <2> QED
    BY <2>1, <2>2
<1>5. CalmInv'
  <2> SUFFICES ASSUME calm'
               PROVE  CalmInv'
    BY DEF CalmInv
  <2>1. calm /\ misses = 0 /\ (connectedCount = 1 <=> open' = {})
    <3>1. Cardinality(open) \in Nat /\ (Cardinality(open) = 1 <=> open \ {c} = {})
      <4>1. open \in SUBSET Clients /\ c \in open
        BY DEF TypeOK
      <4> HIDE DEF Close
      <4> QED
        BY <4>1, Counting
    <3>2. calm /\ misses = 0
      BY DEF CalmInv
    <3> QED
      BY <3>1, <3>2 DEF CountInv
  <2>2. open # {}
    OBVIOUS
  <2>3. job.state \notin {"index", "done"} => job'.state \notin {"index", "done"}
    BY <1>j, IdleState DEF Jobs
  <2>4. CASE Listening /\ connectedCount = 1
    <3>1. /\ line = << >> /\ phase \in {"up", "stopping"} /\ line' = line /\ ~running'
          /\ ~producing'
      BY <2>4
    <3> QED
      BY <2>1, <3>1 DEF CalmInv
  <2>5. CASE ~(Listening /\ connectedCount = 1)
    <3>1. phase \in {"starting", "up", "stopping"} => open' # {}
      BY <2>1, <2>5 DEF CalmInv, LineInv
    <3> QED
      BY <2>1, <2>2, <2>3, <2>5, <3>1 DEF CalmInv
  <2> QED
    BY <2>4, <2>5
<1>6. ReachInv'
  <2> SUFFICES ASSUME calm', phase \in {"starting", "up"}
               PROVE  ReachInv'
    BY DEF ReachInv
  <2>1. calm /\ line' = line /\ open # {}
    OBVIOUS
  <2>2. CASE job' = job
    BY <2>1, <2>2 DEF ReachInv, OwnerIs
  <2>3. CASE job' # job
    <3>1. /\ job.state = "asked" /\ job'.state = "ask"
          /\ job'.height = job.height /\ job'.next = job.next
      BY <1>j, <2>3, IdleState DEF Jobs
    <3> QED
      BY <2>1, <3>1 DEF ReachInv, OwnerIs
  <2> QED
    BY <2>2, <2>3
<1> QED
  BY <1>1, <1>2, <1>3, <1>4, <1>5, <1>6

\* CloseUnopened keeps the invariant.
LEMMA CloseUnopenedStep ==
  ASSUME SyncInv, NEW c \in Clients, CloseUnopened(c)
  PROVE  SyncInv'
<1> USE DEF SyncInv
<1>j. job # Idle => job \in Jobs /\ job.state # "idle"
  BY JobFields
<1>q. /\ line \in Seq(Tasks) /\ Len(line) \in Nat
      /\ line = << >> <=> Len(line) = 0
      /\ line' # line => /\ line' \in Seq(Tasks) /\ line' # << >>
              /\ Len(line') = Len(line) + 1
              /\ line'[Len(line) + 1] = Pause
              /\ \A i \in 1..Len(line) : line'[i] = line[i]
              /\ Head(line') = IF line = << >> THEN Pause ELSE Head(line)
  <2>1. line \in Seq(Tasks) /\ Pause \in Tasks
    BY DEF TypeOK, Tasks
  <2>2. line' # line => line' = Append(line, Pause)
    BY DEF CloseUnopened
  <2> QED
    BY <2>1, <2>2, Enqueue, EmptyQueue
<1> USE DEF CloseUnopened, Listening, pool
<1>1. TypeOK'
  <2>1. producing' \in BOOLEAN /\ running' \in BOOLEAN
    BY DEF TypeOK
  <2>2. line' \in Seq(Tasks)
    BY <1>q
  <2>3. connectedCount' \in Int /\ misses' \in Nat /\ calm' \in BOOLEAN
    <3>1. connectedCount' = connectedCount - 1 /\ misses' = misses + 1 /\ calm' = FALSE
      OBVIOUS
    <3>2. connectedCount \in Int /\ misses \in Nat
      BY DEF TypeOK
    <3>3. calm' \in BOOLEAN
      BY <3>1
    <3> QED
      BY ONLY <3>1, <3>2, <3>3
  <2>4. UNCHANGED << phase, boot, open, index, isComplete, job, head, tip, refused, found >>
    OBVIOUS
  <2> HIDE DEF CloseUnopened
  <2> QED
    BY <2>1, <2>2, <2>3, <2>4 DEF TypeOK, Tasks
<1>2. LineInv'
  BY <1>q, <1>j, IdleState DEF LineInv, OwnerIs
<1>3. CountInv'
  <2>1. Cardinality(open) \in Nat
    BY Counting DEF TypeOK
  <2> QED
    BY <2>1 DEF CountInv, TypeOK
<1>4. InvokeInv'
  BY <1>j, IdleState DEF InvokeInv, NextIndex
<1>5. CalmInv'
  BY <1>q, <1>j, IdleState, Counting DEF CalmInv
<1>6. ReachInv'
  BY <1>q, <1>j, IdleState DEF ReachInv
<1> QED
  BY <1>1, <1>2, <1>3, <1>4, <1>5, <1>6

\* PauseTurn keeps the invariant.
LEMMA PauseTurnStep ==
  ASSUME SyncInv, PauseTurn
  PROVE  SyncInv'
<1> USE DEF SyncInv
<1>j. job # Idle => job \in Jobs /\ job.state # "idle"
  BY JobFields
<1>q. /\ line \in Seq(Tasks) /\ line # << >> /\ Len(line) \in Nat /\ Len(line) >= 1
      /\ Head(line) \in Tasks /\ Head(line) = line[1]
      /\ line' \in Seq(Tasks) /\ Len(line') \in Nat /\ Len(line') = Len(line) - 1
      /\ \A i \in 1..Len(line') : line'[i] = line[i + 1]
      /\ line' = << >> <=> Len(line') = 0
  <2>1. line \in Seq(Tasks)
    BY DEF TypeOK, Tasks
  <2>2. line # << >> /\ line' = Tail(line)
    BY <1>j, IdleState DEF OwnerIs, PauseTurn
  <2> QED
    BY <2>1, <2>2, Dequeue, EmptyQueue
<1> USE DEF PauseTurn, OwnerIs, pool
<1>1. TypeOK'
  BY <1>q, <1>j DEF TypeOK, Tasks
<1>2. LineInv'
  BY <1>q, <1>j, IdleState DEF LineInv
<1>3. CountInv'
  BY <1>q, Counting DEF CountInv
<1>4. InvokeInv'
  BY <1>j, IdleState DEF InvokeInv, NextIndex
<1>5. CalmInv'
  BY <1>q, <1>j, IdleState, Counting DEF CalmInv
<1>6. ReachInv'
  BY <1>q, <1>j, IdleState DEF ReachInv, CalmInv
<1> QED
  BY <1>1, <1>2, <1>3, <1>4, <1>5, <1>6

\* BeginSync keeps the invariant.
LEMMA BeginSyncStep ==
  ASSUME SyncInv, BeginSync
  PROVE  SyncInv'
<1> USE DEF SyncInv
<1>j. job # Idle => job \in Jobs /\ job.state # "idle"
  BY JobFields
<1> USE DEF BeginSync, Job, OwnerIs, pool
<1>1. TypeOK'
  <2>1. job' \in Jobs
    BY PoolAssumption DEF TypeOK, Jobs, Clients
  <2> QED
    BY <2>1 DEF TypeOK
<1>2. LineInv'
  BY <1>j, IdleState DEF LineInv
<1>3. CountInv'
  BY Counting DEF CountInv
<1>4. InvokeInv'
  BY <1>j, IdleState DEF InvokeInv
<1>5. CalmInv'
  BY <1>j, IdleState, Counting DEF CalmInv
<1>6. ReachInv'
  BY <1>j, IdleState DEF ReachInv, TypeOK
<1> QED
  BY <1>1, <1>2, <1>3, <1>4, <1>5, <1>6

\* AskRange keeps the invariant.
LEMMA AskRangeStep ==
  ASSUME SyncInv, AskRange
  PROVE  SyncInv'
<1> USE DEF SyncInv
<1>j. job # Idle => job \in Jobs /\ job.state # "idle"
  BY JobFields
<1> USE DEF AskRange, pool
<1>1. TypeOK'
  <2>1. job \in Jobs /\ job.height + 1 \in Int /\ job.height + RangeLen \in Int
        /\ RangeLen \in Int /\ index \in Nat
    BY <1>j, IdleState, PoolAssumption DEF TypeOK, Jobs, Clients
  <2>2. job' \in Jobs
    <3> DEFINE first == IF job.height > 0 THEN job.height + 1 ELSE 0
               last == (IF job.height > 0 THEN job.height ELSE first) + RangeLen
    <3>1. first \in Int /\ last \in Int
      BY <2>1
    <3>2. job' = [job EXCEPT !.state = "ask", !.from = index, !.tries = 0,
                             !.next = first, !.last = last]
      OBVIOUS
    <3> HIDE DEF first, last
    <3>3. [job EXCEPT !.state = "ask", !.from = index, !.tries = 0,
                      !.next = first, !.last = last] \in Jobs
      BY ONLY <2>1, <3>1, RangeJob
    <3> QED
      BY <3>2, <3>3
  <2> QED
    BY <2>2 DEF TypeOK
<1>2. LineInv'
  BY <1>j, IdleState DEF LineInv, OwnerIs
<1>3. CountInv'
  BY Counting DEF CountInv
<1>4. InvokeInv'
  BY <1>j, IdleState DEF InvokeInv, TypeOK
<1>5. CalmInv'
  BY <1>j, IdleState DEF CalmInv, Jobs
<1>6. ReachInv'
  BY <1>j, IdleState DEF ReachInv, OwnerIs, Jobs
<1> QED
  BY <1>1, <1>2, <1>3, <1>4, <1>5, <1>6

\* AskClient keeps the invariant.
LEMMA AskClientStep ==
  ASSUME SyncInv, AskClient
  PROVE  SyncInv'
<1> USE DEF SyncInv
<1>j. job # Idle => job \in Jobs /\ job.state # "idle"
  BY JobFields
<1> USE DEF AskClient, NextIndex, pool
<1>1. TypeOK'
  <2>1. job \in Jobs /\ NextIndex \in Clients
    BY <1>j, IdleState, ModIn DEF Jobs
  <2>2. job' \in Jobs /\ found' \subseteq Clients
    <3>1. job.tries + 1 \in Nat
      BY <2>1 DEF Jobs
    <3> QED
      BY <2>1, <3>1, ZenonT(60) DEF TypeOK, Jobs
  <2> QED
    BY <2>1, <2>2 DEF TypeOK
<1>2. LineInv'
  BY <1>j, IdleState DEF LineInv, OwnerIs
<1>3. CountInv'
  BY Counting DEF CountInv
<1>4. InvokeInv'
  <2>1. job \in Jobs
    BY <1>j, IdleState
  <2>2. job'.from = job.from
    BY <2>1 DEF Jobs
  <2>3. CASE NextIndex \in open
    <3>1. /\ job'.state = "asked" /\ job'.tries = job.tries /\ job'.client = NextIndex
          /\ found' = found
      BY <2>1, <2>3 DEF Jobs
    <3> QED
      BY <2>2, <2>3, <3>1 DEF InvokeInv
  <2>4. CASE NextIndex \notin open
    <3>1. job'.state = "ask" /\ job'.tries = job.tries + 1 /\ found' = found \union {NextIndex}
      BY <2>1, <2>4 DEF Jobs
    <3>2. \A k \in 1..(job.tries + 1) : (job.from + k) % NumClients \in found'
      BY <2>1, <3>1, OneMore DEF InvokeInv
    <3> QED
      BY <2>2, <3>1, <3>2 DEF InvokeInv
  <2> QED
    BY <2>3, <2>4
<1>5. CalmInv'
  BY <1>j, IdleState DEF CalmInv, Jobs
<1>6. ReachInv'
  BY <1>j, IdleState DEF ReachInv, OwnerIs, Jobs
<1> QED
  BY <1>1, <1>2, <1>3, <1>4, <1>5, <1>6

\* NoClient keeps the invariant.
LEMMA NoClientStep ==
  ASSUME SyncInv, NoClient
  PROVE  SyncInv'
<1> USE DEF SyncInv
<1>j. job # Idle => job \in Jobs /\ job.state # "idle"
  BY JobFields
<1> USE DEF NoClient, pool
<1>1. TypeOK'
  BY <1>j DEF TypeOK, Jobs, Idle
<1>2. LineInv'
  BY <1>j, IdleState DEF LineInv, OwnerIs
<1>3. CountInv'
  BY Counting DEF CountInv
<1>4. InvokeInv'
  <2>1. job \in Jobs
    BY <1>j, IdleState
  <2>2. job'.state = "wait"
    BY <2>1
  <2>3. \A k \in 1..NumClients : (job.from + k) % NumClients \in found
    BY <2>1, PoolAssumption DEF InvokeInv, Jobs
  <2>4. PICK f \in Clients : f = job.from
    BY DEF InvokeInv
  <2>5. found = Clients
    <3>1. \A k \in 1..NumClients : (f + k) % NumClients \in found
      BY <2>3, <2>4
    <3>2. found \in SUBSET Clients
      BY DEF TypeOK
    <3> HIDE DEF NoClient
    <3> QED
      BY <3>1, <3>2, AllTried
  <2> QED
    BY <2>2, <2>5 DEF InvokeInv
<1>5. CalmInv'
  BY <1>j, IdleState, Counting DEF CalmInv
<1>6. ReachInv'
  BY <1>j, IdleState DEF ReachInv, OwnerIs
<1> QED
  BY <1>1, <1>2, <1>3, <1>4, <1>5, <1>6

\* AskAgain keeps the invariant.
LEMMA AskAgainStep ==
  ASSUME SyncInv, AskAgain
  PROVE  SyncInv'
<1> USE DEF SyncInv
<1>j. job # Idle => job \in Jobs /\ job.state # "idle"
  BY JobFields
<1> USE DEF AskAgain, pool
<1>1. TypeOK'
  BY <1>j DEF TypeOK, Jobs, Idle
<1>2. LineInv'
  BY <1>j, IdleState DEF LineInv, OwnerIs
<1>3. CountInv'
  BY Counting DEF CountInv
<1>4. InvokeInv'
  BY <1>j, IdleState DEF InvokeInv
<1>5. CalmInv'
  BY <1>j, IdleState, Counting DEF CalmInv
<1>6. ReachInv'
  BY <1>j, IdleState DEF ReachInv, OwnerIs
<1> QED
  BY <1>1, <1>2, <1>3, <1>4, <1>5, <1>6

\* Answer keeps the invariant.
LEMMA AnswerStep ==
  ASSUME SyncInv, Answer
  PROVE  SyncInv'
<1> USE DEF SyncInv
<1>j. job # Idle => job \in Jobs /\ job.state # "idle"
  BY JobFields
<1> USE DEF Answer, pool
<1>1. TypeOK'
  <2>0. job \in Jobs /\ tip \in Int
    BY <1>j, IdleState DEF TypeOK
  <2>1. job' \in Jobs
    <3>1. (IF job.last > tip THEN tip ELSE job.last) \in Int /\ (job.last > tip) \in BOOLEAN
          /\ job.last \in Int
      BY <2>0 DEF Jobs
    <3> QED
      BY <2>0, <3>1 DEF Jobs
  <2> QED
    BY <2>1 DEF TypeOK
<1>2. LineInv'
  BY <1>j, IdleState DEF LineInv, OwnerIs
<1>3. CountInv'
  BY Counting DEF CountInv
<1>4. InvokeInv'
  BY <1>j, IdleState DEF InvokeInv
<1>5. CalmInv'
  BY <1>j, IdleState, Counting DEF CalmInv, InvokeInv
<1>6. ReachInv'
  <2>1. job \in Jobs
    BY <1>j, IdleState
  <2>2. /\ job'.state = "index" /\ job'.next = job.next /\ job'.height = job.last
        /\ job'.outside = (job.last > tip)
        /\ job'.last = IF job.last > tip THEN tip ELSE job.last
    BY <2>1
  <2>3. Len(line) \in Nat /\ Len(line) >= 1
    BY <1>j, IdleState DEF LineInv, OwnerIs
  <2>4. job'.outside => job'.last = tip
    BY <2>2
  <2>5. ~job'.outside => job'.height = job'.last
    BY <2>2
  <2>6. IF job'.outside THEN job'.last + Len(line) - 1 >= tip ELSE job'.height = job'.last
    BY <2>3, <2>4, <2>5 DEF TypeOK
  <2> QED
    BY <2>2, <2>6 DEF ReachInv, OwnerIs
<1> QED
  BY <1>1, <1>2, <1>3, <1>4, <1>5, <1>6

\* IndexBlock keeps the invariant.
LEMMA IndexBlockStep ==
  ASSUME SyncInv, IndexBlock
  PROVE  SyncInv'
<1> USE DEF SyncInv
<1>j. job # Idle => job \in Jobs /\ job.state # "idle"
  BY JobFields
<1> USE DEF IndexBlock, pool
<1>1. TypeOK'
  BY <1>j, SMTT(30) DEF TypeOK, Jobs, Idle
<1>2. LineInv'
  BY <1>j, IdleState DEF LineInv, OwnerIs
<1>3. CountInv'
  BY Counting DEF CountInv
<1>4. InvokeInv'
  BY <1>j, IdleState DEF InvokeInv
<1>5. CalmInv'
  BY <1>j, IdleState, Counting DEF CalmInv
<1>6. ReachInv'
  BY <1>j, IdleState, SMTT(30) DEF ReachInv, CalmInv, TypeOK, LineInv, OwnerIs, Idle
<1> QED
  BY <1>1, <1>2, <1>3, <1>4, <1>5, <1>6

\* EndRange keeps the invariant.
LEMMA EndRangeStep ==
  ASSUME SyncInv, EndRange
  PROVE  SyncInv'
<1> USE DEF SyncInv
<1>j. job # Idle => job \in Jobs /\ job.state # "idle"
  BY JobFields
<1> USE DEF EndRange, pool
<1>1. TypeOK'
  <2>1. job \in Jobs
    BY <1>j, IdleState
  <2>2. job' \in Jobs
    BY <2>1 DEF Jobs
  <2> QED
    BY <2>2 DEF TypeOK
<1>2. LineInv'
  BY <1>j, IdleState DEF LineInv, OwnerIs
<1>3. CountInv'
  BY Counting DEF CountInv
<1>4. InvokeInv'
  BY <1>j, IdleState DEF InvokeInv
<1>5. CalmInv'
  BY <1>j, IdleState, Counting DEF CalmInv
<1>6. ReachInv'
  BY <1>j, IdleState, SMTT(30) DEF ReachInv, CalmInv, TypeOK, LineInv, OwnerIs, Jobs
<1> QED
  BY <1>1, <1>2, <1>3, <1>4, <1>5, <1>6

\* SyncEnds keeps the invariant.
LEMMA SyncEndsStep ==
  ASSUME SyncInv, SyncEnds
  PROVE  SyncInv'
<1> USE DEF SyncInv
<1>j. job # Idle => job \in Jobs /\ job.state # "idle"
  BY JobFields
<1>q. /\ line \in Seq(Tasks) /\ line # << >> /\ Len(line) \in Nat /\ Len(line) >= 1
      /\ Head(line) \in Tasks /\ Head(line) = line[1]
      /\ line' \in Seq(Tasks) /\ Len(line') \in Nat /\ Len(line') = Len(line) - 1
      /\ \A i \in 1..Len(line') : line'[i] = line[i + 1]
      /\ line' = << >> <=> Len(line') = 0
  <2>1. line \in Seq(Tasks)
    BY DEF TypeOK, Tasks
  <2>2. line # << >> /\ line' = Tail(line)
    BY <1>j, IdleState DEF LineInv, OwnerIs, SyncEnds, Return
  <2> QED
    BY <2>1, <2>2, Dequeue, EmptyQueue
<1> USE DEF SyncEnds, Return, pool
<1>1. TypeOK'
  BY <1>q, <1>j DEF TypeOK, Tasks
<1>2. LineInv'
  BY <1>q, <1>j, IdleState DEF LineInv
<1>3. CountInv'
  BY <1>q, Counting DEF CountInv
<1>4. InvokeInv'
  BY <1>j, IdleState DEF InvokeInv
<1>5. CalmInv'
  <2> SUFFICES ASSUME calm
               PROVE  CalmInv'
    BY DEF CalmInv
  <2>1. \A i \in 1..Len(line') : line'[i].op # "pause"
    <3>1. \A i \in 1..Len(line') : i + 1 \in 1..Len(line)
      BY <1>q
    <3> QED
      BY <1>q, <3>1 DEF CalmInv
  <2>2. CASE phase = "starting"
    <3>1. running = TRUE /\ open # {} /\ boot = "starting"
      BY <2>2 DEF CalmInv, LineInv
    <3> QED
      BY <2>1, <2>2, <3>1 DEF CalmInv
  <2>3. CASE phase # "starting"
    <3>1. phase = "up" => open # {}
      BY <1>q DEF CalmInv
    <3>2. boot # "starting"
      BY <2>3 DEF CalmInv
    <3>3. /\ UNCHANGED << phase, boot, open, misses, running, producing, calm >>
          /\ job'.state = "idle"
      BY <3>2 DEF Idle
    <3> QED
      BY <2>1, <2>3, <3>1, <3>3 DEF CalmInv
  <2> QED
    BY <2>2, <2>3
<1>6. ReachInv'
  BY <1>q, <1>j, IdleState DEF ReachInv, CalmInv, TypeOK
<1> QED
  BY <1>1, <1>2, <1>3, <1>4, <1>5, <1>6

\* SyncFails keeps the invariant.
LEMMA SyncFailsStep ==
  ASSUME SyncInv, SyncFails
  PROVE  SyncInv'
<1> USE DEF SyncInv
<1>j. job # Idle => job \in Jobs /\ job.state # "idle"
  BY JobFields
<1>q. /\ line \in Seq(Tasks) /\ line # << >> /\ Len(line) \in Nat /\ Len(line) >= 1
      /\ Head(line) \in Tasks /\ Head(line) = line[1]
      /\ line' \in Seq(Tasks) /\ Len(line') \in Nat /\ Len(line') = Len(line) - 1
      /\ \A i \in 1..Len(line') : line'[i] = line[i + 1]
      /\ line' = << >> <=> Len(line') = 0
  <2>1. line \in Seq(Tasks)
    BY DEF TypeOK, Tasks
  <2>2. line # << >> /\ line' = Tail(line)
    BY <1>j, IdleState DEF LineInv, OwnerIs, SyncFails, Return
  <2> QED
    BY <2>1, <2>2, Dequeue, EmptyQueue
<1> USE DEF SyncFails, Return, pool
<1>1. TypeOK'
  BY <1>q, <1>j DEF TypeOK, Tasks
<1>2. LineInv'
  BY <1>q, <1>j, IdleState DEF LineInv
<1>3. CountInv'
  BY <1>q, Counting DEF CountInv
<1>4. InvokeInv'
  BY <1>j, IdleState DEF InvokeInv
<1>5. CalmInv'
  BY <1>q, <1>j, IdleState, Counting DEF CalmInv, LineInv, TypeOK
<1>6. ReachInv'
  BY <1>q, <1>j, IdleState DEF ReachInv, LineInv
<1> QED
  BY <1>1, <1>2, <1>3, <1>4, <1>5, <1>6

\* NewBlock keeps the invariant.
LEMMA NewBlockStep ==
  ASSUME SyncInv, NewBlock
  PROVE  SyncInv'
<1> USE DEF SyncInv
<1>j. job # Idle => job \in Jobs /\ job.state # "idle"
  BY JobFields
<1>q. /\ line \in Seq(Tasks) /\ Len(line) \in Nat
      /\ line = << >> <=> Len(line) = 0
      /\ line' # line => /\ line' \in Seq(Tasks) /\ line' # << >>
              /\ Len(line') = Len(line) + 1
              /\ line'[Len(line) + 1] = [op |-> "block", height |-> tip']
              /\ \A i \in 1..Len(line) : line'[i] = line[i]
              /\ Head(line') = IF line = << >> THEN [op |-> "block", height |-> tip']
                 ELSE Head(line)
  <2>1. line \in Seq(Tasks) /\ [op |-> "block", height |-> tip'] \in Tasks
    BY DEF TypeOK, Tasks, NewBlock
  <2>2. line' # line => line' = Append(line, [op |-> "block", height |-> tip'])
    BY DEF NewBlock
  <2> QED
    BY <2>1, <2>2, Enqueue, EmptyQueue
<1> USE DEF NewBlock, Listening, pool
<1>1. TypeOK'
  BY <1>q, <1>j DEF TypeOK
<1>2. LineInv'
  BY <1>q, <1>j, IdleState DEF LineInv, OwnerIs
<1>3. CountInv'
  BY <1>q, Counting DEF CountInv
<1>4. InvokeInv'
  BY <1>j, IdleState DEF InvokeInv, NextIndex
<1>5. CalmInv'
  BY <1>q, <1>j, IdleState, Counting DEF CalmInv
<1>6. ReachInv'
  <2> SUFFICES ASSUME calm, phase \in {"starting", "up"}
               PROVE  ReachInv'
    BY DEF ReachInv
  <2>b. /\ tip' = tip + 1 /\ tip \in Nat
        /\ UNCHANGED << phase, open, job, head, running, refused, calm >>
        /\ open # {} /\ running => line' = Append(line, [op |-> "block", height |-> tip'])
        /\ open = {} => line' = line
    BY DEF TypeOK, LineInv
  <2> HIDE DEF NewBlock
  <2>1. CASE open = {}
    <3>1. \A i \in 1..Len(line) : line[i].op # "block" /\ i = 1
      <4>1. CASE phase = "up"
        BY <1>q, <2>1, <4>1 DEF CalmInv
      <4>2. CASE phase = "starting"
        <5>1. Len(line) = 1 /\ line # << >> /\ Head(line).op = "sync"
          BY <2>1, <4>2 DEF CalmInv, LineInv, OwnerIs
        <5>2. Head(line) = line[1]
          BY <1>q, <5>1, Dequeue
        <5> QED
          BY <5>1, <5>2
      <4> QED
        BY <4>1, <4>2
    <3>2. job.state \notin {"index", "done"}
      BY <1>j, <2>1, IdleState DEF CalmInv, LineInv, OwnerIs
    <3> QED
      BY <2>b, <2>1, <3>1, <3>2 DEF ReachInv
  <2>2. CASE open # {}
    <3>1. line' = Append(line, [op |-> "block", height |-> tip'])
      BY <2>b, <2>2 DEF CalmInv
    <3>2. /\ line' # << >> /\ Len(line') = Len(line) + 1
          /\ line'[Len(line) + 1] = [op |-> "block", height |-> tip + 1]
          /\ \A i \in 1..Len(line) : line'[i] = line[i]
          /\ Head(line') = IF line = << >> THEN [op |-> "block", height |-> tip + 1]
             ELSE Head(line)
      <4>1. line' # line
        BY <1>q, <3>1, Enqueue
      <4> QED
        BY <1>q, <2>b, <4>1
    <3>3. \A i \in 1..Len(line') :
            IF line'[i].op = "block" THEN line'[i].height = tip' - (Len(line') - i) ELSE i = 1
      <4> TAKE i \in 1..Len(line')
      <4>1. CASE i = Len(line')
        BY <1>q, <2>b, <3>2, <4>1
      <4>2. CASE i # Len(line')
        <5>1. i \in 1..Len(line) /\ line'[i] = line[i]
          BY <1>q, <3>2, <4>2
        <5>2. IF line[i].op = "block" THEN line[i].height = tip - (Len(line) - i) ELSE i = 1
          BY <5>1 DEF ReachInv
        <5>3. tip - (Len(line) - i) = tip' - (Len(line') - i)
          BY <1>q, <2>b, <3>2
        <5> QED
          BY <5>1, <5>2, <5>3
      <4> QED
        BY <4>1, <4>2
    <3>4. OwnerIs("sync")' <=> OwnerIs("sync")
      BY <3>2 DEF OwnerIs
    <3>5. ASSUME NEW h \in Int
          PROVE  /\ h + Len(line) - 1 >= tip => h + Len(line') - 1 >= tip'
                 /\ h + Len(line) >= tip => h + Len(line') >= tip'
      BY <1>q, <2>b, <3>2
    <3>6. job.state = "index" => job.last \in Int
      BY <1>j, IdleState DEF Jobs
    <3>7. head \in Int
      BY DEF TypeOK
    <3> QED
      BY <2>b, <2>2, <3>3, <3>4, <3>5, <3>6, <3>7 DEF ReachInv
  <2> QED
    BY <2>1, <2>2
<1> QED
  BY <1>1, <1>2, <1>3, <1>4, <1>5, <1>6

\* BlockTurn keeps the invariant.
LEMMA BlockTurnStep ==
  ASSUME SyncInv, BlockTurn
  PROVE  SyncInv'
<1> USE DEF SyncInv
<1>j. job # Idle => job \in Jobs /\ job.state # "idle"
  BY JobFields
<1>q. /\ line \in Seq(Tasks) /\ line # << >> /\ Len(line) \in Nat /\ Len(line) >= 1
      /\ Head(line) \in Tasks /\ Head(line) = line[1]
      /\ line' \in Seq(Tasks) /\ Len(line') \in Nat /\ Len(line') = Len(line) - 1
      /\ \A i \in 1..Len(line') : line'[i] = line[i + 1]
      /\ line' = << >> <=> Len(line') = 0
  <2>1. line \in Seq(Tasks)
    BY DEF TypeOK, Tasks
  <2>2. line # << >> /\ line' = Tail(line)
    BY <1>j, IdleState DEF OwnerIs, BlockTurn
  <2> QED
    BY <2>1, <2>2, Dequeue, EmptyQueue
<1> USE DEF BlockTurn, pool
<1>1. TypeOK'
  BY <1>q, <1>j DEF TypeOK
<1>2. LineInv'
  BY <1>q, <1>j, IdleState DEF LineInv, OwnerIs
<1>3. CountInv'
  BY <1>q, Counting DEF CountInv
<1>4. InvokeInv'
  BY <1>j, IdleState DEF InvokeInv, NextIndex
<1>5. CalmInv'
  BY <1>q, <1>j, IdleState, Counting DEF CalmInv, LineInv, OwnerIs
<1>6. ReachInv'
  <2>1. job.state = "idle" /\ job' = job
    BY IdleState DEF LineInv, OwnerIs
  <2>2. head \in Int /\ tip \in Nat /\ head' \in {head, head + 1}
    BY DEF TypeOK
  <2>3. UNCHANGED << phase, open, tip, calm >>
    OBVIOUS
  <2>h. head >= -1 /\ head' >= -1
    BY <2>2 DEF ReachInv
  <2> SUFFICES ASSUME calm, phase \in {"starting", "up"}
               PROVE  ReachInv'
    BY <2>3, <2>h DEF ReachInv
  <2>4. /\ \A i \in 1..Len(line) :
             IF line[i].op = "block" THEN line[i].height = tip - (Len(line) - i) ELSE i = 1
        /\ open # {} /\ ~refused => head + Len(line) >= tip
    BY DEF ReachInv, OwnerIs
  <2>5. \A i \in 1..Len(line') :
          IF line'[i].op = "block" THEN line'[i].height = tip - (Len(line') - i) ELSE i = 1
    <3> TAKE i \in 1..Len(line')
    <3>1. i + 1 \in 1..Len(line) /\ line'[i] = line[i + 1]
      BY <1>q
    <3>2. line[i + 1].op = "block" /\ line[i + 1].height = tip - (Len(line) - (i + 1))
      BY <2>4, <3>1
    <3> QED
      BY <1>q, <3>1, <3>2
  <2>6. ASSUME open # {}, ~refused'
        PROVE  head' + Len(line') >= tip
    <3>1. line[1].op = "block" /\ line[1].height = tip - (Len(line) - 1)
      BY <1>q, <2>4 DEF OwnerIs
    <3>2. producing
      BY <1>q, <2>6 DEF CalmInv, LineInv, OwnerIs
    <3>3. ~refused /\ (head' = head => Head(line).height # head + 1)
      <4> DEFINE next == producing /\ Head(line).height = head + 1
      <4>1. \/ next /\ head' = head + 1 /\ refused' = refused
            \/ head' = head /\ refused' = (refused \/ next)
        OBVIOUS
      <4>2. next <=> Head(line).height = head + 1
        BY <3>2
      <4> HIDE DEF next
      <4>3. head' # head \/ head' # head + 1
        BY <2>2
      <4>4. CASE next /\ head' = head + 1 /\ refused' = refused
        BY ONLY <2>6, <4>3, <4>4
      <4>5. CASE head' = head /\ refused' = (refused \/ next)
        BY ONLY <2>6, <4>2, <4>5, Zenon
      <4> QED
        BY ONLY <4>1, <4>4, <4>5
    <3>4. head + Len(line) >= tip
      BY <2>4, <2>6, <3>3
    <3> QED
      BY <1>q, <2>2, <3>1, <3>3, <3>4
  <2> QED
    BY <2>1, <2>3, <2>h, <2>5, <2>6 DEF ReachInv
<1> QED
  BY <1>1, <1>2, <1>3, <1>4, <1>5, <1>6

-----------------------------------------------------------------------------
(* The theorems                                                            *)

\* The invariant holds at first.
LEMMA InitSyncInv == Init => SyncInv
<1> SUFFICES ASSUME Init
             PROVE  SyncInv
  OBVIOUS
<1>1. TypeOK
  <2>1. /\ line \in Seq(Tasks) /\ index \in Clients /\ open \subseteq Clients
        /\ found \subseteq Clients
    BY ZeroClient DEF Init
  <2>2. head \in Int /\ tip \in Nat
    BY BoundsAssumption DEF Init
  <2>3. job = Idle /\ connectedCount = 0 /\ misses = 0 /\ phase = "off" /\ boot = "none"
    BY DEF Init
  <2>4. /\ running \in BOOLEAN /\ isComplete \in BOOLEAN
        /\ producing \in BOOLEAN /\ calm \in BOOLEAN /\ refused \in BOOLEAN
    BY DEF Init
  <2> QED
    BY ONLY <2>1, <2>2, <2>3, <2>4 DEF TypeOK, Tasks
<1>2. Cardinality({}) = 0
  BY FS_EmptySet
<1>3. head >= -1
  BY BoundsAssumption DEF Init
<1> QED
  BY <1>1, <1>2, <1>3, IdleState
  DEF Init, SyncInv, LineInv, CountInv, InvokeInv, CalmInv, ReachInv

\* Every step keeps it.
LEMMA NextSyncInv == SyncInv /\ [Next]_vars => SyncInv'
<1> SUFFICES ASSUME SyncInv, [Next]_vars
             PROVE  SyncInv'
  OBVIOUS
<1>1. CASE UNCHANGED vars
  BY <1>1
  DEF vars, pool, SyncInv, TypeOK, LineInv, CountInv, InvokeInv, CalmInv, ReachInv, OwnerIs,
      NextIndex
<1>2. ASSUME NEW c \in Clients, Open(c) \/ Close(c) \/ CloseUnopened(c)
      PROVE  SyncInv'
  BY <1>2, OpenStep, CloseStep, CloseUnopenedStep
<1>3. CASE SyncStep
  BY <1>3, BeginSyncStep, AskRangeStep, AskClientStep, NoClientStep, AskAgainStep,
     AnswerStep, IndexBlockStep, EndRangeStep, SyncEndsStep, SyncFailsStep
  DEF SyncStep
<1>4. CASE Start \/ StartSync \/ Stop \/ StopRest
  BY <1>4, StartStep, StartSyncStep, StopStep, StopRestStep
<1>5. CASE PauseTurn \/ BlockTurn \/ NewBlock
  BY <1>5, PauseTurnStep, BlockTurnStep, NewBlockStep
<1> QED
  BY <1>1, <1>2, <1>3, <1>4, <1>5 DEF Next

\* Locking, counting and asking are in order, whatever interleaving of closing and
\* opening connections, announced blocks, synchronizations and stop() happens.
THEOREM SyncIsInOrder == Spec => []SyncInv
<1> QED
  BY InitSyncInv, NextSyncInv, PTL DEF Spec

\* A calm node at rest synchronizes and produces if and only if some peer is connected:
\* pause and resume never cross.
THEOREM NodeFollowsPeers == Spec => []FollowsPeers
<1>1. SyncInv => FollowsPeers
  BY DEF SyncInv, CalmInv, FollowsPeers, AtRest
<1> QED
  BY <1>1, SyncIsInOrder, PTL

\* A calm node at rest with a peer has every block of the peers: no announced block is
\* lost between the ranges of a synchronization and the lock.  It may only lack blocks
\* when onBlock has refused one, and then until a synchronization has brought them.
THEOREM NodeIsUpToDate == Spec => []UpToDate
<1>1. SyncInv => UpToDate
  <2> SUFFICES ASSUME SyncInv, calm, ~refused, phase = "up", line = << >>, open # {}
               PROVE  head >= tip
    BY DEF UpToDate, AtRest
  <2>1. head + Len(line) >= tip /\ Len(line) = 0
    BY DEF SyncInv, ReachInv, OwnerIs
  <2> QED
    BY <2>1 DEF SyncInv, TypeOK
<1> QED
  BY <1>1, SyncIsInOrder, PTL

\* A calm node that has stopped does not synchronize or produce any more.
THEOREM StoppedNodeIsOff == Spec => []StoppedIsOff
<1>1. SyncInv => StoppedIsOff
  BY DEF SyncInv, CalmInv, StoppedIsOff
<1> QED
  BY <1>1, SyncIsInOrder, PTL
=============================================================================
