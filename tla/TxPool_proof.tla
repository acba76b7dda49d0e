---------------------------- MODULE TxPool_proof ----------------------------
(***************************************************************************)
(* The pool never lets a transaction through twice, for any transactions,  *)
(* balances and times.  PoolInv says where every transaction that is still *)
(* valid can be; NoReplay follows from it only at the step that adds a     *)
(* block, so the two are inductive together.                               *)
(*                                                                         *)
(* Nobody is overdrawn either, when no bond offers more than its fee.  A   *)
(* balance is what follows on the transactions of a block or of the pool   *)
(* one after the other, so the proof begins with induction over the        *)
(* natural numbers and with the functions that are defined by it.          *)
(***************************************************************************)
EXTENDS TxPool, SequenceTheorems, WellFoundedInduction, TLAPS

\* What is inductive.
IInv == PoolInv /\ NoReplay

-----------------------------------------------------------------------------
(* Queues and chains                                                       *)

\* A queue is empty when its length is 0.
LEMMA EmptyQueue ==
  ASSUME NEW S, NEW q \in Seq(S)
  PROVE  Len(q) \in Nat /\ (q = << >> <=> Len(q) = 0)
  OBVIOUS

\* A queue that takes an element keeps the others in their places.
LEMMA Enqueue ==
  ASSUME NEW S, NEW q \in Seq(S), NEW e \in S
  PROVE  /\ Append(q, e) \in Seq(S) /\ Append(q, e) # << >>
         /\ Len(q) \in Nat /\ Len(Append(q, e)) = Len(q) + 1
         /\ Append(q, e)[Len(q) + 1] = e
         /\ \A i \in 1..Len(q) : Append(q, e)[i] = q[i]
         /\ Head(Append(q, e)) = IF q = << >> THEN e ELSE Head(q)
<1>1. /\ Append(q, e) \in Seq(S) /\ Append(q, e) # << >>
      /\ Len(q) \in Nat /\ Len(Append(q, e)) = Len(q) + 1
      /\ Append(q, e)[Len(q) + 1] = e
      /\ \A i \in 1..Len(q) : Append(q, e)[i] = q[i]
  OBVIOUS
<1>2. Head(Append(q, e)) = Append(q, e)[1]
  BY <1>1
<1>3. CASE q = << >>
  BY <1>1, <1>2, <1>3
<1>4. CASE q # << >>
  <2>1. Len(q) >= 1 /\ Head(q) = q[1]
    BY <1>4
  <2> QED
    BY <1>1, <1>2, <1>4, <2>1
<1> QED
  BY <1>1, <1>3, <1>4

\* A queue that loses its first element keeps the others in their order.
LEMMA Dequeue ==
  ASSUME NEW S, NEW q \in Seq(S), q # << >>
  PROVE  /\ Head(q) \in S /\ Head(q) = q[1]
         /\ Tail(q) \in Seq(S)
         /\ Len(q) \in Nat /\ Len(q) >= 1 /\ Len(Tail(q)) = Len(q) - 1
         /\ \A i \in 1..Len(Tail(q)) : Tail(q)[i] = q[i + 1]
  OBVIOUS

\* What two sequences become together.
LEMMA Concatenation ==
  ASSUME NEW S, NEW p \in Seq(S), NEW q \in Seq(S)
  PROVE  /\ p \o q \in Seq(S) /\ Len(p \o q) = Len(p) + Len(q)
         /\ Len(p) \in Nat /\ Len(q) \in Nat
         /\ \A i \in 1..Len(p \o q) :
              (p \o q)[i] = IF i <= Len(p) THEN p[i] ELSE q[i - Len(p)]
  OBVIOUS

\* Nothing is twice in a sequence, by its places.
LEMMA Injective ==
  ASSUME NEW S, NEW s \in Seq(S)
  PROVE  IsInjective(s) <=> \A i, j \in 1..Len(s) : s[i] = s[j] => i = j
  BY DEF IsInjective

\* Two sequences with nothing twice and nothing in common have nothing twice.
LEMMA NothingTwiceTogether ==
  ASSUME NEW S, NEW p \in Seq(S), NEW q \in Seq(S),
         \A i, j \in 1..Len(p) : p[i] = p[j] => i = j,
         \A i, j \in 1..Len(q) : q[i] = q[j] => i = j,
         \A i \in 1..Len(q) : \A j \in 1..Len(p) : q[i] # p[j]
  PROVE  IsInjective(p \o q)
<1>1. p \o q \in Seq(S) /\ Len(p \o q) = Len(p) + Len(q) /\ Len(p) \in Nat /\ Len(q) \in Nat
  BY Concatenation
<1>2. ASSUME NEW i \in 1..Len(p \o q), NEW j \in 1..Len(p \o q), (p \o q)[i] = (p \o q)[j]
      PROVE  i = j
  <2>1. \A k \in 1..Len(p \o q) : (p \o q)[k] = IF k <= Len(p) THEN p[k] ELSE q[k - Len(p)]
    BY Concatenation
  <2>2. \A k \in 1..Len(p \o q) :
          /\ k <= Len(p) => k \in 1..Len(p)
          /\ k > Len(p) => k - Len(p) \in 1..Len(q)
          /\ k <= Len(p) \/ k > Len(p)
    BY <1>1
  <2>3. CASE i <= Len(p) /\ j <= Len(p)
    BY <1>2, <2>1, <2>2, <2>3
  <2>4. CASE i > Len(p) /\ j > Len(p)
    <3>1. PICK k \in 1..Len(q) : k = i - Len(p)
      BY <2>2, <2>4
    <3>2. PICK m \in 1..Len(q) : m = j - Len(p)
      BY <2>2, <2>4
    <3>3. ~(i <= Len(p)) /\ ~(j <= Len(p))
      BY <1>1, <2>4
    <3>4. q[k] = q[m]
      BY <1>2, <2>1, <3>1, <3>2, <3>3
    <3>5. k = m
      BY <3>4
    <3> QED
      BY <1>1, <3>1, <3>2, <3>5
  <2>5. CASE i <= Len(p) /\ j > Len(p)
    <3>1. PICK m \in 1..Len(q) : m = j - Len(p)
      BY <2>2, <2>5
    <3>2. i \in 1..Len(p) /\ ~(j <= Len(p))
      BY <1>1, <2>2, <2>5
    <3>3. p[i] = q[m]
      BY <1>2, <2>1, <2>5, <3>1, <3>2
    <3> QED
      BY <3>2, <3>3
  <2>6. CASE i > Len(p) /\ j <= Len(p)
    <3>1. PICK k \in 1..Len(q) : k = i - Len(p)
      BY <2>2, <2>6
    <3>2. j \in 1..Len(p) /\ ~(i <= Len(p))
      BY <1>1, <2>2, <2>6
    <3>3. q[k] = p[j]
      BY <1>2, <2>1, <2>6, <3>1, <3>2
    <3> QED
      BY <3>2, <3>3
  <2> QED
    BY <2>2, <2>3, <2>4, <2>5, <2>6
<1> QED
  BY <1>1, <1>2, Injective

\* Nothing is twice in an empty chain.
LEMMA NothingTwice == IsInjective(<< >>)
<1>1. << >> \in Seq({}) /\ Len(<< >>) = 0
  OBVIOUS
<1>2. \A i, j \in 1..Len(<< >>) : << >>[i] = << >>[j] => i = j
  BY <1>1
<1> QED
  BY <1>1, <1>2, Injective

\* The transactions of a block of a peer are a sequence of transactions.
LEMMA Content ==
  ASSUME NEW content \in SeqOf(Txs, MaxBlock)
  PROVE  content \in Seq(Txs)
<1>1. PICK m \in 0..MaxBlock : content \in [1..m -> Txs]
  BY DEF SeqOf
<1> QED
  BY <1>1, SeqDef, NumbersAssumption

\* A transaction that passes the validation is new and not on the chain.
LEMMA ValidIsNew ==
  ASSUME NEW t \in Txs, NEW pending, TypeOK, Valid(t, pending), ~LastInstant(t)
  PROVE  t \notin indexed /\ ~(now >= t.time + TxExpiry) /\ ~Spent(t)
<1>1. t.time \in Nat /\ now \in Nat /\ TxExpiry \in Nat
  BY TxAssumption, NumbersAssumption DEF TypeOK
<1>2. t \notin indexed /\ now - t.time <= TxExpiry /\ now - t.time # TxExpiry
  BY DEF Valid, Timely, LastInstant
<1> QED
  BY <1>1, <1>2 DEF Spent

\* A block at work has all the fields of one.
LEMMA BlockShape ==
  ASSUME TypeOK, block.stage # "none"
  PROVE  block \in Blocks /\ block # NoBlock
  BY DEF TypeOK, NoBlock

\* No block at work is at no stage.
LEMMA NoStage == NoBlock.stage = "none"
  BY DEF NoBlock

-----------------------------------------------------------------------------
(* Every action keeps the invariants                                       *)

\* Receive keeps the invariant.
LEMMA ReceiveStep ==
  ASSUME IInv, NEW t \in Txs, Receive(t)
  PROVE  IInv'
<1> USE DEF IInv, PoolInv
<1>q. /\ line \in Seq(Tasks) /\ Len(line) \in Nat /\ line' \in Seq(Tasks) /\ line' # << >>
      /\ Len(line') = Len(line) + 1 /\ line'[Len(line) + 1] = Push(t)
      /\ \A i \in 1..Len(line) : line'[i] = line[i]
      /\ Head(line') = IF line = << >> THEN Push(t) ELSE Head(line)
  <2>1. line \in Seq(Tasks) /\ Push(t) \in Tasks
    BY DEF TypeOK, Tasks, Push
  <2>2. line' = Append(line, Push(t))
    BY DEF Receive
  <2> QED
    BY <2>1, <2>2, Enqueue
<1>b. block.stage # "none" => block \in Blocks /\ block # NoBlock
  BY BlockShape
<1> USE DEF Receive
<1>1. TypeOK'
  BY <1>q, <1>b DEF TypeOK
<1>2. KnownInv'
  BY <1>q, <1>b DEF KnownInv, OwnerIs
<1>3. WaitInv'
  BY <1>q, <1>b, NoStage DEF WaitInv, Push, PopAll
<1>4. ChainInv'
  <2>1. UNCHANGED << txs, indexed, block, headTime, now, chain, calm >> /\ ChainInv
    OBVIOUS
  <2> QED
    BY ONLY <2>1 DEF ChainInv, Done, Spent
<1>5. NoReplay'
  BY DEF NoReplay
<1> QED
  BY <1>1, <1>2, <1>3, <1>4, <1>5

\* Forget keeps the invariant.
LEMMA ForgetStep ==
  ASSUME IInv, NEW t \in Txs, Forget(t)
  PROVE  IInv'
<1> USE DEF IInv, PoolInv
<1>b. block.stage # "none" => block \in Blocks /\ block # NoBlock
  BY BlockShape
<1> USE DEF Forget
<1>1. TypeOK'
  BY <1>b DEF TypeOK
<1>2. KnownInv'
  BY <1>b DEF KnownInv, OwnerIs
<1>3. WaitInv'
  BY <1>b, NoStage DEF WaitInv
<1>4. ChainInv'
  BY <1>b, NoStage, NumbersAssumption, TxAssumption DEF ChainInv, Done, Spent
<1>5. NoReplay'
  BY DEF NoReplay
<1> QED
  BY <1>1, <1>2, <1>3, <1>4, <1>5

\* Expire keeps the invariant.
LEMMA ExpireStep ==
  ASSUME IInv, NEW t \in Txs, Expire(t)
  PROVE  IInv'
<1> USE DEF IInv, PoolInv
<1>b. block.stage # "none" => block \in Blocks /\ block # NoBlock
  BY BlockShape
<1> USE DEF Expire
<1>1. TypeOK'
  BY <1>b DEF TypeOK
<1>2. KnownInv'
  BY <1>b DEF KnownInv, OwnerIs
<1>3. WaitInv'
  BY <1>b, NoStage DEF WaitInv
<1>4. ChainInv'
  BY <1>b, NoStage, NumbersAssumption, TxAssumption DEF ChainInv, Done, Spent
<1>5. NoReplay'
  BY DEF NoReplay
<1> QED
  BY <1>1, <1>2, <1>3, <1>4, <1>5

\* SyncBlock keeps the invariant.
LEMMA SyncBlockStep ==
  ASSUME IInv, NEW t \in Txs, SyncBlock(t)
  PROVE  IInv'
<1> USE DEF IInv, PoolInv
<1>b. block.stage # "none" => block \in Blocks /\ block # NoBlock
  BY BlockShape
<1> USE DEF SyncBlock, MayBegin
<1>1. TypeOK'
  <2>1. chain' \in Seq(Txs)
    BY Enqueue DEF TypeOK
  <2> QED
    BY <2>1 DEF TypeOK
<1>2. KnownInv'
  BY <1>b DEF KnownInv, OwnerIs
<1>3. WaitInv'
  BY <1>b, NoStage DEF WaitInv
<1>4. ChainInv'
  BY <1>b, NoStage, NumbersAssumption, TxAssumption DEF ChainInv, TypeOK
<1>5. NoReplay'
  BY DEF NoReplay
<1> QED
  BY <1>1, <1>2, <1>3, <1>4, <1>5

\* PushDuplicate keeps the invariant.
LEMMA PushDuplicateStep ==
  ASSUME IInv, PushDuplicate
  PROVE  IInv'
<1> USE DEF IInv, PoolInv
<1>q. /\ line \in Seq(Tasks) /\ line # << >> /\ Len(line) \in Nat /\ Len(line) >= 1
      /\ Head(line) \in Tasks /\ Head(line) = line[1]
      /\ line' \in Seq(Tasks) /\ Len(line') \in Nat /\ Len(line') = Len(line) - 1
      /\ \A i \in 1..Len(line') : line'[i] = line[i + 1]
  <2>1. line \in Seq(Tasks)
    BY DEF TypeOK
  <2>2. line # << >> /\ line' = Tail(line)
    BY DEF OwnerIs, PushDuplicate
  <2> QED
    BY <2>1, <2>2, Dequeue, EmptyQueue
<1>b. block.stage # "none" => block \in Blocks /\ block # NoBlock
  BY BlockShape
<1> USE DEF PushDuplicate, OwnerIs
<1>1. TypeOK'
  BY <1>q, <1>b DEF TypeOK
<1>2. KnownInv'
  BY <1>q, <1>b DEF KnownInv
<1>3. WaitInv'
  BY <1>q, <1>b, NoStage DEF WaitInv
<1>4. ChainInv'
  BY <1>b, NoStage, NumbersAssumption, TxAssumption DEF ChainInv, Done, Spent
<1>5. NoReplay'
  BY DEF NoReplay
<1> QED
  BY <1>1, <1>2, <1>3, <1>4, <1>5

\* PushCheck keeps the invariant.
LEMMA PushCheckStep ==
  ASSUME IInv, PushCheck
  PROVE  IInv'
<1> USE DEF IInv, PoolInv
<1>b. block.stage # "none" => block \in Blocks /\ block # NoBlock
  BY BlockShape
<1> USE DEF PushCheck, OwnerIs, Known
<1>1. TypeOK'
  BY <1>b DEF TypeOK
<1>2. KnownInv'
  BY <1>b DEF KnownInv
<1>3. WaitInv'
  BY <1>b, NoStage DEF WaitInv
<1>4. ChainInv'
  BY <1>b, NoStage, NumbersAssumption, TxAssumption DEF ChainInv, Done, Spent
<1>5. NoReplay'
  BY DEF NoReplay
<1> QED
  BY <1>1, <1>2, <1>3, <1>4, <1>5

\* PushInvalid keeps the invariant.
LEMMA PushInvalidStep ==
  ASSUME IInv, PushInvalid
  PROVE  IInv'
<1> USE DEF IInv, PoolInv
<1>q. /\ line \in Seq(Tasks) /\ line # << >> /\ Len(line) \in Nat /\ Len(line) >= 1
      /\ Head(line) \in Tasks /\ Head(line) = line[1]
      /\ line' \in Seq(Tasks) /\ Len(line') \in Nat /\ Len(line') = Len(line) - 1
      /\ \A i \in 1..Len(line') : line'[i] = line[i + 1]
  <2>1. line \in Seq(Tasks)
    BY DEF TypeOK
  <2>2. line # << >> /\ line' = Tail(line)
    BY DEF OwnerIs, PushInvalid
  <2> QED
    BY <2>1, <2>2, Dequeue, EmptyQueue
<1>b. block.stage # "none" => block \in Blocks /\ block # NoBlock
  BY BlockShape
<1> USE DEF PushInvalid, OwnerIs
<1>1. TypeOK'
  BY <1>q, <1>b DEF TypeOK
<1>2. KnownInv'
  BY <1>q, <1>b DEF KnownInv
<1>3. WaitInv'
  BY <1>q, <1>b, NoStage DEF WaitInv
<1>4. ChainInv'
  BY <1>b, NoStage, NumbersAssumption, TxAssumption DEF ChainInv, Done, Spent
<1>5. NoReplay'
  BY DEF NoReplay
<1> QED
  BY <1>1, <1>2, <1>3, <1>4, <1>5

\* PushAccepted keeps the invariant.
LEMMA PushAcceptedStep ==
  ASSUME IInv, PushAccepted
  PROVE  IInv'
<1> USE DEF IInv, PoolInv
<1>q. /\ line \in Seq(Tasks) /\ line # << >> /\ Len(line) \in Nat /\ Len(line) >= 1
      /\ Head(line) \in Tasks /\ Head(line) = line[1]
      /\ line' \in Seq(Tasks) /\ Len(line') \in Nat /\ Len(line') = Len(line) - 1
      /\ \A i \in 1..Len(line') : line'[i] = line[i + 1]
  <2>1. line \in Seq(Tasks)
    BY DEF TypeOK
  <2>2. line # << >> /\ line' = Tail(line)
    BY DEF OwnerIs, PushAccepted
  <2> QED
    BY <2>1, <2>2, Dequeue, EmptyQueue
<1>b. block.stage # "none" => block \in Blocks /\ block # NoBlock
  BY BlockShape
<1>t. PICK t :
      /\ t = Head(line).tx
      /\ t \in Txs /\ Valid(t, txs) /\ txs \in Seq(Txs)
      /\ txs' \in Seq(Txs) /\ Len(txs) \in Nat /\ Len(txs') = Len(txs) + 1
      /\ txs'[Len(txs) + 1] = t /\ \A i \in 1..Len(txs) : txs'[i] = txs[i]
      /\ calm' = (calm /\ ~LastInstant(t)) /\ checked
  <2>1. Head(line).op = "push" /\ PopAll.op = "pop"
    BY DEF PushAccepted, OwnerIs, PopAll
  <2>2. PICK t \in Txs : t = Head(line).tx
    BY <1>q, <2>1 DEF Tasks
  <2>3. txs \in Seq(Txs) /\ txs' = Append(txs, t)
    BY <2>2 DEF PushAccepted, TypeOK
  <2>4. /\ txs' \in Seq(Txs) /\ Len(txs) \in Nat /\ Len(txs') = Len(txs) + 1
        /\ txs'[Len(txs) + 1] = t /\ \A i \in 1..Len(txs) : txs'[i] = txs[i]
    BY <2>2, <2>3, Enqueue
  <2>5. Valid(t, txs) /\ checked /\ calm' = (calm /\ ~LastInstant(t))
    BY <2>2 DEF PushAccepted
  <2> QED
    BY <2>2, <2>3, <2>4, <2>5
<1> USE DEF PushAccepted, OwnerIs
<1>1. TypeOK'
  <2>1. UNCHANGED << indexed, block, headTime, now, chain >> /\ checked' = FALSE
    OBVIOUS
  <2>2. calm' \in BOOLEAN
    OBVIOUS
  <2> QED
    BY <1>q, <1>t, <2>1, <2>2 DEF TypeOK
<1>2. KnownInv'
  <2>1. t \notin txSet /\ txSet' = txSet \union {t} /\ now' = now /\ checked' = FALSE
    BY <1>t DEF KnownInv
  <2>2. \A i \in 1..Len(txs') : txs'[i] \in txSet' \/ now' >= txs'[i].time + TxExpiry
    BY <1>t, <2>1 DEF KnownInv
  <2>3. ASSUME calm'
        PROVE  IsInjective(txs')
    <3>1. calm /\ ~(now >= t.time + TxExpiry)
      BY <1>t, <2>3, ValidIsNew
    <3>2. \A i \in 1..Len(txs) : txs[i] # t
      BY <2>1, <3>1 DEF KnownInv
    <3>3. \A i, j \in 1..Len(txs) : txs[i] = txs[j] => i = j
      BY <3>1, Injective DEF KnownInv, TypeOK
    <3>4. \A i, j \in 1..Len(txs') : txs'[i] = txs'[j] => i = j
      BY <1>t, <3>2, <3>3
    <3> QED
      BY <1>t, <3>4, Injective
  <2> QED
    BY <2>1, <2>2, <2>3 DEF KnownInv
<1>3. WaitInv'
  BY <1>q, <1>b, NoStage DEF WaitInv
<1>4. ChainInv'
  <2>1. UNCHANGED << indexed, block, headTime, now, chain >>
    OBVIOUS
  <2>2. ChainInv /\ (calm' => calm /\ ~Spent(t))
    BY <1>t, ValidIsNew
  <2>3. ASSUME calm', block.stage # "post", NEW i \in 1..Len(txs'), NEW j \in 1..Len(chain)
        PROVE  txs'[i] # chain[j]
    <3>1. CASE i = Len(txs) + 1
      BY <1>t, <2>2, <2>3, <3>1 DEF ChainInv
    <3>2. CASE i # Len(txs) + 1
      BY <1>t, <2>2, <2>3, <3>2 DEF ChainInv
    <3> QED
      BY <3>1, <3>2
  <2> QED
    BY ONLY <2>1, <2>2, <2>3, ZenonT(60) DEF ChainInv, Done, Spent
<1>5. NoReplay'
  BY DEF NoReplay
<1> QED
  BY <1>1, <1>2, <1>3, <1>4, <1>5

\* Produce keeps the invariant.
LEMMA ProduceStep ==
  ASSUME IInv, Produce
  PROVE  IInv'
<1> USE DEF IInv, PoolInv
<1>q. /\ line \in Seq(Tasks) /\ Len(line) \in Nat /\ line' \in Seq(Tasks) /\ line' # << >>
      /\ Len(line') = Len(line) + 1 /\ line'[Len(line) + 1] = PopAll
      /\ \A i \in 1..Len(line) : line'[i] = line[i]
      /\ Head(line') = IF line = << >> THEN PopAll ELSE Head(line)
  <2>1. line \in Seq(Tasks) /\ PopAll \in Tasks
    BY DEF TypeOK, Tasks
  <2>2. line' = Append(line, PopAll)
    BY DEF Produce
  <2> QED
    BY <2>1, <2>2, Enqueue
<1>b. block.stage # "none" => block \in Blocks /\ block # NoBlock
  BY BlockShape
<1> USE DEF Produce, Block, MayBegin
<1>1. TypeOK'
  BY <1>q, <1>b DEF TypeOK, Blocks
<1>2. KnownInv'
  BY <1>q, <1>b DEF KnownInv, OwnerIs
<1>3. WaitInv'
  BY <1>q, <1>b, NoStage DEF WaitInv
<1>4. ChainInv'
  BY <1>b, NoStage, NumbersAssumption, TxAssumption DEF ChainInv, Spent, TypeOK
<1>5. NoReplay'
  BY DEF NoReplay
<1> QED
  BY <1>1, <1>2, <1>3, <1>4, <1>5

\* Popped keeps the invariant.
LEMMA PoppedStep ==
  ASSUME IInv, Popped
  PROVE  IInv'
<1> USE DEF IInv, PoolInv
<1>q. /\ line \in Seq(Tasks) /\ line # << >> /\ Len(line) \in Nat /\ Len(line) >= 1
      /\ Head(line) \in Tasks /\ Head(line) = line[1]
      /\ line' \in Seq(Tasks) /\ Len(line') \in Nat /\ Len(line') = Len(line) - 1
      /\ \A i \in 1..Len(line') : line'[i] = line[i + 1]
  <2>1. line \in Seq(Tasks)
    BY DEF TypeOK
  <2>2. line # << >> /\ line' = Tail(line)
    BY DEF OwnerIs, Popped
  <2> QED
    BY <2>1, <2>2, Dequeue, EmptyQueue
<1>b. block.stage # "none" => block \in Blocks /\ block # NoBlock
  BY BlockShape
<1> USE DEF Popped, Block, OwnerIs
<1>1. TypeOK'
  BY <1>q, <1>b DEF TypeOK, Blocks
<1>2. KnownInv'
  BY <1>b, <1>q, NothingTwice DEF KnownInv
<1>3. WaitInv'
  BY <1>q, <1>b, NoStage DEF WaitInv, Tasks
<1>4. ChainInv'
  BY <1>b, NoStage, NumbersAssumption, TxAssumption DEF ChainInv, Done, Spent
<1>5. NoReplay'
  BY DEF NoReplay
<1> QED
  BY <1>1, <1>2, <1>3, <1>4, <1>5

\* PeerBlock keeps the invariant.
LEMMA PeerBlockStep ==
  ASSUME IInv, PeerBlock
  PROVE  IInv'
<1> USE DEF IInv, PoolInv
<1>b. block.stage # "none" => block \in Blocks /\ block # NoBlock
  BY BlockShape
<1> USE DEF PeerBlock, Block, MayBegin
<1>1. TypeOK'
  <2>1. PICK content \in Seq(Txs) : block' = Block("add", FALSE, content, now)
    BY Content
  <2>2. block' \in Blocks
    BY <2>1 DEF TypeOK, Blocks
  <2>3. UNCHANGED << txs, txSet, line, checked, indexed, headTime, now, chain, calm, crowded >>
    OBVIOUS
  <2> QED
    BY ONLY <2>2, <2>3, TypeOK DEF TypeOK
<1>2. KnownInv'
  BY <1>b DEF KnownInv, OwnerIs
<1>3. WaitInv'
  BY <1>b, NoStage DEF WaitInv
<1>4. ChainInv'
  BY <1>b, NoStage, NumbersAssumption, TxAssumption DEF ChainInv, Done, Spent, TypeOK
<1>5. NoReplay'
  BY DEF NoReplay
<1> QED
  BY <1>1, <1>2, <1>3, <1>4, <1>5

\* RegisterTx keeps the invariant.
LEMMA RegisterTxStep ==
  ASSUME IInv, RegisterTx
  PROVE  IInv'
<1> USE DEF IInv, PoolInv
<1>b. block.stage # "none" => block \in Blocks /\ block # NoBlock
  BY BlockShape
<1>r. PICK t :
      /\ t = Head(block.todo)
      /\ block.stage = "add" /\ block \in Blocks /\ block' \in Blocks /\ block' # NoBlock
      /\ block'.stage = "add" /\ block'.txs = block.txs /\ block'.time = block.time
      /\ t \in Txs /\ t = block.todo[1] /\ Valid(t, << >>)
      /\ Len(block.todo) \in Nat /\ Len(block.todo) >= 1
      /\ Len(block'.todo) = Len(block.todo) - 1
      /\ \A i \in 1..Len(block'.todo) : block'.todo[i] = block.todo[i + 1]
      /\ indexed' = indexed \union {t} /\ calm' = (calm /\ ~LastInstant(t))
  <2>1. /\ block.stage = "add" /\ block \in Blocks /\ block.todo # << >>
        /\ block.todo \in Seq(Txs)
    BY <1>b DEF RegisterTx, Blocks
  <2>2. /\ Head(block.todo) \in Txs /\ Head(block.todo) = block.todo[1]
        /\ Tail(block.todo) \in Seq(Txs)
        /\ Len(block.todo) \in Nat /\ Len(block.todo) >= 1
        /\ Len(Tail(block.todo)) = Len(block.todo) - 1
        /\ \A i \in 1..Len(Tail(block.todo)) : Tail(block.todo)[i] = block.todo[i + 1]
    BY <2>1, Dequeue
  <2>3. block' = [block EXCEPT !.todo = Tail(block.todo)]
    BY DEF RegisterTx
  <2>4. /\ block' \in Blocks /\ block'.stage = "add" /\ block'.txs = block.txs
        /\ block'.time = block.time /\ block'.todo = Tail(block.todo)
    BY <2>1, <2>2, <2>3 DEF Blocks
  <2>5. block' # NoBlock
    BY <2>4, NoStage
  <2> QED
    BY <2>1, <2>2, <2>4, <2>5 DEF RegisterTx
<1> USE DEF RegisterTx
<1>1. TypeOK'
  <2>1. calm' \in BOOLEAN
    OBVIOUS
  <2>2. UNCHANGED << txs, txSet, line, checked, headTime, now, chain >>
    OBVIOUS
  <2> QED
    BY <1>r, <2>1, <2>2 DEF TypeOK
<1>2. KnownInv'
  BY <1>b DEF KnownInv, OwnerIs
<1>3. WaitInv'
  BY <1>b, NoStage DEF WaitInv
<1>4. ChainInv'
  <2>1. UNCHANGED << txs, headTime, now, chain >> /\ ChainInv
    OBVIOUS
  <2>2. calm' => calm /\ ~Spent(t)
    BY <1>r, ValidIsNew
  <2>3. PICK s \in Seq(Txs), n \in Nat :
          s = block.txs /\ s = block'.txs /\ n = Done /\ Done' = n + 1
    BY <1>b, <1>r DEF Done, Blocks, ChainInv
  <2>4. t = s[n + 1] /\ \A i \in 1..Len(block.todo) : block.todo[i] = s[n + i]
    BY <1>r, <2>1, <2>3 DEF ChainInv
  <2>5. ASSUME NEW i \in 1..Len(block'.todo)
        PROVE  block'.todo[i] = s[(n + 1) + i]
    <3>1. i + 1 \in 1..Len(block.todo) /\ n + (i + 1) = (n + 1) + i
      BY <1>r, <2>3, SMTT(30)
    <3>2. block.todo[i + 1] = s[n + (i + 1)]
      BY <2>4, <3>1
    <3> QED
      BY <1>r, <3>1, <3>2
  <2>6. ASSUME calm'
        PROVE  /\ \A i \in 1..Len(chain) : Spent(chain[i]) /\ t # chain[i]
               /\ \A i \in 1..n :
                    /\ Spent(s[i]) /\ t # s[i]
                    /\ \A j \in 1..n : s[i] = s[j] => i = j
                    /\ \A j \in 1..Len(chain) : s[i] # chain[j]
    BY <1>r, <2>1, <2>2, <2>3, <2>6 DEF ChainInv
  <2>7. Spent(t)' /\ \A u : Spent(u) => Spent(u)'
    BY <1>r, <2>1 DEF Spent
  <2>8. \A i \in 1..(n + 1) : i \in 1..n \/ i = n + 1
    BY <2>3
  <2>9. ASSUME calm'
        PROVE  \A i \in 1..(n + 1) :
                 /\ Spent(s[i])'
                 /\ \A j \in 1..(n + 1) : s[i] = s[j] => i = j
                 /\ \A j \in 1..Len(chain) : s[i] # chain[j]
    BY <2>3, <2>4, <2>6, <2>7, <2>8, <2>9
  <2>10. calm' => \A i \in 1..Len(txs) : \A j \in 1..Len(chain) : txs[i] # chain[j]
    BY <1>r, <2>1, <2>2 DEF ChainInv
  <2>11. calm' => \A i \in 1..Len(chain') : Spent(chain[i])'
    BY <2>1, <2>6, <2>7
  <2>12. block'.time <= now' /\ headTime' <= now' /\ Done' >= 0
    BY <1>b, <1>r, <2>1, <2>3 DEF ChainInv
  <2> QED
    BY ONLY <1>r, <2>1, <2>3, <2>5, <2>9, <2>10, <2>11, <2>12 DEF ChainInv
<1>5. NoReplay'
  BY DEF NoReplay
<1> QED
  BY <1>1, <1>2, <1>3, <1>4, <1>5

\* BlockFails keeps the invariant.
LEMMA BlockFailsStep ==
  ASSUME IInv, BlockFails
  PROVE  IInv'
<1> USE DEF IInv, PoolInv
<1>b. block.stage # "none" => block \in Blocks /\ block # NoBlock
  BY BlockShape
<1> USE DEF BlockFails
<1>1. TypeOK'
  BY <1>b DEF TypeOK
<1>2. KnownInv'
  BY <1>b DEF KnownInv, OwnerIs
<1>3. WaitInv'
  BY <1>b, NoStage DEF WaitInv
<1>4. ChainInv'
  BY <1>b, NoStage, NumbersAssumption, TxAssumption DEF ChainInv, Spent
<1>5. NoReplay'
  BY DEF NoReplay
<1> QED
  BY <1>1, <1>2, <1>3, <1>4, <1>5

\* BlockAdded keeps the invariant.
LEMMA BlockAddedStep ==
  ASSUME IInv, BlockAdded
  PROVE  IInv'
<1> USE DEF IInv, PoolInv
<1>q. /\ line \in Seq(Tasks) /\ Len(line) \in Nat /\ line' \in Seq(Tasks) /\ line' # << >>
      /\ Len(line') = Len(line) + 1 /\ line'[Len(line) + 1] = PopAll
      /\ \A i \in 1..Len(line) : line'[i] = line[i]
      /\ Head(line') = IF line = << >> THEN PopAll ELSE Head(line)
  <2>1. line \in Seq(Tasks) /\ PopAll \in Tasks
    BY DEF TypeOK, Tasks
  <2>2. line' = Append(line, PopAll)
    BY DEF BlockAdded
  <2> QED
    BY <2>1, <2>2, Enqueue
<1>b. block.stage # "none" => block \in Blocks /\ block # NoBlock
  BY BlockShape
<1> USE DEF BlockAdded, Block
<1>1. TypeOK'
  <2>1. chain' \in Seq(Txs) /\ headTime' \in Nat /\ block' \in Blocks
    BY <1>b, Concatenation DEF TypeOK, Blocks
  <2>2. crowded' \in BOOLEAN
    BY ONLY crowded' = (crowded \/ IsCrowded)
  <2> QED
    BY <1>q, <2>1, <2>2 DEF TypeOK
<1>2. KnownInv'
  BY <1>q, <1>b DEF KnownInv, OwnerIs
<1>3. WaitInv'
  BY <1>q, <1>b, NoStage DEF WaitInv
<1>4. ChainInv'
  <2>1. /\ Len(block.todo) = 0 /\ Done = Len(block.txs)
        /\ chain \in Seq(Txs) /\ block.txs \in Seq(Txs)
    BY <1>b DEF Done, Blocks, TypeOK
  <2>2. calm => \A i \in 1..Len(chain') : Spent(chain'[i])
    BY <2>1, Concatenation DEF ChainInv
  <2>3. block'.stage = "post" /\ headTime' <= now /\ block'.time <= now
    BY <1>b DEF ChainInv
  <2>4. UNCHANGED << indexed, now, calm >>
    OBVIOUS
  <2> QED
    BY ONLY <2>2, <2>3, <2>4 DEF ChainInv, Spent
<1>5. NoReplay'
  <2>1. /\ Len(block.todo) = 0 /\ Done = Len(block.txs)
        /\ chain \in Seq(Txs) /\ block.txs \in Seq(Txs)
    BY <1>b DEF Done, Blocks, TypeOK
  <2>2. ASSUME calm
        PROVE  /\ \A i, j \in 1..Len(chain) : chain[i] = chain[j] => i = j
               /\ \A i, j \in 1..Len(block.txs) : block.txs[i] = block.txs[j] => i = j
               /\ \A i \in 1..Len(block.txs) :
                    \A j \in 1..Len(chain) : block.txs[i] # chain[j]
    <3>1. \A i, j \in 1..Len(chain) : chain[i] = chain[j] => i = j
      BY <2>1, <2>2, Injective DEF NoReplay
    <3>2. \A i \in 1..Done :
            /\ \A j \in 1..Done : block.txs[i] = block.txs[j] => i = j
            /\ \A j \in 1..Len(chain) : block.txs[i] # chain[j]
      BY <2>2 DEF ChainInv
    <3> QED
      BY ONLY <2>1, <3>1, <3>2
  <2>3. calm => IsInjective(chain \o block.txs)
    BY <2>1, <2>2, NothingTwiceTogether
  <2> QED
    BY <2>3 DEF NoReplay
<1> QED
  BY <1>1, <1>2, <1>3, <1>4, <1>5

\* PostProduction keeps the invariant.
LEMMA PostProductionStep ==
  ASSUME IInv, PostProduction
  PROVE  IInv'
<1> USE DEF IInv, PoolInv
<1>q. /\ line \in Seq(Tasks) /\ line # << >> /\ Len(line) \in Nat /\ Len(line) >= 1
      /\ Head(line) \in Tasks /\ Head(line) = line[1]
      /\ line' \in Seq(Tasks) /\ Len(line') \in Nat /\ Len(line') = Len(line) - 1
      /\ \A i \in 1..Len(line') : line'[i] = line[i + 1]
  <2>1. line \in Seq(Tasks)
    BY DEF TypeOK
  <2>2. line # << >> /\ line' = Tail(line)
    BY DEF OwnerIs, PostProduction
  <2> QED
    BY <2>1, <2>2, Dequeue, EmptyQueue
<1>b. block.stage # "none" => block \in Blocks /\ block # NoBlock
  BY BlockShape
<1> USE DEF PostProduction, OwnerIs
<1>1. TypeOK'
  BY <1>q, <1>b DEF TypeOK
<1>2. KnownInv'
  BY <1>b, <1>q, NothingTwice DEF KnownInv
<1>3. WaitInv'
  BY <1>q, <1>b, NoStage DEF WaitInv, Tasks
<1>4. ChainInv'
  BY <1>b, NoStage, NumbersAssumption, TxAssumption DEF ChainInv, Spent
<1>5. NoReplay'
  BY DEF NoReplay
<1> QED
  BY <1>1, <1>2, <1>3, <1>4, <1>5

\* Restart keeps the invariant.
LEMMA RestartStep ==
  ASSUME IInv, Restart
  PROVE  IInv'
<1> USE DEF IInv, PoolInv
<1>b. block.stage # "none" => block \in Blocks /\ block # NoBlock
  BY BlockShape
<1> USE DEF Restart
<1>1. TypeOK'
  <2>1. txs' \in Seq(Txs) /\ line' \in Seq(Tasks)
    OBVIOUS
  <2>2. UNCHANGED << indexed, headTime, now, chain, calm >>
    OBVIOUS
  <2> QED
    BY <2>1, <2>2 DEF TypeOK
<1>2. KnownInv'
  BY NothingTwice DEF KnownInv
<1>3. WaitInv'
  BY <1>b, NoStage DEF WaitInv
<1>4. ChainInv'
  BY <1>b, NoStage, NumbersAssumption, TxAssumption DEF ChainInv, Spent
<1>5. NoReplay'
  BY DEF NoReplay
<1> QED
  BY <1>1, <1>2, <1>3, <1>4, <1>5

\* Tick keeps the invariant.
LEMMA TickStep ==
  ASSUME IInv, Tick
  PROVE  IInv'
<1> USE DEF IInv, PoolInv
<1>b. block.stage # "none" => block \in Blocks /\ block # NoBlock
  BY BlockShape
<1> USE DEF Tick
<1>1. TypeOK'
  BY <1>b DEF TypeOK
<1>2. KnownInv'
  <2>1. UNCHANGED << txs, txSet, line, checked, calm >> /\ now' >= now
    BY DEF TypeOK
  <2>2. \A i \in 1..Len(txs) : now >= txs[i].time + TxExpiry => now' >= txs[i].time + TxExpiry
    BY TxAssumption, NumbersAssumption DEF TypeOK
  <2> QED
    BY <2>1, <2>2 DEF KnownInv, OwnerIs
<1>3. WaitInv'
  BY <1>b, NoStage DEF WaitInv
<1>4. ChainInv'
  <2>1. UNCHANGED << txs, indexed, block, headTime, chain, calm >> /\ now' = now + 1
    OBVIOUS
  <2>2. \A u \in Txs : Spent(u) => Spent(u)'
    BY <2>1, TxAssumption, NumbersAssumption DEF TypeOK, Spent
  <2>3. headTime \in Nat /\ now \in Nat /\ now' \in Nat
    BY <2>1 DEF TypeOK
  <2>4. headTime' <= now' /\ (block' # NoBlock => block'.time <= now')
    <3>1. block # NoBlock => block.time \in Nat /\ block.time <= now
      BY <1>b, <2>3 DEF ChainInv, Blocks, TypeOK
    <3>2. headTime <= now
      BY DEF ChainInv
    <3> QED
      BY <2>1, <2>3, <3>1, <3>2
  <2>5. calm => \A i \in 1..Len(chain) : Spent(chain[i])'
    <3>1. \A i \in 1..Len(chain) : chain[i] \in Txs
      BY DEF TypeOK
    <3>2. calm => \A i \in 1..Len(chain) : Spent(chain[i])
      BY DEF ChainInv
    <3> QED
      BY <2>2, <3>1, <3>2
  <2>6. block.stage = "add" =>
          /\ Done >= 0 /\ Done \in Int /\ Done <= Len(block.txs)
          /\ \A i \in 1..Len(block.txs) : block.txs[i] \in Txs
    BY <1>b DEF Done, Blocks, ChainInv
  <2>7. block.stage = "add" /\ calm =>
          \A i \in 1..Done :
            /\ Spent(block.txs[i])'
            /\ \A j \in 1..Done : block.txs[i] = block.txs[j] => i = j
            /\ \A j \in 1..Len(chain) : block.txs[i] # chain[j]
    <3>1. ASSUME block.stage = "add", calm
          PROVE  \A i \in 1..Done :
            /\ Spent(block.txs[i])
            /\ \A j \in 1..Done : block.txs[i] = block.txs[j] => i = j
            /\ \A j \in 1..Len(chain) : block.txs[i] # chain[j]
      BY <3>1 DEF ChainInv
    <3>2. block.stage = "add" =>
            1..Done \subseteq 1..Len(block.txs)
      BY <2>6, <1>b
    <3> QED
      BY <2>2, <2>6, <3>1, <3>2
  <2>8. block.stage = "add" =>
          Done >= 0 /\ \A i \in 1..Len(block.todo) : block.todo[i] = block.txs[Done + i]
    BY DEF ChainInv
  <2>9. calm /\ block.stage # "post" =>
          \A i \in 1..Len(txs) : \A j \in 1..Len(chain) : txs[i] # chain[j]
    BY DEF ChainInv
  <2>10. Done' = Done
    BY <2>1 DEF Done
  <2> QED
    BY ONLY <2>1, <2>4, <2>5, <2>7, <2>8, <2>9, <2>10 DEF ChainInv
<1>5. NoReplay'
  BY DEF NoReplay
<1> QED
  BY <1>1, <1>2, <1>3, <1>4, <1>5

-----------------------------------------------------------------------------
(* The theorems                                                            *)

\* The invariants hold at first.
LEMMA InitIInv == Init => IInv
<1> SUFFICES ASSUME Init
             PROVE  IInv
  OBVIOUS
<1> USE DEF Init
<1>1. Len(<< >>) = 0 /\ << >> \in Seq(Txs) /\ << >> \in Seq(Tasks)
  OBVIOUS
<1>2. TypeOK
  BY <1>1 DEF TypeOK
<1>3. KnownInv
  BY <1>1, NothingTwice DEF KnownInv
<1>4. WaitInv
  BY <1>1 DEF WaitInv
<1>5. ChainInv
  <2>1. block.stage = "none" /\ headTime = 0 /\ now = 0 /\ 0 <= 0
    BY DEF NoBlock
  <2>2. \A i \in 1..Len(chain) : FALSE
    BY <1>1
  <2>3. \A i \in 1..Len(txs) : FALSE
    BY <1>1
  <2> QED
    BY <2>1, <2>2, <2>3 DEF ChainInv
<1>6. NoReplay
  BY NothingTwice DEF NoReplay
<1> QED
  BY <1>2, <1>3, <1>4, <1>5, <1>6 DEF IInv, PoolInv

\* They hold when nothing happens.
LEMMA StutterStep == IInv /\ UNCHANGED vars => IInv'
<1> SUFFICES ASSUME IInv, UNCHANGED vars
             PROVE  IInv'
  OBVIOUS
<1> USE DEF IInv, PoolInv, vars
<1>1. TypeOK'
  BY DEF TypeOK
<1>2. KnownInv'
  BY DEF KnownInv, OwnerIs
<1>3. WaitInv'
  BY DEF WaitInv
<1>4. ChainInv'
  BY DEF ChainInv, Done, Spent
<1>5. NoReplay'
  BY DEF NoReplay
<1> QED
  BY <1>1, <1>2, <1>3, <1>4, <1>5

\* Every step keeps them.
LEMMA NextIInv == IInv /\ [Next]_vars => IInv'
<1> SUFFICES ASSUME IInv, [Next]_vars
             PROVE  IInv'
  OBVIOUS
<1>1. CASE \E t \in Txs : Receive(t)
  BY <1>1, ReceiveStep
<1>2. CASE \E t \in Txs : Forget(t)
  BY <1>2, ForgetStep
<1>3. CASE \E t \in Txs : Expire(t)
  BY <1>3, ExpireStep
<1>4. CASE \E t \in Txs : SyncBlock(t)
  BY <1>4, SyncBlockStep
<1>5. CASE PushDuplicate
  BY <1>5, PushDuplicateStep
<1>6. CASE PushCheck
  BY <1>6, PushCheckStep
<1>7. CASE PushInvalid
  BY <1>7, PushInvalidStep
<1>8. CASE PushAccepted
  BY <1>8, PushAcceptedStep
<1>9. CASE Produce
  BY <1>9, ProduceStep
<1>10. CASE Popped
  BY <1>10, PoppedStep
<1>11. CASE PeerBlock
  BY <1>11, PeerBlockStep
<1>12. CASE RegisterTx
  BY <1>12, RegisterTxStep
<1>13. CASE BlockFails
  BY <1>13, BlockFailsStep
<1>14. CASE BlockAdded
  BY <1>14, BlockAddedStep
<1>15. CASE PostProduction
  BY <1>15, PostProductionStep
<1>16. CASE Restart
  BY <1>16, RestartStep
<1>17. CASE Tick
  BY <1>17, TickStep
<1>z. CASE UNCHANGED vars
  BY <1>z, StutterStep
<1> QED
  BY <1>1, <1>2, <1>3, <1>4, <1>5, <1>6, <1>7, <1>8, <1>9, <1>10, <1>11, <1>12, <1>13, <1>14,
     <1>15, <1>16, <1>17, <1>z DEF Next

\* They hold in every behaviour.
LEMMA SpecIInv == Spec => []IInv
  BY InitIInv, NextIInv, PTL DEF Spec

\* Whatever comes together, the pool knows what it holds (push and its timers) and holds
\* nothing twice, and a transaction on the chain or at work stays spent until it is too
\* old to be valid (registerTx, expireTxTimeout).
THEOREM PoolIsConsistent == Spec => []PoolInv
<1>1. IInv => PoolInv
  BY DEF IInv
<1> QED
  BY <1>1, SpecIInv, PTL

\* No transaction gets onto the chain twice, however many it is pushed or sent in blocks.
THEOREM NothingIsReplayed == Spec => []NoReplay
<1>1. IInv => NoReplay
  BY DEF IInv
<1> QED
  BY <1>1, SpecIInv, PTL

\* Between blocks postProduction has emptied the pool: nothing in it is on the chain.
THEOREM PoolStaysFresh == Spec => []PoolIsFresh
<1>1. IInv => PoolIsFresh
  BY DEF IInv, PoolInv, ChainInv, PoolIsFresh, NoBlock
<1> QED
  BY <1>1, SpecIInv, PTL

-----------------------------------------------------------------------------
(* Induction over the natural numbers, and functions defined by it         *)

\* Every set of natural numbers has a least one.
LEMMA Least ==
  ASSUME NEW T \in SUBSET Nat, T # {}
  PROVE  \E n \in T : \A m \in T : n <= m
<1> DEFINE R == {ss \in Nat \X Nat : ss[1] < ss[2]}
<1>1. IsWellFoundedOn(R, Nat)
  BY NatLessThanWellFounded DEF OpToRel
<1>2. \E n \in T : \A m \in T : << m, n >> \notin R
  <2> HIDE DEF R
  <2> QED
    BY <1>1, WFMin
<1>3. \A m, n \in Nat : << m, n >> \notin R => n <= m
  OBVIOUS
<1> QED
  BY <1>2, <1>3

\* What holds for 0, and for n + 1 when it holds for n, holds for all.
LEMMA Induction ==
  ASSUME NEW S, 0 \in S, \A n \in Nat : n \in S => n + 1 \in S
  PROVE  Nat \subseteq S
<1> DEFINE T == Nat \ S
<1>1. CASE T # {}
  <2>1. PICK n \in T : \A m \in T : n <= m
    BY <1>1, Least
  <2>2. n - 1 \in Nat /\ n - 1 \in S
    BY <2>1
  <2> QED
    BY <2>1, <2>2
<1> QED
  BY <1>1

\* The values of g begin with b and go on with those of F.
Follows(g, b, N, F) == g[0] = b /\ \A n \in 1..N : g[n] = F[n][g[n - 1]]

\* There is a function that begins with b and goes on with F.
LEMMA Recursion ==
  ASSUME NEW V, NEW b \in V, NEW N \in Nat, NEW F \in [1..N -> [V -> V]]
  PROVE  \E g \in [0..N -> V] : Follows(g, b, N, F)
<1> USE DEF Follows
<1> DEFINE Goes(m, g) == g[0] = b /\ \A n \in 1..m : g[n] = F[n][g[n - 1]]
           S == {m \in Nat : m <= N => \E g \in [0..m -> V] : Goes(m, g)}
<1>1. 0 \in S
  <2>1. [n \in 0..0 |-> b] \in [0..0 -> V] /\ Goes(0, [n \in 0..0 |-> b])
    OBVIOUS
  <2> QED
    BY <2>1
<1>2. ASSUME NEW m \in Nat, m \in S
      PROVE  m + 1 \in S
  <2>1. CASE m + 1 <= N
    <3>1. PICK g \in [0..m -> V] : Goes(m, g)
      BY <1>2, <2>1
    <3> DEFINE h == [n \in 0..(m + 1) |-> IF n <= m THEN g[n] ELSE F[m + 1][g[m]]]
    <3>2. h \in [0..(m + 1) -> V]
      BY <2>1, <3>1
    <3>3. h[0] = b /\ h[m + 1] = F[m + 1][h[m]]
      BY <3>1
    <3>4. \A n \in 1..m : h[n] = F[n][h[n - 1]]
      BY <3>1
    <3> HIDE DEF h
    <3>5. \A n \in 1..(m + 1) : h[n] = F[n][h[n - 1]]
      <4>1. \A n \in 1..(m + 1) : n \in 1..m \/ (n = m + 1 /\ n - 1 = m)
        OBVIOUS
      <4> QED
        BY <3>3, <3>4, <4>1
    <3> QED
      BY <3>2, <3>3, <3>5
  <2> QED
    BY <2>1
<1>3. N \in S
  <2> HIDE DEF S
  <2> QED
    BY <1>1, <1>2, Induction
<1> QED
  BY <1>3

-----------------------------------------------------------------------------
(* Balances                                                                *)

\* The balances that follow on those of b by the transactions of p.
Settled(b, p) ==
  LET after[n \in 0..Len(p)] == IF n = 0 THEN b ELSE Indexed(after[n - 1], p[n])
  IN  after[Len(p)]

Balances == [Accounts -> Int]

\* A transaction changes balances to balances.
LEMMA IndexedType ==
  ASSUME NEW b \in Balances, NEW t \in Txs
  PROVE  Indexed(b, t) \in Balances
  BY TxAssumption DEF Balances, Indexed, Cost

\* They are found one after the other.
LEMMA SettledSteps ==
  ASSUME NEW b \in Balances, NEW p \in Seq(Txs)
  PROVE  \E g \in [0..Len(p) -> Balances] :
           /\ g[0] = b /\ \A n \in 1..Len(p) : g[n] = Indexed(g[n - 1], p[n])
           /\ Settled(b, p) = g[Len(p)]
<1> DEFINE F == [n \in 1..Len(p) |-> [x \in Balances |-> Indexed(x, p[n])]]
           E(g) == g = [n \in 0..Len(p) |-> IF n = 0 THEN b ELSE Indexed(g[n - 1], p[n])]
<1>1. Len(p) \in Nat /\ \A n \in 1..Len(p) : p[n] \in Txs
  OBVIOUS
<1>2. F \in [1..Len(p) -> [Balances -> Balances]]
  BY <1>1, IndexedType
<1>3. PICK f \in [0..Len(p) -> Balances] : Follows(f, b, Len(p), F)
  <2> HIDE DEF F
  <2> QED
    BY <1>1, <1>2, Recursion
<1>4. \A n \in 1..Len(p) : f[n - 1] \in Balances /\ f[n] = Indexed(f[n - 1], p[n])
  BY <1>1, <1>3 DEF Follows
<1>5. E(f)
  <2>1. ASSUME NEW n \in 0..Len(p)
        PROVE  f[n] = IF n = 0 THEN b ELSE Indexed(f[n - 1], p[n])
    BY <1>1, <1>3, <1>4 DEF Follows
  <2> QED
    BY <1>3, <2>1
<1> DEFINE g == CHOOSE g : E(g)
<1>6. E(g)
  BY <1>5
<1>7. Settled(b, p) = g[Len(p)]
  BY DEF Settled
<1>8. g[0] = b /\ \A n \in 1..Len(p) : g[n] = Indexed(g[n - 1], p[n])
  <2> HIDE DEF g
  <2> QED
    BY <1>1, <1>6
<1>9. g \in [0..Len(p) -> Balances]
  <2> DEFINE S == {n \in Nat : n <= Len(p) => g[n] \in Balances}
  <2> HIDE DEF g
  <2>1. 0 \in S
    BY <1>8
  <2>2. ASSUME NEW n \in Nat, n \in S
        PROVE  n + 1 \in S
    <3>1. CASE n + 1 <= Len(p)
      <4>1. g[n] \in Balances /\ g[n + 1] = Indexed(g[n], p[n + 1]) /\ p[n + 1] \in Txs
        BY <1>1, <1>8, <2>2, <3>1
      <4> QED
        BY <4>1, IndexedType
    <3> QED
      BY <3>1
  <2>3. \A n \in 0..Len(p) : g[n] \in Balances
    <3>1. Nat \subseteq S
      <4> HIDE DEF S
      <4> QED
        BY <2>1, <2>2, Induction
    <3> QED
      BY <1>1, <3>1
  <2> QED
    BY <1>6, <2>3
<1> QED
  <2> HIDE DEF g
  <2> QED
    BY <1>7, <1>8, <1>9

\* Nothing follows on balances without transactions.
LEMMA SettledEmpty ==
  ASSUME NEW b \in Balances
  PROVE  Settled(b, << >>) = b
<1> DEFINE p == << >>
<1>1. p \in Seq(Txs) /\ Len(p) = 0
  OBVIOUS
<1> HIDE DEF p
<1>2. PICK g \in [0..Len(p) -> Balances] :
        /\ g[0] = b /\ \A n \in 1..Len(p) : g[n] = Indexed(g[n - 1], p[n])
        /\ Settled(b, p) = g[Len(p)]
  BY <1>1, SettledSteps
<1> QED
  BY <1>1, <1>2 DEF p

\* What follows on one transaction more.
LEMMA SettledAppend ==
  ASSUME NEW b \in Balances, NEW p \in Seq(Txs), NEW t \in Txs
  PROVE  /\ Settled(b, p) \in Balances
         /\ Settled(b, Append(p, t)) = Indexed(Settled(b, p), t)
<1> DEFINE q == Append(p, t)
<1>1. /\ q \in Seq(Txs) /\ Len(p) \in Nat /\ Len(q) = Len(p) + 1 /\ q[Len(p) + 1] = t
      /\ \A n \in 1..Len(p) : q[n] = p[n]
  OBVIOUS
<1>2. PICK g \in [0..Len(p) -> Balances] :
        /\ g[0] = b /\ \A n \in 1..Len(p) : g[n] = Indexed(g[n - 1], p[n])
        /\ Settled(b, p) = g[Len(p)]
  BY SettledSteps
<1>3. PICK h \in [0..Len(q) -> Balances] :
        /\ h[0] = b /\ \A n \in 1..Len(q) : h[n] = Indexed(h[n - 1], q[n])
        /\ Settled(b, q) = h[Len(q)]
  BY <1>1, SettledSteps
<1> HIDE DEF q
<1>4. h[Len(p)] = g[Len(p)]
  <2> DEFINE S == {n \in Nat : n <= Len(p) => h[n] = g[n]}
  <2>1. 0 \in S
    BY <1>2, <1>3
  <2>2. ASSUME NEW n \in Nat, n \in S
        PROVE  n + 1 \in S
    <3>1. CASE n + 1 <= Len(p)
      <4>1. n + 1 \in 1..Len(p) /\ n + 1 \in 1..Len(q) /\ n + 1 - 1 = n /\ h[n] = g[n]
        BY <1>1, <2>2, <3>1
      <4>2. h[n + 1] = Indexed(h[n], q[n + 1]) /\ g[n + 1] = Indexed(g[n], p[n + 1])
        BY <1>2, <1>3, <4>1
      <4> QED
        BY <1>1, <4>1, <4>2
    <3> QED
      BY <3>1
  <2>3. Nat \subseteq S
    <3> HIDE DEF S
    <3> QED
      BY <2>1, <2>2, Induction
  <2> QED
    BY <1>1, <2>3
<1>5. Len(q) \in 1..Len(q) /\ Len(q) - 1 = Len(p) /\ Len(p) \in 0..Len(p)
  BY <1>1
<1> QED
  BY <1>1, <1>2, <1>3, <1>4, <1>5 DEF q

\* What getBalance finds for an account with the transactions of p.
Remaining(a, b, p) ==
  LET after[n \in 0..Len(p)] == IF n = 0 THEN b[a] ELSE after[n - 1] + Gain(a, p[n])
  IN  after[Len(p)]

\* It never finds more than what is left.
LEMMA RemainingBelow ==
  ASSUME NEW b \in Balances, NEW p \in Seq(Txs), NEW a \in Accounts
  PROVE  Remaining(a, b, p) \in Int /\ Remaining(a, b, p) <= Settled(b, p)[a]
<1> DEFINE N == Len(p)
           c == b[a]
           F == [n \in 1..N |-> [x \in Int |-> x + Gain(a, p[n])]]
           E(g) == g = [n \in 0..N |-> IF n = 0 THEN c ELSE g[n - 1] + Gain(a, p[n])]
<1>1. N \in Nat /\ \A n \in 1..N : p[n] \in Txs
  OBVIOUS
<1>2. ASSUME NEW t \in Txs
      PROVE  /\ Gain(a, t) \in Int
             /\ \A x \in Balances : Indexed(x, t)[a] >= x[a] + Gain(a, t)
  BY TxAssumption DEF Gain, Indexed, Cost, Balances
<1>3. F \in [1..N -> [Int -> Int]] /\ c \in Int
  BY <1>1, <1>2 DEF Balances
<1>4. PICK f \in [0..N -> Int] : Follows(f, c, N, F)
  <2> HIDE DEF F, N, c
  <2> QED
    BY <1>1, <1>3, Recursion
<1>5. E(f)
  <2>1. ASSUME NEW n \in 1..N
        PROVE  f[n - 1] \in Int /\ f[n] = f[n - 1] + Gain(a, p[n])
    <3>1. f[n - 1] \in Int /\ f[n] = F[n][f[n - 1]]
      <4> HIDE DEF F
      <4>1. n - 1 \in 0..N
        BY <1>1
      <4> QED
        BY <1>4, <4>1 DEF Follows
    <3>2. \A x \in Int : F[n][x] = x + Gain(a, p[n])
      OBVIOUS
    <3> HIDE DEF F, N
    <3> QED
      BY <3>1, <3>2
  <2>2. ASSUME NEW n \in 0..N
        PROVE  f[n] = IF n = 0 THEN c ELSE f[n - 1] + Gain(a, p[n])
    BY <1>1, <1>4, <2>1 DEF Follows
  <2> QED
    BY <1>4, <2>2
<1> DEFINE g == CHOOSE g : E(g)
<1>6. E(g)
  BY <1>5
<1>7. Remaining(a, b, p) = g[N]
  BY DEF Remaining
<1> HIDE DEF g
<1>8. g[0] = c /\ \A n \in 1..N : g[n] = g[n - 1] + Gain(a, p[n])
  BY <1>1, <1>6
<1>9. PICK h \in [0..N -> Balances] :
        /\ h[0] = b /\ \A n \in 1..N : h[n] = Indexed(h[n - 1], p[n])
        /\ Settled(b, p) = h[N]
  BY SettledSteps
<1> HIDE DEF F, N
<1> DEFINE S == {n \in Nat : n <= N => g[n] \in Int /\ g[n] <= h[n][a]}
<1>10. 0 \in S
  BY <1>3, <1>8, <1>9
<1>11. ASSUME NEW n \in Nat, n \in S
       PROVE  n + 1 \in S
  <2>1. CASE n + 1 <= N
    <3>1. /\ n + 1 \in 1..N /\ n + 1 - 1 = n /\ p[n + 1] \in Txs
          /\ g[n] \in Int /\ g[n] <= h[n][a]
          /\ h[n] \in Balances /\ h[n + 1] \in Balances
      BY <1>1, <1>9, <1>11, <2>1
    <3>2. g[n + 1] = g[n] + Gain(a, p[n + 1]) /\ h[n + 1] = Indexed(h[n], p[n + 1])
      BY <1>8, <1>9, <3>1
    <3>3. h[n][a] \in Int /\ h[n + 1][a] \in Int
      BY <3>1 DEF Balances
    <3>4. Gain(a, p[n + 1]) \in Int /\ h[n + 1][a] >= h[n][a] + Gain(a, p[n + 1])
      BY <1>2, <3>1, <3>2
    <3> QED
      BY ONLY <2>1, <3>1, <3>2, <3>3, <3>4
  <2> QED
    BY <2>1
<1>12. N \in S
  <2> HIDE DEF S
  <2> QED
    BY <1>1, <1>10, <1>11, Induction
<1> QED
  BY <1>1, <1>7, <1>9, <1>12

-----------------------------------------------------------------------------
(* No account is overdrawn                                                 *)

\* A bond does not offer more than it is asked for: validateTx tests its sender for the
\* fee it is asked for, and the index takes the one it offers.
CheapBonds == \A t \in Txs, p \in Seq(Txs) : IsBond(t) => t.fee <= TotalFee(t.from, p)

Solvent(b) == \A a \in Accounts : b[a] >= 0

\* An own block can be paid for as a whole; of one of a peer, what has been registered
\* can, each transaction alone.
BlockIsPaid ==
  IF block.own
  THEN Solvent(Applied(block.txs))
  ELSE \A i \in 1..Done : balance[block.txs[i].from] >= Cost(block.txs[i])

\* Nobody owes anything, the block at work can be paid for, and so can what the pool
\* holds until the block is.
SolventInv ==
  /\ balance \in Balances
  /\ calm /\ ~crowded =>
       /\ Solvent(balance)
       /\ block.stage = "add" => BlockIsPaid
       /\ block.stage # "post" => Solvent(Applied(txs))

\* What the code finds from its balances is what follows on them.
LEMMA FromBalance ==
  /\ \A p : Applied(p) = Settled(balance, p) /\ Applied(p)' = Settled(balance', p')
  /\ \A a, p : BalanceWith(a, p) = Remaining(a, balance, p)
  BY DEF Applied, Settled, BalanceWith, Remaining

\* Who can pay for a transaction is not overdrawn by it, and nobody else is.
LEMMA PaidFor ==
  ASSUME NEW b \in Balances, Solvent(b), NEW t \in Txs, b[t.from] >= Cost(t)
  PROVE  Solvent(Indexed(b, t))
<1> SUFFICES ASSUME NEW a \in Accounts
             PROVE  Indexed(b, t)[a] >= 0
  BY DEF Solvent
<1>1. b[a] \in Int /\ b[a] >= 0
  BY DEF Balances, Solvent
<1>2. t.from \in Accounts /\ t.amount \in Nat /\ Cost(t) \in Nat
  BY TxAssumption DEF Cost
<1> QED
  BY <1>1, <1>2 DEF Indexed

\* Where everybody sends one transaction at most, it is enough that each can be paid for
\* alone, as validateBlock tests it.
LEMMA PaidAlone ==
  ASSUME NEW b \in Balances, Solvent(b), NEW p \in Seq(Txs), OnePerSender(p),
         \A i \in 1..Len(p) : b[p[i].from] >= Cost(p[i])
  PROVE  Solvent(Settled(b, p))
<1>1. Len(p) \in Nat /\ \A n \in 1..Len(p) : p[n] \in Txs
  OBVIOUS
<1>2. PICK h \in [0..Len(p) -> Balances] :
        /\ h[0] = b /\ \A n \in 1..Len(p) : h[n] = Indexed(h[n - 1], p[n])
        /\ Settled(b, p) = h[Len(p)]
  BY SettledSteps
<1> SUFFICES ASSUME NEW a \in Accounts PROVE h[Len(p)][a] >= 0
  BY <1>2 DEF Solvent
<1> DEFINE Idle(n) == \A k \in 1..n : p[k].from # a
           S == {n \in Nat : n <= Len(p) => h[n][a] >= 0 /\ (Idle(n) => h[n][a] >= b[a])}
<1>3. b[a] \in Int /\ b[a] >= 0
  BY DEF Balances, Solvent
<1>4. 0 \in S
  BY <1>2, <1>3
<1>5. ASSUME NEW n \in Nat, n \in S
      PROVE  n + 1 \in S
  <2>1. CASE n + 1 <= Len(p)
    <3>1. /\ n + 1 \in 1..Len(p) /\ n + 1 - 1 = n /\ p[n + 1] \in Txs
          /\ h[n] \in Balances /\ h[n + 1] \in Balances
          /\ h[n][a] >= 0 /\ (Idle(n) => h[n][a] >= b[a])
      BY <1>1, <1>2, <1>5, <2>1
    <3>2. PICK t \in Txs : t = p[n + 1]
      BY <3>1
    <3>3. h[n + 1] = Indexed(h[n], t)
      BY <1>2, <3>1, <3>2
    <3>4. t.amount \in Nat /\ Cost(t) \in Nat
      BY TxAssumption DEF Cost
    <3>5. h[n][a] \in Int /\ h[n + 1][a] \in Int
      BY <3>1 DEF Balances
    <3>6. h[n + 1][a] >= h[n][a] - (IF t.from = a THEN Cost(t) ELSE 0)
      BY <3>3, <3>4, <3>5 DEF Indexed
    <3>7. CASE t.from = a
      <4>1. Idle(n)
        <5> SUFFICES ASSUME NEW k \in 1..n, p[k].from = a
                     PROVE  FALSE
          OBVIOUS
        <5>1. k \in 1..Len(p) /\ k # n + 1
          BY <1>1, <2>1
        <5> QED
          BY <3>1, <3>2, <3>7, <5>1 DEF OnePerSender
      <4>2. b[a] >= Cost(t)
        BY <3>1, <3>2, <3>7
      <4>3. h[n + 1][a] >= 0
        BY ONLY <3>1, <3>4, <3>5, <3>6, <3>7, <1>3, <4>1, <4>2
      <4>4. ~Idle(n + 1)
        BY <3>2, <3>7
      <4> QED
        BY <4>3, <4>4
    <3>8. CASE t.from # a
      <4>1. h[n + 1][a] >= h[n][a]
        BY <3>5, <3>6, <3>8
      <4>2. Idle(n + 1) => Idle(n)
        OBVIOUS
      <4> HIDE DEF Idle
      <4> QED
        BY <1>3, <3>1, <3>5, <4>1, <4>2
    <3> QED
      BY <3>7, <3>8
  <2> QED
    BY <2>1
<1>6. Len(p) \in S
  <2> HIDE DEF S
  <2> QED
    BY <1>1, <1>4, <1>5, Induction
<1> QED
  BY <1>6

\* What is asked for is a number.
LEMMA TotalFeeType ==
  ASSUME NEW a, NEW p \in Seq(Txs)
  PROVE  TotalFee(a, p) \in Int
  BY NumbersAssumption DEF TotalFee

\* Who sends a valid transaction can pay for it.
LEMMA ValidIsPaid ==
  ASSUME CheapBonds, balance \in Balances, NEW t \in Txs, NEW p \in Seq(Txs), Valid(t, p)
  PROVE  Settled(balance, p)[t.from] >= Cost(t)
<1>1. t.from \in Accounts /\ t.amount \in Nat /\ t.fee \in Nat
  BY TxAssumption
<1>2. BalanceWith(t.from, p) \in Int /\ BalanceWith(t.from, p) <= Settled(balance, p)[t.from]
  <2>1. PICK b \in Balances : b = balance
    OBVIOUS
  <2>2. Remaining(t.from, b, p) \in Int /\ Remaining(t.from, b, p) <= Settled(b, p)[t.from]
    BY <1>1, RemainingBelow
  <2> QED
    BY <2>1, <2>2, FromBalance
<1>3. BalanceWith(t.from, p) >= t.amount + t.fee
  <2>1. BalanceWith(t.from, p) >=
          t.amount + (IF IsBond(t) THEN TotalFee(t.from, p) ELSE t.fee)
    BY DEF Valid
  <2>2. IsBond(t) => t.fee <= TotalFee(t.from, p)
    BY DEF CheapBonds
  <2> QED
    BY <1>1, <1>2, <2>1, <2>2, TotalFeeType
<1>4. Settled(balance, p)[t.from] \in Int
  BY <1>1, SettledAppend DEF Balances
<1> QED
  BY <1>1, <1>2, <1>3, <1>4 DEF Cost

\* An empty pool leaves the balances as they are.
LEMMA EmptyPool ==
  ASSUME balance \in Balances
  PROVE  Applied(<< >>) = balance
  BY SettledEmpty, FromBalance

\* Whatever leaves the pool, the block and the balances alone keeps the invariant.
LEMMA SolventUnchanged ==
  ASSUME SolventInv, UNCHANGED << txs, block, balance, crowded >>, calm' => calm
  PROVE  SolventInv'
<1>1. Applied(txs)' = Applied(txs) /\ (BlockIsPaid' <=> BlockIsPaid)
  BY DEF Applied, BlockIsPaid, Done, Solvent
<1> QED
  BY <1>1 DEF SolventInv, Solvent

\* A transaction that the pool accepts can be paid for with those before it.
LEMMA PushAcceptedSolvent ==
  ASSUME CheapBonds, IInv, SolventInv, PushAccepted
  PROVE  SolventInv'
<1>1. PICK t \in Txs : Valid(t, txs) /\ txs' = Append(txs, t)
  <2>1. line \in Seq(Tasks) /\ line # << >> /\ Head(line).op = "push"
    BY DEF IInv, PoolInv, TypeOK, PushAccepted, OwnerIs
  <2>2. Head(line) \in Tasks
    BY <2>1, Dequeue
  <2>3. Head(line).tx \in Txs
    BY <2>1, <2>2 DEF Tasks, PopAll
  <2> QED
    BY <2>3 DEF PushAccepted
<1>2. txs \in Seq(Txs) /\ UNCHANGED << balance, block, crowded >> /\ (calm' => calm)
  BY DEF IInv, PoolInv, TypeOK, PushAccepted
<1>3. PICK b \in Balances : b = balance
  BY DEF SolventInv
<1>4. PICK p \in Seq(Txs) : p = txs
  BY <1>2
<1>5. Settled(b, p) \in Balances /\ Settled(b, Append(p, t)) = Indexed(Settled(b, p), t)
  BY SettledAppend
<1>6. Settled(b, p)[t.from] >= Cost(t)
  BY <1>1, <1>3, <1>4, ValidIsPaid
<1>7. calm /\ ~crowded /\ block.stage # "post" => Solvent(Settled(b, Append(p, t)))
  <2>1. calm /\ ~crowded /\ block.stage # "post" => Solvent(Settled(b, p))
    BY <1>3, <1>4 DEF SolventInv, Applied, Settled
  <2> QED
    BY <1>5, <1>6, <2>1, PaidFor
<1>8. Applied(txs)' = Settled(b, Append(p, t))
  BY <1>1, <1>2, <1>3, <1>4 DEF Applied, Settled
<1>9. (Solvent(balance)' <=> Solvent(balance)) /\ (BlockIsPaid' <=> BlockIsPaid)
  BY <1>2 DEF Applied, Solvent, BlockIsPaid, Done
<1> QED
  BY <1>2, <1>7, <1>8, <1>9 DEF SolventInv, Solvent

\* What the pool held is at work now.
LEMMA PoppedSolvent ==
  ASSUME IInv, SolventInv, Popped
  PROVE  SolventInv'
<1>1. /\ block.stage = "pop" /\ block'.stage = "add" /\ block'.txs = txs /\ txs' = << >>
      /\ block'.own /\ UNCHANGED << balance, calm, crowded >>
  BY DEF Popped, Block
<1>2. Applied(txs)' = balance
  BY <1>1, EmptyPool DEF SolventInv, Applied
<1>3. Applied(block.txs)' = Applied(txs)
  BY <1>1 DEF Applied
<1> QED
  BY <1>1, <1>2, <1>3 DEF SolventInv, Solvent, BlockIsPaid

\* Nothing of the block of a peer has been registered yet.
LEMMA PeerBlockSolvent ==
  ASSUME SolventInv, PeerBlock
  PROVE  SolventInv'
<1>1. PICK content \in Seq(Txs) : block' = Block("add", FALSE, content, now)
  BY Content DEF PeerBlock
<1>2. block = NoBlock /\ UNCHANGED << txs, balance, calm, crowded >>
  BY DEF PeerBlock, MayBegin
<1>3. ~block'.own /\ Done' = 0
  BY <1>1 DEF Block, Done
<1>4. Applied(txs)' = Applied(txs)
  BY <1>2 DEF Applied
<1> QED
  BY <1>2, <1>3, <1>4, NoStage DEF SolventInv, Solvent, BlockIsPaid

\* What a block leaves is what follows on its transactions.
LEMMA BlockAddedSolvent ==
  ASSUME IInv, SolventInv, BlockAdded
  PROVE  SolventInv'
<1>1. /\ block.stage = "add" /\ block'.stage = "post" /\ balance' = Applied(block.txs)
      /\ block.todo = << >> /\ UNCHANGED calm
  BY DEF BlockAdded, Block
<1>2. block.txs \in Seq(Txs) /\ Done = Len(block.txs)
  <2>1. block \in Blocks
    BY <1>1, BlockShape DEF IInv, PoolInv
  <2> QED
    BY <1>1, <2>1 DEF Blocks, Done
<1>3. balance' \in Balances
  <2>1. PICK b \in Balances, p \in Seq(Txs) : b = balance /\ p = block.txs
    BY <1>2 DEF SolventInv
  <2>2. Settled(b, p) \in Balances
    BY SettledSteps
  <2> QED
    BY <1>1, <2>1, <2>2, FromBalance
<1>4. ASSUME calm, ~crowded'
      PROVE  Solvent(balance')
  <2>1. ~crowded /\ ~IsCrowded
    BY <1>4 DEF BlockAdded
  <2>2. Solvent(balance) /\ BlockIsPaid
    BY <1>1, <1>4, <2>1 DEF SolventInv
  <2>3. CASE block.own
    BY <1>1, <2>2, <2>3 DEF BlockIsPaid
  <2>4. CASE ~block.own
    <3>1. PICK b \in Balances, p \in Seq(Txs) : b = balance /\ p = block.txs
      BY <1>2 DEF SolventInv
    <3>2. OnePerSender(p) /\ Solvent(b) /\ \A i \in 1..Len(p) : b[p[i].from] >= Cost(p[i])
      BY <1>2, <2>1, <2>2, <2>4, <3>1 DEF IsCrowded, BlockIsPaid
    <3>3. Solvent(Settled(b, p))
      BY <3>2, PaidAlone
    <3> QED
      BY <1>1, <3>1, <3>3, FromBalance
  <2> QED
    BY <2>3, <2>4
<1> QED
  BY <1>1, <1>3, <1>4 DEF SolventInv, Solvent

\* The pool is emptied and no block is at work any more.
LEMMA EmptiedSolvent ==
  ASSUME SolventInv, txs' = << >>, block' = NoBlock, UNCHANGED << balance, calm, crowded >>
  PROVE  SolventInv'
<1>1. Applied(txs)' = balance
  BY EmptyPool DEF SolventInv, Applied
<1> QED
  BY <1>1, NoStage DEF SolventInv, Solvent

\* The block is given up: the pool keeps what it has.
LEMMA BlockFailsSolvent ==
  ASSUME SolventInv, BlockFails
  PROVE  SolventInv'
<1>1. block.stage = "add" /\ block' = NoBlock /\ UNCHANGED << txs, balance, calm, crowded >>
  BY DEF BlockFails
<1>2. Applied(txs)' = Applied(txs)
  BY <1>1 DEF Applied
<1> QED
  BY <1>1, <1>2, NoStage DEF SolventInv, Solvent

\* A block of a synchronization is not tested.
LEMMA SyncBlockSolvent ==
  ASSUME SolventInv, NEW t \in Txs, SyncBlock(t)
  PROVE  SolventInv'
<1>1. balance' = Applied(<< t >>) /\ ~calm'
  BY DEF SyncBlock
<1>2. PICK b \in Balances : b = balance
  BY DEF SolventInv
<1>3. PICK p \in Seq(Txs) : p = << t >>
  <2>1. << t >> \in Seq(Txs)
    OBVIOUS
  <2> QED
    BY <2>1
<1>4. Settled(b, p) \in Balances
  BY SettledSteps
<1> QED
  BY <1>1, <1>2, <1>3, <1>4, FromBalance DEF SolventInv

\* Produce waits for what the pool holds; a block that registers keeps its transactions.
LEMMA AtWorkSolvent ==
  ASSUME CheapBonds, IInv, SolventInv, Produce \/ RegisterTx
  PROVE  SolventInv'
<1>1. CASE Produce
  <2>1. block.stage = "none" /\ block'.stage = "pop"
        /\ UNCHANGED << txs, balance, calm, crowded >>
    BY <1>1, NoStage DEF Produce, MayBegin, Block
  <2>2. Applied(txs)' = Applied(txs)
    BY <2>1 DEF Applied
  <2> QED
    BY <2>1, <2>2 DEF SolventInv, Solvent
<1>2. CASE RegisterTx
  <2>1. block \in Blocks /\ block.stage = "add"
    BY <1>2, BlockShape DEF IInv, PoolInv, RegisterTx
  <2>2. /\ block'.stage = "add" /\ block'.txs = block.txs /\ block'.own = block.own
        /\ block'.todo = Tail(block.todo) /\ block.todo # << >>
    BY <1>2, <2>1 DEF RegisterTx, Blocks
  <2>3. UNCHANGED << txs, balance, crowded >> /\ (calm' => calm)
    BY <1>2 DEF RegisterTx
  <2>4. Applied(txs)' = Applied(txs) /\ Applied(block.txs)' = Applied(block.txs)
    BY <2>2, <2>3 DEF Applied
  <2>5. /\ block.txs \in Seq(Txs) /\ block.todo \in Seq(Txs)
        /\ Done' = Done + 1 /\ Done \in Nat
        /\ Head(block.todo) = block.txs[Done + 1] /\ Head(block.todo) \in Txs
    <3>1. block.txs \in Seq(Txs) /\ block.todo \in Seq(Txs)
      BY <2>1 DEF Blocks
    <3>2. Done >= 0 /\ \A i \in 1..Len(block.todo) : block.todo[i] = block.txs[Done + i]
      BY <2>1 DEF IInv, PoolInv, ChainInv
    <3>3. Len(block.todo) \in Nat /\ Len(block.todo) >= 1
      BY <2>2, <3>1, EmptyQueue
    <3>4. Head(block.todo) = block.todo[1] /\ Head(block.todo) \in Txs
          /\ Len(Tail(block.todo)) = Len(block.todo) - 1
      BY <2>2, <3>1
    <3>5. /\ Len(block.txs) \in Nat /\ Done = Len(block.txs) - Len(block.todo)
          /\ Done' = Len(block'.txs) - Len(block'.todo)
      BY <3>1 DEF Done
    <3>6. Done \in Nat /\ Done' = Done + 1
      <4>1. Len(block'.txs) = Len(block.txs) /\ Len(block'.todo) = Len(block.todo) - 1
        BY <2>2, <3>4
      <4>2. Done >= 0
        BY <3>2
      <4> QED
        BY ONLY <3>3, <3>5, <4>1, <4>2
    <3>7. Head(block.todo) = block.txs[Done + 1]
      <4>1. 1 \in 1..Len(block.todo)
        BY <3>3
      <4> QED
        BY <3>2, <3>4, <4>1
    <3> QED
      BY <2>2, <3>1, <3>4, <3>6, <3>7
  <2>6. balance[block.txs[Done + 1].from] >= Cost(block.txs[Done + 1])
    <3>1. PICK t \in Txs, p \in Seq(Txs) : t = Head(block.todo) /\ p = << >> /\ Valid(t, p)
      <4>1. << >> \in Seq(Txs)
        OBVIOUS
      <4> QED
        BY <1>2, <2>5, <4>1 DEF RegisterTx
    <3>2. Settled(balance, p)[t.from] >= Cost(t)
      BY <3>1, ValidIsPaid DEF SolventInv
    <3>3. Settled(balance, << >>) = balance
      BY SettledEmpty DEF SolventInv
    <3> QED
      BY <2>5, <3>1, <3>2, <3>3
  <2>7. BlockIsPaid => BlockIsPaid'
    BY <2>2, <2>3, <2>4, <2>5, <2>6 DEF BlockIsPaid, Solvent
  <2> QED
    BY <2>1, <2>2, <2>3, <2>4, <2>7 DEF SolventInv, Solvent
<1> QED
  BY <1>1, <1>2

\* At first the pool is empty and nobody owes anything.
LEMMA InitSolvent == Init => SolventInv
<1> SUFFICES ASSUME Init
             PROVE  SolventInv
  OBVIOUS
<1>1. balance \in Balances /\ Solvent(balance)
  BY AccountAssumption DEF Init, Balances, Solvent
<1>2. Applied(txs) = balance
  BY <1>1, EmptyPool DEF Init
<1>3. block.stage = "none"
  BY NoStage DEF Init
<1> QED
  BY <1>1, <1>2, <1>3 DEF SolventInv

\* Every step keeps that.
LEMMA NextSolvent ==
  ASSUME CheapBonds, IInv, SolventInv, [Next]_vars
  PROVE  SolventInv'
<1>1. CASE PushAccepted
  BY <1>1, PushAcceptedSolvent
<1>2. CASE Popped
  BY <1>2, PoppedSolvent
<1>3. CASE PeerBlock
  BY <1>3, PeerBlockSolvent
<1>4. CASE BlockAdded
  BY <1>4, BlockAddedSolvent
<1>5. CASE PostProduction \/ Restart
  BY <1>5, EmptiedSolvent DEF PostProduction, Restart
<1>6. CASE BlockFails
  BY <1>6, BlockFailsSolvent
<1>7. CASE \E t \in Txs : SyncBlock(t)
  BY <1>7, SyncBlockSolvent
<1>8. CASE Produce \/ RegisterTx
  BY <1>8, AtWorkSolvent
<1>9. CASE \E t \in Txs : Receive(t) \/ Forget(t) \/ Expire(t)
  BY <1>9, SolventUnchanged DEF Receive, Forget, Expire
<1>10. CASE PushDuplicate \/ PushCheck \/ PushInvalid \/ Tick
  BY <1>10, SolventUnchanged DEF PushDuplicate, PushCheck, PushInvalid, Tick
<1>11. CASE UNCHANGED vars
  BY <1>11, SolventUnchanged DEF vars
<1> QED
  BY <1>1, <1>2, <1>3, <1>4, <1>5, <1>6, <1>7, <1>8, <1>9, <1>10, <1>11 DEF Next

\* No account is overdrawn, however transfers and bonds come together in the pool and
\* in the blocks, when no bond offers more than it is asked for: not by own blocks, and
\* not by those of peers while each of their transactions has another sender.
THEOREM NobodyIsOverdrawn ==
  ASSUME CheapBonds
  PROVE  Spec => []NoOverdraft
<1>1. IInv /\ SolventInv /\ [Next]_vars => SolventInv'
  BY NextSolvent
<1>2. SolventInv => NoOverdraft
  BY DEF SolventInv, NoOverdraft, Balances, Solvent
<1> QED
  BY <1>1, <1>2, InitSolvent, SpecIInv, PTL DEF Spec

=============================================================================
