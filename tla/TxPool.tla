------------------------------- MODULE TxPool -------------------------------
(***************************************************************************)
(* TxPool with what decides about a transaction around it: validateTx, the *)
(* registration of the transactions of a block and their expiry, the       *)
(* blocks of the local minter, those of peers and of a synchronization.    *)
(*                                                                         *)
(* A transaction is a record of its sender, receiver, amount, fee and      *)
(* time.  A bond pays its stake and the bond fee to nobody.  Signatures    *)
(* and encodings are left out, and so are the rewards: the staker of the   *)
(* minter is not in Accounts.  A block is added in one step after its      *)
(* transactions were validated one by one (Blockchain has the steps).      *)
(* Time is in units of which TxExpiry and HeadSlack say how many 60 and 3  *)
(* seconds are.  A timer may fire late, never early.                       *)
(*                                                                         *)
(* `calm' is a history variable: FALSE after a block of a synchronization, *)
(* which is not validated, and after a transaction was accepted in the     *)
(* last instant before it expires, when its registration may be gone.      *)
(* `crowded' is another: a block of a peer had two transactions of one     *)
(* sender.  Each was tested alone, so they may overdraw the account.       *)
(***************************************************************************)
EXTENDS Integers, Sequences, FiniteSets, SequencesExt, FiniteSetsExt

CONSTANTS
  Txs,              \* the transactions: see TxAssumption
  Accounts,
  Nobody,           \* the receiver of a bond
  Deposit,          \* the balances at the beginning
  NetworkFee,
  TxExpiry,         \* TX_EXPIRY_TIME
  HeadSlack,        \* the 3000 of validateTx
  MaxTime,          \* bound: the clock
  MaxLine,          \* bound: pushes in the line
  MaxBlock,         \* bound: transactions in a block of a peer
  MaxChain          \* bound: transactions on the chain when another block begins

ASSUME TxAssumption ==
  \A t \in Txs : /\ t.from \in Accounts /\ t.to \in Accounts \union {Nobody}
                 /\ t.amount \in Nat \ {0} /\ t.fee \in Nat \ {0} /\ t.time \in Nat
ASSUME AccountAssumption == Nobody \notin Accounts /\ Deposit \in [Accounts -> Nat]
ASSUME NumbersAssumption ==
  /\ NetworkFee \in Nat /\ TxExpiry \in Nat /\ HeadSlack \in Nat
  /\ MaxTime \in Nat /\ MaxLine \in Nat
  /\ MaxBlock \in Nat /\ MaxChain \in Nat

VARIABLES
  txs,              \* TxPool.txs
  txSet,            \* TxPool.txSet
  line,             \* the tasks at TxPool.lock, the owner first
  checked,          \* the owner is a push that found no duplicate
  indexed,          \* the transactions registered in the index
  balance,          \* the balances in the index
  block,            \* the block at work, or NoBlock
  headTime,         \* the time of the head
  now,              \* the clock
  chain,            \* history: the transactions of all blocks
  calm,             \* history: see above
  crowded           \* history: a block of a peer had two transactions of one sender

vars ==
  << txs, txSet, line, checked, indexed, balance, block, headTime, now, chain, calm, crowded >>

NoBlock == [stage |-> "none"]
Push(t) == [op |-> "push", tx |-> t]
PopAll == [op |-> "pop"]
OwnerIs(op) == line # << >> /\ Head(line).op = op

Init ==
  /\ txs = << >> /\ txSet = {} /\ line = << >> /\ checked = FALSE
  /\ indexed = {} /\ balance = Deposit
  /\ block = NoBlock /\ headTime = 0 /\ now = 0
  /\ chain = << >> /\ calm = TRUE /\ crowded = FALSE

-----------------------------------------------------------------------------
(* Balances and fees                                                       *)

\* What a transaction takes from its sender, and what an account gains by it.
Cost(t) == t.amount + t.fee
Gain(a, t) == IF t.from = a THEN 0 - Cost(t) ELSE IF t.to = a THEN t.amount ELSE 0

\* Mutant: getBalance does not count additional transactions.
BalanceAlone(a, pending) == balance[a]

\* getBalance with additional transactions, one after the other.
BalanceWith(a, pending) ==
  LET after[n \in 0..Len(pending)] ==
        IF n = 0 THEN balance[a] ELSE after[n - 1] + Gain(a, pending[n])
  IN  after[Len(pending)]

\* BlockIndexer.indexTransactions.  To itself an account also gains the amount.
Indexed(balances, t) ==
  [a \in Accounts |-> balances[a] - (IF t.from = a THEN Cost(t) ELSE 0)
                                  + (IF t.to = a THEN t.amount ELSE 0)]
Applied(pending) ==
  LET after[n \in 0..Len(pending)] ==
        IF n = 0 THEN balance ELSE Indexed(after[n - 1], pending[n])
  IN  after[Len(pending)]

\* getTotalFee: the loop of getAddressFee over the blocks never runs above the
\* genesis block, so only the additional transactions count.
TotalFee(a, pending) ==
  NetworkFee + 2 ^ (1 + Len(SelectSeq(pending, LAMBDA t : t.from = a)))

\* The tests of the time in validateTx.
Timely(t) == /\ t.time < now
             /\ now - t.time <= TxExpiry
             /\ t.time > headTime - HeadSlack
LastInstant(t) == now - t.time = TxExpiry

IsBond(t) == t.to = Nobody

\* validateTx.  A bond is tested with the smallest fee, not with its own.
Valid(t, pending) ==
  /\ t \notin indexed /\ Timely(t)
  /\ t.fee >= TotalFee(t.from, pending)
  /\ BalanceWith(t.from, pending) >=
       t.amount + (IF IsBond(t) THEN TotalFee(t.from, pending) ELSE t.fee)

-----------------------------------------------------------------------------
(* TxPool                                                                  *)

Known(t) == t \in indexed \/ t \in txSet

Pushes == Len(SelectSeq(line, LAMBDA task : task.op = "push"))

\* A peer broadcasts the transaction, or sends it as an event: then handleTx only
\* pushes what hasTx does not know.
Receive(t) ==
  \E event \in BOOLEAN :
    /\ Pushes < MaxLine
    /\ event => ~Known(t)
    /\ line' = Append(line, Push(t))
    /\ UNCHANGED << txs, txSet, checked, indexed, balance, block, headTime, now, chain,
                    calm, crowded >>

PushDuplicate ==
  /\ OwnerIs("push") /\ ~checked /\ Known(Head(line).tx)
  /\ line' = Tail(line)
  /\ UNCHANGED << txs, txSet, checked, indexed, balance, block, headTime, now, chain,
                  calm, crowded >>

PushCheck ==
  /\ OwnerIs("push") /\ ~checked /\ ~Known(Head(line).tx)
  /\ checked' = TRUE
  /\ UNCHANGED << txs, txSet, line, indexed, balance, block, headTime, now, chain, calm,
                  crowded >>

PushInvalid ==
  /\ OwnerIs("push") /\ checked /\ ~Valid(Head(line).tx, txs)
  /\ line' = Tail(line) /\ checked' = FALSE
  /\ UNCHANGED << txs, txSet, indexed, balance, block, headTime, now, chain, calm, crowded >>

\* Mutant: the transaction is not marked as known.
PushUnmarked ==
  /\ OwnerIs("push") /\ checked /\ Valid(Head(line).tx, txs)
  /\ txs' = Append(txs, Head(line).tx)
  /\ calm' = (calm /\ ~LastInstant(Head(line).tx))
  /\ line' = Tail(line) /\ checked' = FALSE
  /\ UNCHANGED << txSet, indexed, balance, block, headTime, now, chain, crowded >>

PushAccepted ==
  /\ OwnerIs("push") /\ checked /\ Valid(Head(line).tx, txs)
  /\ txs' = Append(txs, Head(line).tx)
  /\ txSet' = txSet \union {Head(line).tx}
  /\ calm' = (calm /\ ~LastInstant(Head(line).tx))
  /\ line' = Tail(line) /\ checked' = FALSE
  /\ UNCHANGED << indexed, balance, block, headTime, now, chain, crowded >>

\* The timer of push().
Forget(t) ==
  /\ t \in txSet /\ now >= t.time + TxExpiry
  /\ txSet' = txSet \ {t}
  /\ UNCHANGED << txs, line, checked, indexed, balance, block, headTime, now, chain,
                  calm, crowded >>

\* Mutant: the registration expires before the transaction does.
ExpireEarly(t) ==
  /\ t \in indexed /\ now >= t.time + TxExpiry - 1
  /\ indexed' = indexed \ {t}
  /\ UNCHANGED << txs, txSet, line, checked, balance, block, headTime, now, chain, calm,
                  crowded >>

\* expireTxTimeout.
Expire(t) ==
  /\ t \in indexed /\ now >= t.time + TxExpiry
  /\ indexed' = indexed \ {t}
  /\ UNCHANGED << txs, txSet, line, checked, balance, block, headTime, now, chain, calm,
                  crowded >>

-----------------------------------------------------------------------------
(* Blocks                                                                  *)

Block(stage, own, content, time) ==
  [stage |-> stage, own |-> own, txs |-> content, todo |-> content, time |-> time]

MayBegin == block = NoBlock /\ Len(chain) < MaxChain

\* produceBlock takes its time and waits for the pool.
Produce ==
  /\ MayBegin
  /\ block' = Block("pop", TRUE, << >>, now)
  /\ line' = Append(line, PopAll)
  /\ UNCHANGED << txs, txSet, checked, indexed, balance, headTime, now, chain, calm, crowded >>

Popped ==
  /\ OwnerIs("pop") /\ block.stage = "pop"
  /\ block' = Block("add", TRUE, txs, block.time)
  /\ txs' = << >>
  /\ line' = Tail(line)
  /\ UNCHANGED << txSet, checked, indexed, balance, headTime, now, chain, calm, crowded >>

\* A block of a peer, with any transactions: nothing tests them together.
PeerBlock ==
  \E content \in SeqOf(Txs, MaxBlock) :
    /\ MayBegin /\ content # << >>
    /\ block' = Block("add", FALSE, content, now)
    /\ UNCHANGED << txs, txSet, line, checked, indexed, balance, headTime, now, chain,
                    calm, crowded >>

\* validateBlock: each transaction is tested alone and registered.
RegisterTx ==
  /\ block.stage = "add" /\ block.todo # << >>
  /\ Valid(Head(block.todo), << >>)
  /\ indexed' = indexed \union {Head(block.todo)}
  /\ block' = [block EXCEPT !.todo = Tail(@)]
  /\ calm' = (calm /\ ~LastInstant(Head(block.todo)))
  /\ UNCHANGED << txs, txSet, line, checked, balance, headTime, now, chain, crowded >>

\* addBlock throws.  The transactions of an own block are gone.
BlockFails ==
  /\ block.stage = "add" /\ block.todo # << >>
  /\ ~Valid(Head(block.todo), << >>)
  /\ block' = NoBlock
  /\ UNCHANGED << txs, txSet, line, checked, indexed, balance, headTime, now, chain,
                  calm, crowded >>

OnePerSender(content) ==
  \A i, j \in 1..Len(content) : content[i].from = content[j].from => i = j
IsCrowded == ~block.own /\ ~OnePerSender(block.txs)

\* Mutant: postProduction leaves the pool alone.
BlockAddedKeepsPool ==
  /\ block.stage = "add" /\ block.todo = << >>
  /\ balance' = Applied(block.txs)
  /\ chain' = chain \o block.txs
  /\ headTime' = block.time
  /\ block' = NoBlock
  /\ crowded' = (crowded \/ IsCrowded)
  /\ UNCHANGED << txs, txSet, line, checked, indexed, now, calm >>

\* The block is indexed, and postProduction waits for the pool.
BlockAdded ==
  /\ block.stage = "add" /\ block.todo = << >>
  /\ balance' = Applied(block.txs)
  /\ chain' = chain \o block.txs
  /\ headTime' = block.time
  /\ block' = Block("post", block.own, << >>, block.time)
  /\ line' = Append(line, PopAll)
  /\ crowded' = (crowded \/ IsCrowded)
  /\ UNCHANGED << txs, txSet, checked, indexed, now, calm >>

PostProduction ==
  /\ OwnerIs("pop") /\ block.stage = "post"
  /\ block' = NoBlock
  /\ txs' = << >>
  /\ line' = Tail(line)
  /\ UNCHANGED << txSet, checked, indexed, balance, headTime, now, chain, calm, crowded >>

\* A synchronization skips the transactions: nothing is tested or registered, and
\* the pool keeps what it has.
SyncBlock(t) ==
  /\ MayBegin
  /\ balance' = Applied(<< t >>)
  /\ chain' = Append(chain, t)
  /\ headTime' = now
  /\ calm' = FALSE
  /\ UNCHANGED << txs, txSet, line, checked, indexed, block, now, crowded >>

\* The node restarts: the index is on disk, and init arms its timers again.
Restart ==
  /\ txs' = << >> /\ txSet' = {} /\ line' = << >> /\ checked' = FALSE
  /\ block' = NoBlock
  /\ UNCHANGED << indexed, balance, headTime, now, chain, calm, crowded >>

Tick ==
  /\ now < MaxTime
  /\ now' = now + 1
  /\ UNCHANGED << txs, txSet, line, checked, indexed, balance, block, headTime, chain,
                  calm, crowded >>

Next ==
  \/ \E t \in Txs : Receive(t) \/ Forget(t) \/ Expire(t) \/ SyncBlock(t)
  \/ PushDuplicate \/ PushCheck \/ PushInvalid \/ PushAccepted
  \/ Produce \/ Popped \/ PeerBlock \/ RegisterTx \/ BlockFails \/ BlockAdded
  \/ PostProduction \/ Restart \/ Tick

Spec == Init /\ [][Next]_vars

-----------------------------------------------------------------------------
Tasks == [op : {"push"}, tx : Txs] \union {PopAll}
Blocks ==
  [stage : {"pop", "add", "post"}, own : BOOLEAN, txs : Seq(Txs), todo : Seq(Txs), time : Nat]

TypeOK ==
  /\ txs \in Seq(Txs) /\ txSet \subseteq Txs
  /\ line \in Seq(Tasks) /\ checked \in BOOLEAN
  /\ indexed \subseteq Txs
  /\ block \in Blocks \union {NoBlock}
  /\ headTime \in Nat /\ now \in Nat
  /\ chain \in Seq(Txs) /\ calm \in BOOLEAN /\ crowded \in BOOLEAN

\* The index has the transaction, or it is too old to be valid.
Spent(t) == t \in indexed \/ now >= t.time + TxExpiry

\* A transaction in the pool is known as such until it expires, and is there once;
\* one that was found unknown stays so until it is tested.
KnownInv ==
  /\ checked => OwnerIs("push") /\ Head(line).tx \notin txSet
  /\ \A i \in 1..Len(txs) : txs[i] \in txSet \/ now >= txs[i].time + TxExpiry
  /\ calm => IsInjective(txs)

\* Only the block at work waits for the pool, and it does so once.
WaitInv ==
  /\ \A i, j \in 1..Len(line) : line[i] = PopAll /\ line[j] = PopAll => i = j
  /\ \A i \in 1..Len(line) : line[i] = PopAll => block.stage \in {"pop", "post"}

\* What a block has registered is not on the chain, and neither is what the pool
\* holds until the block is; what is on the chain is not accepted again.
Done == Len(block.txs) - Len(block.todo)
ChainInv ==
  /\ headTime <= now
  /\ block # NoBlock => block.time <= now
  /\ block.stage = "add" =>
       Done >= 0 /\ \A i \in 1..Len(block.todo) : block.todo[i] = block.txs[Done + i]
  /\ calm =>
       /\ \A i \in 1..Len(chain) : Spent(chain[i])
       /\ block.stage = "add" =>
            \A i \in 1..Done :
              /\ Spent(block.txs[i])
              /\ \A j \in 1..Done : block.txs[i] = block.txs[j] => i = j
              /\ \A j \in 1..Len(chain) : block.txs[i] # chain[j]
       /\ block.stage # "post" =>
            \A i \in 1..Len(txs) : \A j \in 1..Len(chain) : txs[i] # chain[j]

\* However pushes, blocks and timers come together, the pool knows what it holds and
\* what it holds or registers can still get onto the chain.
PoolInv == TypeOK /\ KnownInv /\ WaitInv /\ ChainInv

\* No transaction gets onto the chain twice.
NoReplay == calm => IsInjective(chain)

\* No account is overdrawn, whatever is pushed while a block is made or arrives: by the
\* own blocks, whose transactions the pool has tested together, and by those of peers,
\* until one has two transactions of one sender, which are only tested alone.
NoOverdraft ==
  /\ balance \in [Accounts -> Int]
  /\ calm /\ ~crowded => \A a \in Accounts : balance[a] >= 0

\* Between blocks the pool holds nothing that is on the chain already.
PoolIsFresh ==
  calm /\ block = NoBlock =>
    \A i \in 1..Len(txs) : \A j \in 1..Len(chain) : txs[i] # chain[j]
=============================================================================
