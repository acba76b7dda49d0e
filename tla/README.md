# Verification of GODcoin

TLA+ modules, TLC configurations and TLAPS proofs for the GODcoin node in
`src/`: a proof-of-stake block chain written in TypeScript for Node.js. The
program is a single event loop, so it has no data races; what makes it hard is
that almost every operation awaits the disk, a socket or a timer, and anything
else, including the end of the process, can happen at each of those awaits.

Paths below are relative to `src/src/lib/` unless they start with `src/`.

## 1. The system

### Components, their state and their operations

| Component | State | Operations |
| --- | --- | --- |
| `Lock` (`lock.ts`) | `_locked`, the array of waiting resolvers | `lock`, `unlock` |
| `ChainStore` (`blockchain/chain_store.ts`) | the block log (a file opened with `a+`), `blockTailPos`, `_blockHead`, the block cache | `init`, `postInit`, `write`, `read`, `readBlockLog`, `chop`, `close` |
| `BatchIndex`, `BlockIndexer` (`indexer/batch.ts`, `indexer/block_indexer.ts`) | pending positions, cached balances, height and change of the supply | `index`, `flush` |
| `Indexer` (`indexer/index.ts`) | LevelDB: positions, chain height, supply, balances, bonds, registered transactions | getters and setters, expiry timers |
| `Blockchain` (`blockchain/blockchain.ts`) | `running`, `genesisBlock`, network fee | `start` (with or without re-index), `stop`, `addBlock`, `validateBlock`, `validateTx`, fees and balances |
| `Synchronizer` (`node/synchronizer.ts`) | `running`, `_isComplete` | `start`, `resume`, `pause`, `handleBlock`, `handleTx`, `synchronizeChain` |
| `LocalMinter` (`producer/local_minter.ts`) | keys | `createGenesisBlock`, `produceBlock` |
| `Producer`, `Scheduler` (`producer/`) | `_running`, one timer, `missed`; the bonds | `start`, `stop`, `onBlock`, timers |
| `TxPool` (`producer/tx_pool.ts`) | pooled transactions, the set of known ones | `push`, `hasTx`, `popAll` |
| `ClientNet`, `ServerNet`, `Net` (`net/`) | connection state, open lock, timers, handshake promise | `start`, `stop`, `open`, retries, handshake |
| `Peer` (`net/peer.ts`) | pending requests, subscriptions | RPC requests and answers, events |
| `ClientPeerPool` (`node/client_peer_pool.ts`) | clients, round-robin index, `connectedCount` | `invoke`, `open` and `close` events |
| `Server`, `Node` (`node/`) | the above | start and stop order, reaction to `open` and `close` |
| Wallet (`src/src/cli/wallet/`) | lock state, password, encrypted accounts | one function per command |

### How they interact

`Node.start` starts the chain (re-indexing it if asked), lets the minter create
a genesis block when there is neither a head nor a peer, connects the peers,
synchronizes and starts the producer. After that blocks reach
`Blockchain.addBlock` from the producer's timer and from peers; both go through
the lock of `Blockchain`. A synchronization writes through an indexer of its own
and does not take that lock. `Blockchain` emits `block`, `TxPool` emits `tx`,
and `Peer` forwards them to subscribed peers. When the last peer goes,
`Node` pauses the synchronizer and stops the producer; when one comes back it
starts the producer and resumes the synchronizer without waiting for either.

### What is hard, and what makes each part correct

* **Log and index.** A record is three appends, a flush is four database
  writes, and positions may be written earlier. Correct means: at every moment
  the index describes one linked chain of whole records; an announced block is
  never lost; balances cover what the chain pays, and the supply counts no block
  twice and none that is not on the chain; a re-index repairs whatever a crash left.
* **Lock.** `unlock` hands the lock over in a later turn of the event loop.
  Correct means mutual exclusion, first come first served, and every caller runs.
* **Pool and validation.** Transactions leave the pool before they are
  registered, and both the pool and the index forget them by timers. Correct
  means no transaction twice on the chain, and no account overdrawn.
* **Producer.** One timer variable is shared by two kinds of timers, and `stop`
  competes with callbacks that wait for the lock. Correct means: a running
  producer always has a timer or a callback on its way, a stopped one has none, and
  blocks keep their distance in time.
* **Network.** Handshake, timeout, close and retry race each other around one
  lock; requests have no timeout. Correct means: the open lock is released once
  on each path (but for an `open` that throws, which keeps it), each request is answered
  or rejected, and synchronizer and producer follow the connections.
* **Wallet.** Lines of the prompt are handled concurrently. Correct means an
  account is never overwritten and a wrong password is never used to encrypt.

`PROJECT.json` lists the hazards with their lines.

## 2. Plan

1. *(done)* `FifoMutex`, `AsyncLock`, `AsyncLock_proof`: the lock all others use.
2. *(done)* `ChainLog`, `Ledger`, `Blockchain`, `Blockchain_proof`,
   `BlockchainLedger_proof`: log, index and what they promise.
3. *(done)* `Producer`, `Producer_proof`: timers, lock, missed blocks.
4. *(done)* `Connection`, `Connection_proof`: one client connection with the server
   at its other end, and the requests on it.
5. *(done)* `NodeSync`, `NodeSync_proof`: node, peer pool and synchronizer.
6. *(done)* `TxPool`, `MCTxPool`, `TxPool_proof`: pool, validation, registration
   and expiry.
7. *(done)* `Wallet`, `Wallet_proof`: commands that overlap.

The eviction of `BlockCache` and the window of the network fee were left out
(section 7).

How the modules compose: `AsyncLock` shows that `Lock` is a first-come-first-served
line, and every other module has such a line where the code has a `Lock`
(`queue` in `Producer`, `line` in `Connection`, `NodeSync` and `TxPool`).
`Blockchain` refines `Ledger`; `Producer`, `NodeSync` and `TxPool` take a chain as
what `Ledger` promises, a height or a list that only grows. `NodeSync` uses
connections that open and close, which is what `Connection` shows of them, and
calls `start` and `stop` of the producer, which `Producer` takes at any moment.

## 3. What is modelled

### AsyncLock and FifoMutex

`locked` and `handles` are the two fields of `Lock`; `pc` says where each task
is. `LockWait` and `LockTake` are the two branches of `lock`, `UnlockHandOff`
and `UnlockFree` those of `unlock`, and `Immediate` is the `setImmediate`
callback. A task between `UnlockHandOff` and `Immediate` is *resuming*: it owns
the lock without running. `FifoMutex` is the abstract line: the owner first, then
the waiting callers in the order they called. `AsyncLock` refines it with
`queue <- OwnerSeq \o handles`.

Fairness: every owner unlocks (the callers do so in `finally`) and the event loop
runs every immediate. Nothing is assumed of the callers' arrival.

### ChainLog and Blockchain

`ChainLog` has the log and the blocks in it. A block is the sequence of the
payloads from the genesis block to itself, because the hash of the predecessor,
which the code compares, determines everything before it. A record is three
pieces (length, body, checksum), one per append; a position in the log counts
pieces. `Readable` is `readBlock`; `ChopPoint` is where `chop` truncates.

`Blockchain` composes `ChainStore`, `Blockchain`, `BlockIndexer`, `BatchIndex`,
`Indexer` and the write loop of `synchronizeChain`:

| State | Code |
| --- | --- |
| `log` | the block log file |
| `index` | LevelDB: `pos`, `height`, `bal`, `supply`, `bonds`, `seen` (registered transactions) |
| `mode` | the process is down, in the re-index of `start`, or up |
| `head`, `tail` | `ChainStore._blockHead`, `blockTailPos` |
| `job` | where `addBlock` (`"add"`) and the loop of a re-index or synchronization (`"bulk"`) are |
| `batch` | the `BlockIndexer` and `BatchIndex` of each |
| `announced`, `faults` | history: the last block emitted; how many faults there were |

One action is what happens between two awaits that reach the disk:

* `Start`, `StartReindex`, `Stop`, `Crash`: the process. `Forget` is what ends
  with it.
* `CreateGenesis`, `BeginAdd`, `RejectBlock`: `addBlock` up to `validateBlock`,
  which registers the transactions before it tests the Merkle root, the previous
  hash and the signature.
* `BeginSync`, `FetchBlock`, `EndFetch`: `synchronizeChain`. With a head at
  height 0 the code asks for height 0 again and fails; `BeginSync` does so too.
* `ScanRecord`, `ScanTrim`, `ScanFails`, `ScanEnd`, `Place`: `readBlockLog` with
  the callback of `start`, including `chop`.
* `IndexTxs`, `WritePart`, `WriteCrc`, `WriteFails`, `MayFlush`: `index`.
* `FlushPos`, `FlushBal`, `FlushHeight`, `ReadSupply`, `WriteSupply`: `flush`, in
  the order of `NextPhase`.
* `EndAdd`, `EndBulk`: the `block` event; `reload`. `EndSyncHeadless`: `Synchronizer.start`
  throws when the first synchronization leaves no head, and the node stops.

Abstractions. A payload stands for a block's transactions and pays one account of
its own, so a balance is how often the payload was applied. `Founding` payloads are
those of genesis blocks, which are unsigned and pass nowhere else; `Bonding` ones
hold a bond. What a block adds to the supply (`Minted`) is its reward of 1 less the
`bond_fee` that a bond burns (`BondFee`, 5 rewards in the code; none in the genesis
block), so a block with a bond lowers the supply. Validation of amounts,
fees and signatures is taken to have passed or not. Two different pieces never
have the same checksum. A crash ends the process, not the machine: what was
handed to the file system or to LevelDB stays. The block cache holds the whole
chain (`MAX_CACHE_SIZE` is 1000, so a node whose chain is longer checks only the
last 1000 blocks in `Start`). `stop` waits for `addBlock`; when it interrupts a
re-index or a synchronization the files look as after a `Crash` at that step.

`Env` selects what happens around the node: `crash`, `reindex`, `sync`,
`emptysync` (a synchronization that ends before it got a block, as it does on every
node that is up to date; alone, peers have nothing to give), `ioerror` (an
append fails) and `overlap` (a block is added while a synchronization runs). All
six can happen to the real node. The passing runs and the proofs say under
which of them a property holds; section 5 shows what the other three do.

`Ledger` is the promise to a node that adds and synchronizes: the committed chain
is only extended, and an announced block is part of it. `Blockchain` refines it
with `chain <- Committed`, the chain the index names.

### Producer

`Producer`, `Scheduler` and the time `LocalMinter.produceBlock` takes.

| State | Code |
| --- | --- |
| `running`, `initd`, `missed`, `timer` | the fields of `Producer`; `timer` is what its one timer variable refers to |
| `lost` | timers that are still pending although `startMissedBlockTimer` overwrote the variable |
| `queue`, `turn` | the line at `Producer.lock`; whether its owner runs in the turn of its call, in a later turn, or awaits the disk |
| `head`, `now` | height and time of the head, and the clock |
| `ahead` | history: the time of the head was ahead of the clock when it was added |
| `storm` | history: 0 until a disturbance, then a bounded count of what follows |

`CallStart`, `CallStop`, `CallBlock` are the calls of `Node` and `Synchronizer`; the
other actions are the parts of `start`, `stop`, `onBlock`, the missed-block
callback and `tryProducingBlock` between two awaits. The missed-block callback
calls `tryProducingBlock` while it holds the lock, so that goes to the end of the
line (`MissedBlock`). `onBlock` tests `_running` before it waits for the lock and
not after, as in `CallBlock` and `BlockAccepted`.

The clock of a peer may be ahead of the own one, by `MaxAhead` at most: `onBlock` tests
no upper bound on the time of a block, so `CallBlock` and `SyncBlock` have such blocks.
While such a head is there (`ahead`), `startTimer` cuts the delay to `BLOCK_PROD_TIME`
(`producer/producer.ts:110`), the own block can come less than that after the head, and
a missed block can be counted too early. What is claimed about time is claimed unless
the head is such a one: that blocks of peers keep their distance always, the own ones
otherwise.

A disturbance is a block that cannot be added, bonds that cannot be read, a block
of a synchronization, or a timer that is due at once while others wait for the
lock. After any of them the code really can be left without a timer, or with two:
`onBlock` clears the timer and arms it again only when `addBlock` succeeds. What
`Calm` excludes is therefore explored (up to `MaxStorm` events deep), and claimed
about is what must hold before.

### Connection

A `ClientNet`, the `ClientPeer` on it, and the `ServerNet` and `Peer` at its other
end. `line` is the line at `openLock`, `busy` what its owner waits for, `socket`
the field of `Net`, `timer` and `retry` the two ways to a new attempt (`openTimer`
and the `setImmediate` of `onClose`), `handlers` the subscriptions of `Peer`,
`requests`, `doomed` and `settled` the table of requests, the rejections that
`onClose` has scheduled, and the promises that have ended. `server`, `asked`,
`toServer` and `toClient` are the other end and the bytes under way: first in,
first out. Time-outs may come at any moment between the call and the answer; a late
answer to a handshake meets a connection that has been given up (`Handshake`,
`Receive`).

The two ends close apart. `Closed` is the close event of the client, `ServerClosed` that
of the server, which drops what it works on; either may come first, so a client can
take a connection for open that its server has lost, and send into it. What has not
reached the client when it closes is lost (`Lost`), and what is sent to it later
(`SendToClient`). The server's end is that of the last connection: what an older one
still does reaches nobody.

`urlOk` is whether `nodeUrl` has a host and a port that `net.connect` takes. Nothing
tests it before, and when it has not, `Open` throws in the executor of its promise, with
the lock (`busy = "thrown"`): the lock is never released, no attempt follows, and
`stop` waits for ever. `StopIsDone`, `Reconnects` and `NeverGivesUp` are claimed for
urls that can be taken.

### NodeSync

`Node`, `ClientPeerPool` and `Synchronizer`. `phase` is where `Node.start` and
`Node.stop` are, `open` the connections, `connectedCount` and `index` the fields
of the pool, `running` and `isComplete` those of the synchronizer, `line` the
tasks at its lock, `job` the call of `synchronizeChain` at work, and `producing`
whether the last call to the producer was a `start`. Chains are heights: the peers
share one chain of height `tip`.

`AskRange` computes the range with `height ? height + 1 : 0`, as the code does,
so that a node whose head is the genesis block asks for height 0 again and fails
(`SyncFails`). `AskClient` is one round of `invoke`, `NoClient` and `AskAgain` the
wait after `EndOfClients`. `Open` and `Close` are the events of the pool with what
`Node` does on them; `CloseUnopened` is the close event of a connection whose
handshake failed, which the pool counts although it never counted an open one.
`Stop` may come while `Node.start` still connects or synchronizes; `boot` says where
that is, because it goes on behind the `stop`, starts the synchronizer and, when that
succeeds, the producer.

`BlockTurn` is `onBlock`: it adds a block of a peer if it is the next one and the producer
runs, and may refuse even that, for its minter by the own count of missed blocks, its
time or its content. After a resume or a restart that count is 0, so an honest block
can be refused, and nothing fetches it again before the next synchronization.
`refused` says that this has happened since the last one began; `UpToDate`, and the last
conjunct of `ReachInv`, are claimed otherwise.

`calm` says that none of these has happened, which do break what is claimed:

* a close event of a connection that never opened makes `connectedCount` one too
  low for good, so that the pool no longer tells when the last peer goes;
* the last peer goes while the lock is held: `pause` waits for the lock, a peer
  that comes back finds `running` still set and does not resume, and then the
  pause stops the synchronizer of a connected node; the same while the node
  starts, because `start` finishes by starting the producer;
* a peer comes while the node stops, and starts the producer again;
* `stop` is called before `start` has ended, which then turns parts on again;
* a resumed synchronization fails: nothing tries again.

### TxPool and MCTxPool

`TxPool` with `validateTx`, `getTotalFee`, the registration of transactions
(`Indexer`) and their timers, and the blocks around them. `txs`, `txSet` and
`line` are the pool, `indexed` and `balance` the index, `block` the block at work:
one of the local minter goes through `Produce`, `Popped`, `RegisterTx` for each
transaction, `BlockAdded` and `PostProduction`; one of a peer begins at
`PeerBlock`; one of a synchronization is a single unvalidated step, `SyncBlock`.
`MCTxPool` gives the transactions: transfers and a bond of an account that cannot
pay for all of them, and one of an account that spends what it gets.

`calm` is FALSE after a synchronization brought a block, whose transactions are
not registered, and after a transaction was accepted at the very instant
`TX_EXPIRY_TIME` after its own time: `validateTx` still accepts it there and the
timer may already have removed its registration, so it could be executed again.
A block of a peer has any transactions (`PeerBlock`). The code tests each of them alone
against the balances of the index (`blockchain/blockchain.ts:248-257`), so two of one
sender, each of which it could pay, overdraw the account. `crowded` says that a block of
a peer had two of one sender; `NoOverdraft` is claimed until then. Own blocks may have
any number, because the pool has tested them together.

Rewards, signatures and encodings are left out; fees are powers of two, `MIN_GOLD_FEE` times
`GOLD_FEE_MULT` to the number of transactions.

### Wallet

`Wallet`, `WalletDb` and the commands that change them. A command is its pending
access to the database (`tasks`), because the prompt handles the next line without
waiting. `password` is that of `WalletDb`, set by `new` and `unlock` before it is
verified; an encrypted value is its key and the password of that moment. `Restart`
ends the process with any of the pending writes done; `DbError` fails an access.

`calm` is FALSE after two commands that exclude each other overlapped (two on one
account, or `new` or `unlock` with anything), after an account was removed again
while its deletion was pending, and after an access failed. Without it the claims
do not hold, because nothing in the code keeps such lines apart: two
`create_account` of one name both find it free, and the second overwrites the key
the first has reported; and an error while `unlock` reads leaves the password set,
after which every `unlock` fails.

## 4. Passing runs

| Run | Instance | Shows |
| --- | --- | --- |
| `AsyncLock` | 4 tasks | `LockInv`, `MutualExclusion`, `NoBarging`; each caller runs (`EveryCallerRuns`); the lock is a first-come-first-served line (`ImplementsFifoMutex`) |
| `ChainCrash` | crash, sync | `IndexIsChain`: the index is one linked chain of whole records; `AnnouncedSurvives`; `BalancesCoverChain`: nothing paid is lost; `SupplyWithinChain`: the supply counts no block twice and none that is not on the chain; `ImplementsLedger` |
| `ChainRepair` | crash, sync, reindex | `LedgerInv`, the invariant of the proofs; `ReindexRepairs`: a re-index that ends leaves a log of one chain and its replay in the index; `IndexMatchesReplay`: until something fails the index of an idle node is that replay |
| `ChainAppendFails` | crash, ioerror, emptysync | `AnnouncedInLog`: an announced block stays whole in the log even if the index no longer finds it; `NoReplay`: no transaction twice on the chain of a node that only adds blocks |
| `Producer` | 2 bonds, one its own, peers with a clock ahead | `ProducerInv`; `NeverStalls`: a running producer has a timer or a task that arms one; `StoppedIsQuiet`; `BlocksAreSpaced`: blocks are `BLOCK_PROD_TIME` apart, the own ones too unless the head came from a clock ahead; `StopIsServed` |
| `Connection` | 3 connections, 3 requests | `ConnInv`; `NoSocketLost`; `PendingIsLive`: each pending request was sent over the present connection; `OpenWasAccepted`: what the client takes for open was accepted by its server; `StopIsDone`, `Reconnects`, unless `open` throws; `EveryCallEnds` |
| `NodeSync` | 2 clients, ranges of 2, chain up to 4 | `SyncInv`; `FollowsPeers`; `UpToDate`: a node at rest with a peer has every block, unless `onBlock` refused one; `StoppedIsOff`; `SyncCompletes` |
| `TxPool` | 4 transactions, 2 accounts | `PoolInv`; `NoReplay`; `NoOverdraft`: no balance is negative, until a block of a peer has two transactions of one sender; `PoolIsFresh`: between blocks nothing of the chain is in the pool |
| `Wallet` | 2 accounts, 2 passwords, 3 commands at once | `WalletInv`; `AccountsReadable`; `NoKeyLost`; `CanUnlock` |

Bounds. The `Chain*` runs have heights up to 2, three payloads (one for genesis
blocks), batches that write their positions after 2 operations (10000 in the
code), and at most `MaxLog` records in the log. Three heights are enough for a
head, its parent and a replaced sibling; `MaxLog` exceeds the height so that torn
records and those of abandoned blocks stay in the log beside the chain; two faults
let a crash hit what the repair of an earlier one left. `Producer`: six units of
time are two production times and two missed blocks, and three tasks in the line
let one wait behind a waiting one; a clock that is ahead by one unit is enough for the
delay to be cut. `Connection`: three connections are one that
fails, one that is lost and one after it. `NodeSync`: a chain of height 4 needs two
ranges, and a peer may grow it between them; with two clients `invoke` can find
one gone and ask the other. `TxPool`: a transaction can be pooled, put on the
chain, forgotten by both timers and received again within the time; two
transactions make a block of a peer crowded. `Wallet`:
three commands are two on one account with one on another, or on the wallet.
The bounds end every behaviour, hence `CHECK_DEADLOCK FALSE`.

`BalancesCoverChain` is a lower bound on purpose: after a crash between the
balances and the chain height the block is added again and its payments are
applied twice. `SupplyWithinChain` is no bound at all, because a crash between the
chain height and the supply loses what the flush adds to it for good: without the
rewards the supply is too low, without the burnt fees of bonds too high. It says that
some blocks of the chain explain the supply. With `BondFee = 5` and three payloads, of
which one burns, a block counted twice, or counted before it is on the chain, gives a
supply that no blocks explain, unless the flush of another was lost too.

Fairness. `AsyncLock`: section 3. `Producer`: the task that owns the lock goes on
(`WF` of `Task`), because the event loop runs what is ready and the disk answers;
nothing is assumed of timers, calls or peers. `Connection`: timers and callbacks
run; an attempt to connect succeeds or fails; a handshake is answered or times out
(the three seconds of `net/client_peer/net.ts`); the peer takes and answers what it
gets; and a client whose connection was ended, by itself or by its server, is told of
the close, which is an assumption on the network. A connection that stays up but is
silent would leave a request pending for ever: requests have no time-out, and
`EveryCallEnds` rests on the peer's answer. `NodeSync`: the tasks at the lock go on, and
a connected peer answers or fails. `SyncCompletes` supposes in addition that some
peer stays.

## 5. Runs that show a disagreement

| Run | Property | What happens |
| --- | --- | --- |
| `BadOverlap` | `HeadReadable` | producer and resumed synchronization interleave the appends of two records, and the index points to a block that cannot be read |
| `BadGenesisRestart` | `GenesisCanBeCreated` | crash while the first block is flushed: every later start fails with 'genesis block already exists' |
| `BadBond` | `NoOverdraft` | a bond is tested with the smallest fee and charged with its own: its staker ends with a negative balance |

The first two are assertions of the code (`blockchain/chain_store.ts:50`,
`producer/local_minter.ts:28`), the third is that of `blockchain/blockchain.ts:366`.

These can be seen with the same modules and other constants:

* `Blockchain` with `Env = {"sync", "emptysync"}` and `AnnouncedSurvives`: a
  synchronization without new blocks flushes an indexer that never got a height
  and writes chain height 0; the node continues from the genesis block.
* `Env = {"crash", "reindex"}` and `ReindexKeepsBlocks`: after a crash inside a
  record and a restart, `--reindex` cuts the log at the torn record and deletes
  the blocks behind it.
* `Env = {"ioerror"}` and `HeadReadable`: a failed append leaves bytes that
  `blockTailPos` does not count, and the next block is indexed at the wrong place.
* `Producer` with `Self = 1`, `MaxTime = 4`, `MaxStorm = 0` and `MustBeRunning`:
  the assertion 'producer must be running' (`producer/producer.ts:101`) fails for
  a block of a peer that waited for the lock behind `stop`.

And these are in the models without a property that claims otherwise: transactions
that arrive between `popAll` and `postProduction` are dropped with the pool, and
those of an own block that fails in `addBlock` are lost but stay known to `hasTx`
until they expire (`TxPool.PostProduction`, `BlockFails`); an own block fails so
when one of its transactions spends what another one pays in, since the pool
tested them together and `addBlock` tests each alone.

## 6. What is proved

`AsyncLock_proof`, for every set of tasks: `LockInvariant` (`LockInv` is
inductive), `MutualExclusionHolds`, `NoBargingHolds`, and `LockRefinesFifo` (each
step of the lock is a step of `FifoMutex` or a stutter). `LockInv` adds to mutual
exclusion that `_locked` is set exactly while somebody owns the lock, that
`handles` lists each waiting task once, and that nobody waits for a free lock;
without these a step of `unlock` could not be shown to leave one owner.

`Blockchain_proof`, for all payloads, bounds and values of `Env`, under `Calm`
(`Env` without `emptysync`, `ioerror` and `overlap`): `IndexInvariant` (`IndexInv`
is inductive), `IndexIsChainHolds` and `TypeCorrect`. `Calm` is needed: section 5
shows that each of the three breaks `IndexIsChain`. The argument:

* the log is only appended to, except by `chop`, which runs while the index has
  no chain height; so records once stored stay stored (`TailIsEnd`, and the
  lemmas on `Stored` and `Chained` under `Append` and `SubSeq`);
* the positions of a job, laid over those of the index (`Places`), always give the
  head's chain (`HeadInv`), and all pending ones lie above the chain height, so
  that writing them early does not disturb the committed chain;
* the batch's height equals the head's before it is written (`JobInv`), hence
  `FlushHeight` moves the committed chain to the head in one write;
* a re-index has read one chain from the start of the log (`ScanInv`), whose
  first record is a genesis block (`GenesisFirst`);
* only one job works at a time (`OneJob`).

The proof has one lemma per group of actions and one step per conjunct. The
assumptions on the constants are those of the `ASSUME`s in `Blockchain`, which TLC
evaluates in every run.

`BlockchainLedger_proof` builds on it. Under `Calm` as well:

* `BlockchainImplementsLedger` and `AnnouncedBlocksSurvive`, with `"reindex"` not in
  `Env`: `Committed` only moves where `FlushHeight` writes the chain height, and then
  to the chain of the job, which extends it (`CommittedStep`, `CommittedBelowHead`).
  The invariant `AnnouncedInv` says that what `block` announced is a prefix of
  `Committed`, and that the block at work in `addBlock` is the head and longer than
  what was announced. A re-index is left out because it does take blocks back
  until it has read them again, and for good those behind a torn record (section 5).
* `LedgerInvariant`: `LedgerInv` is `IndexInv` with `ReplayInv` and `WholeInv`.
  `ReplayInv` compares the index with a replay: what is written agrees with
  `Committed`, and what is written together with what the indexer of the job at work
  still holds agrees with the chain that the job has indexed (`Target`).
  Agreement (`Agree`) has two strengths. Always: each balance is at least the
  replay's, the supply is what some of the blocks add (`CountsSome`), and every bond is
  there. Exactly: until something
  fails, and throughout a re-index, which starts from nothing. The order of the four
  writes of `flush` is what keeps the first one over a crash: balances, then height,
  then supply, so that a block is only counted once it is on the chain, and once the
  supply is written the batch has nothing left to count. `WholeInv` describes the log: until something fails it is the
  records of one chain and nothing else, and a re-index has cut it to the chain that
  it has read before it writes the first position above it.
* From it `SupplyCountsNothingTwice`, `PaymentsAreKept`, `IndexIsReplay` and
  `ReindexIsRepair`. The last two do not follow from `IndexInv`: that a re-index
  leaves the exact replay needs the batch that it still holds at each write, and that
  the index of a node at rest is exact needs the re-index of an undamaged log to end
  in the chain it started from.

Its last two theorems do without `Calm`: appends fail, synchronizations end empty, the
index may point nowhere and `IndexInv` does not hold. They rest on what is in the log,
over types that hold anyway (`RunTypes`), and on no position of the index:

* `AnnouncedStaysInLog` (`AnnouncedInLog`), with neither `"reindex"` nor `"overlap"` in
  `Env`. `LogInv` says that below every whole record, below the head and below what
  was announced the chain is whole, whatever torn records are in between, and that a job
  writes its record on top of the head. The step that matters is `WriteCrc`: the three
  pieces at the end of the log are then of one block (`ReadableAppend`, `LogWrite`).
  A re-index is left out because it cuts the log at a torn record (section 5), and
  an overlap because the head can change under the block that is being written.
* `ChainRepeatsNothing` (`NoReplay`), with neither `"reindex"` nor `"sync"` in `Env`,
  even when jobs overlap. `SeenInv` says that each chain in the log, in a job or at
  the head repeats nothing and that its payloads above the genesis block are
  registered (`Once`). A re-index deletes what is registered, and the blocks of a
  synchronization are not registered: after these the same payload can be added again.

Neither theorem holds when one of the excluded events is put back into `Env`.

`Producer_proof`, for any number of bonds, production time and bounds:
`SpecProducerInv` (`ProducerInv` is inductive), `SpecNeverStalls`,
`SpecStoppedIsQuiet` and the action property `SpecBlocksAreSpaced`. The argument is
about who can be at work at the same time: in the calm no timer fires while another
task holds the lock (`TimerInv`: a timer that is armed while the lock is handed over
is due later), so an attempt to produce a block never waits behind a `stop`, a
`start` or a block, there is never more than one, and no timer is overwritten. `PaceInv` gives each timer and
attempt a lower bound in time, from which `MissedIsPaced` follows and that own blocks keep
their distance; it holds unless the head came from a clock ahead (`ahead`). That the block
of a peer that is being added is due (`TimerInv`) holds after such a head too.

`Connection_proof`, for any number of connections and requests: `ConnCorrect`
(`ConnInv`), `NoSocketIsLost`, `RequestsAreLive` and `OpenIsAccepted`. The
inductive invariant is `ConnInv` with `PendingIsLive` and `OpenWasAccepted`. Its core is
`OneOpener`: a timer, a retry and a task in the line that has yet to connect
exclude each other and a socket, so nobody can overwrite one. `WireInv` says that
the server sends nothing before it has accepted the handshake of this very connection,
and nothing at all to a client without a socket, so the answer that ends a handshake
means that its server took the connection for open; it may have lost it by the time the
answer arrives, which is why `OpenWasAccepted` says no more. An `open` that has thrown
keeps the lock (`LockInv`), and everything but `NeverGivesUp` holds on that path too.

`NodeSync_proof`, for any number of clients, length of the ranges and height:
`SyncIsInOrder` (`SyncInv` is inductive), `NodeFollowsPeers`, `NodeIsUpToDate` and
`StoppedNodeIsOff`. `InvokeInv` says which clients `invoke` has found gone, so that it
gives up only when all are; `CountInv` by how much `connectedCount` is wrong. In the
calm `CalmInv` ties synchronizer and producer to the open connections, and `ReachInv`
gives the number of blocks that are on their way: those in the line are the last that
were announced, and the chain, or the range at work, reaches to the first of them, unless a next block
was refused since the last synchronization began. Without the length of the line in it, `UpToDate` would break at the block that
arrives while a range is written.

`TxPool_proof`, for any transactions, accounts and times: `PoolIsConsistent`
(`PoolInv`), `NothingIsReplayed` (`NoReplay`) and `PoolStaysFresh`. `PoolInv` with
`NoReplay` is inductive. `ChainInv` is the argument: whatever is on the chain is
registered or too old (`Spent`), what a block has registered is spent and not yet on
the chain, and the pool holds nothing of the chain except between `addBlock` and
`postProduction`.

`NobodyIsOverdrawn` (`NoOverdraft`) is about own blocks of any content, and about blocks
of peers until one has two transactions of one sender: then it says nothing more,
because the code does overdraw. It supposes `CheapBonds`: no bond offers more than
the fee that `validateTx` asks for. `BadBond` breaks exactly that, and the
transactions of the run `TxPool` fulfil it. `NoOverdraft` is not inductive, because
the pool tests a transaction together with those before it, while the index applies
a whole block at once. `SolventInv` adds that an own block at work can be paid for from
the present balances, that each sender of a block of a peer can pay what has been
tested of it (`PaidAlone`: one transaction each, so together too), and that what the
pool holds can be paid for, except between `addBlock` and `postProduction`; there it may not be, but no block takes it before it is thrown
away. The argument needs what the loops of `getBalance`
and `indexTransactions` compute over sequences of any length: what `getBalance` finds
is never more than what the index leaves (`RemainingBelow`; less, when an account
pays itself), and the index applies one transaction more to the result of the others
(`SettledAppend`). These are inductions over the natural numbers, which
`Least` gets from their being well-founded (`NatLessThanWellFounded` and `WFMin` of
the library); `Induction` states it for a set, and `Recursion` is that functions
defined by recursion exist. `BalanceWith` and `Applied` are recursive functions for
this reason, and because the order of the transactions matters to the code's loops.

`Wallet_proof`, for any accounts, passwords and number of commands: `SpecWalletInv`
(`WalletInv` is inductive), `SpecAccountsReadable`, `SpecNoKeyLost` and
`SpecCanUnlock`. The properties are not inductive alone: `PasswordInv` says that
at most one `new` or `unlock` is pending and that the wallet holds its password;
`TasksInv`, in the calm, that each account has one command at most, that
what is about to be written is encrypted with the wallet's password and replaces
nothing, and that accounts about to be deleted are used by nobody. There is one
lemma for each action.

### Only model-checked

* `EveryCallerRuns`, `StopIsServed`, `StopIsDone`, `Reconnects`, `EveryCallEnds`,
  `SyncCompletes` and the fairness part of `ImplementsFifoMutex`: liveness is out of
  the prover's reach.

Every invariant and action property of the passing runs is also proved.

## 7. What is not modelled

* The eviction of `BlockCache`. `postInit` pushes the same heights again at every
  reload, `min` runs ahead of the heights, and the cache then grows past
  `MAX_CACHE_SIZE`. What that costs is memory: a block that is not in the cache is
  looked up in the log by its position. The models keep the whole chain in the cache.
* The window of blocks that the network fee is computed from (`cacheNetworkFee`);
  it is a constant of `TxPool`. A transaction that the pool accepted before the fee
  rose can therefore fail in its block for one reason more than in the model.
* The wallet's commands that only query a node, which change no state.
* Left out for good: the command line and its output, the format of RPC messages
  and the decimal arithmetic of `Asset` (in the native module `godcoin-neon`, which
  is not in the repository), LevelDB and the file system beyond what the code
  relies on, the listening socket of `Server`, and a loss of power.
