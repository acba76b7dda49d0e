----------------------------- MODULE Blockchain -----------------------------
(***************************************************************************)
(* How Blockchain, ChainStore, BlockIndexer and Indexer keep the block log *)
(* and the index in step: src/src/lib/blockchain/, src/src/lib/indexer/    *)
(* and the synchronization loop of src/src/lib/node/synchronizer.ts.       *)
(*                                                                         *)
(* Two jobs write blocks.  "add" is addBlock(), serialized by the lock of  *)
(* Blockchain, with the indexer the object was constructed with.  "bulk"   *)
(* is the loop of a re-index at start or of a synchronization, each with   *)
(* an indexer of its own from prepareBatch().  One action is what happens  *)
(* between two awaits that reach the disk, so that a crash, or a step of   *)
(* the other job, can come between any two of them.                        *)
(*                                                                         *)
(* A payload pays one account of its own, so the balance of that account   *)
(* is how often the payload was applied.  A block adds its reward of 1 to  *)
(* the token supply and takes the fee of its bond from it, which is more   *)
(* than the reward.  A crash is the end of the process: what was appended  *)
(* to the log or put into the index before is kept.                        *)
(***************************************************************************)
EXTENDS ChainLog

CONSTANTS
  Founding,         \* the payloads of genesis blocks, unsigned and valid nowhere else
  Bonding,          \* the payloads that hold a bond transaction
  Env,              \* what happens around the node, see Hazards
  BondFee,          \* BOND_FEE of constants.ts, in rewards
  FlushOps,         \* how many positions a batch holds before it writes them
  MaxHeight,        \* bound: height of the highest block
  MaxLog,           \* bound: records (or torn records) in the log
  MaxFaults         \* bound: crashes and failed appends in a behaviour

\* The hazards under which the index stays correct are the first three.
Hazards == {
  "crash",          \* the process dies between two steps
  "reindex",        \* the operator starts the node with --reindex
  "sync",           \* the node takes blocks from its peers
  "emptysync",      \* a synchronization ends before it got a block
  "ioerror",        \* an append to the log fails
  "overlap"}        \* a block is added while a synchronization runs

ASSUME PayloadAssumption == Founding \subseteq Payloads /\ Bonding \subseteq Payloads
ASSUME EnvAssumption == Env \subseteq Hazards
ASSUME FeeAssumption == BondFee \in Nat
ASSUME BoundAssumption ==
  /\ FlushOps \in Nat \ {0} /\ MaxHeight \in Nat
  /\ MaxLog \in Nat /\ MaxFaults \in Nat

VARIABLES
  log,              \* the block log file
  index,            \* the LevelDB index
  mode,             \* "down", "reindex" (start() re-indexes) or "up"
  head,             \* ChainStore._blockHead
  tail,             \* ChainStore.blockTailPos
  job,              \* where each job is
  batch,            \* the BlockIndexer of each job
  announced,        \* history: the last block emitted with 'block'
  faults            \* bound: crashes and failed appends so far

vars == << log, index, mode, head, tail, job, batch, announced, faults >>

Jobs == {"add", "bulk"}

NoHeight == -1      \* the index holds no chain height
NoMap == << >>      \* the function with an empty domain

\* What the block of payload p adds to the supply: the reward, less the fee that its
\* bond burns.  The bond of a genesis block has none.
Minted(p) == 1 - IF p \in Bonding \ Founding THEN BondFee ELSE 0

EmptyIndex ==
  [pos |-> NoMap,                       \* height -> offset in the log
   height |-> NoHeight,                 \* CURRENT_BLOCK_HEIGHT
   bal |-> [p \in Payloads |-> 0],      \* balances
   supply |-> 0,                        \* TOKEN_SUPPLY
   bonds |-> {},                        \* bonds
   seen |-> {}]                         \* registered transactions

\* A new BlockIndexer with its BatchIndex.
EmptyBatch ==
  [ops |-> NoMap, height |-> 0, map |-> NoMap, supply |-> 0]

Idle == [pc |-> "idle", block |-> NoBlock, off |-> 0, old |-> 0, ok |-> TRUE]

-----------------------------------------------------------------------------
\* The block the index points to as head, and whether it can be read.
HeadValid ==
  index.height # NoHeight =>
    /\ index.height \in DOMAIN index.pos
    /\ Readable(log, index.pos[index.height])

Committed ==
  IF index.height = NoHeight \/ ~HeadValid
  THEN NoBlock ELSE BlockAt(log, index.pos[index.height])

Quiet(j) == job[j].pc = "idle"

\* Whether job j may begin.  addBlock() takes a lock that a synchronization does
\* not take: when the node has more than a genesis block and peers come back,
\* nothing keeps the two apart.
MayBegin(j) ==
  /\ mode = "up"
  /\ Quiet(j)
  /\ \A i \in Jobs : Quiet(i) \/ ("overlap" \in Env /\ index.height > 0)

Room == Height(head) < MaxHeight /\ Len(log) + RecordLen <= RecordLen * MaxLog

Goto(j, phase) == job' = [job EXCEPT ![j].pc = phase]

\* What is gone when the process ends.
Forget ==
  /\ mode' = "down"
  /\ head' = NoBlock
  /\ tail' = 0
  /\ job' = [j \in Jobs |-> Idle]
  /\ batch' = [j \in Jobs |-> EmptyBatch]

Init ==
  /\ log = << >>
  /\ index = EmptyIndex
  /\ mode = "down" /\ head = NoBlock /\ tail = 0
  /\ job = [j \in Jobs |-> Idle]
  /\ batch = [j \in Jobs |-> EmptyBatch]
  /\ announced = NoBlock
  /\ faults = 0

-----------------------------------------------------------------------------
(* Start and end of the process                                            *)

\* start() without --reindex: init() takes the size of the log, postInit()
\* loads the head the index names and fills the block cache from height 0, so
\* the node only comes up when all of these blocks can be read.
Start ==
  /\ mode = "down"
  /\ \A h \in 0..index.height :
       h \in DOMAIN index.pos /\ Readable(log, index.pos[h])
  /\ head' = Committed
  /\ tail' = Len(log)
  /\ mode' = "up"
  /\ UNCHANGED << log, index, job, batch, announced, faults >>

\* The constructor with --reindex deletes the index; start() reads the log.
StartReindex ==
  /\ "reindex" \in Env
  /\ mode = "down"
  /\ index' = EmptyIndex
  /\ tail' = Len(log)
  /\ mode' = "reindex"
  /\ job' = [job EXCEPT !["bulk"].pc = "scan"]
  /\ UNCHANGED << log, head, batch, announced, faults >>

\* stop() waits for addBlock().
Stop ==
  /\ mode = "up"
  /\ \A j \in Jobs : Quiet(j)
  /\ Forget
  /\ UNCHANGED << log, index, announced, faults >>

Crash ==
  /\ "crash" \in Env
  /\ mode # "down"
  /\ faults < MaxFaults
  /\ faults' = faults + 1
  /\ Forget
  /\ UNCHANGED << log, index, announced >>

-----------------------------------------------------------------------------
(* Which block is indexed next                                             *)

\* addBlock() of the genesis block, from LocalMinter.createGenesisBlock(): it
\* asserts that no genesis block can be read.
CreateGenesis(p) ==
  /\ MayBegin("add") /\ Room
  /\ head = NoBlock
  /\ 0 \notin DOMAIN index.pos
  /\ job' = [job EXCEPT !["add"].pc = "index", !["add"].block = << p >>]
  /\ UNCHANGED << log, index, mode, head, tail, batch, announced, faults >>

\* Mutant: the previous hash is not compared.
BeginAddUnlinked(p) ==
  /\ MayBegin("add") /\ Room
  /\ head # NoBlock
  /\ p \notin index.seen
  /\ index' = [index EXCEPT !.seen = @ \cup {p}]
  /\ \E i \in 1..Len(log) :
       /\ Height(log[i].block) = Height(head)
       /\ job' = [job EXCEPT !["add"].pc = "index",
                             !["add"].block = Append(log[i].block, p)]
  /\ UNCHANGED << log, mode, head, tail, batch, announced, faults >>

\* Mutant: validateBlock() does not register the transactions.
BeginAddUnregistered(p) ==
  /\ MayBegin("add") /\ Room
  /\ head # NoBlock
  /\ p \notin index.seen
  /\ job' = [job EXCEPT !["add"].pc = "index",
                        !["add"].block = Append(head, p)]
  /\ UNCHANGED << log, index, mode, head, tail, batch, announced, faults >>

\* addBlock() of a successor of the head that passes validateBlock(), which
\* registers its transactions on the way.
BeginAdd(p) ==
  /\ MayBegin("add") /\ Room
  /\ head # NoBlock
  /\ p \notin index.seen
  /\ index' = [index EXCEPT !.seen = @ \cup {p}]
  /\ job' = [job EXCEPT !["add"].pc = "index",
                        !["add"].block = Append(head, p)]
  /\ UNCHANGED << log, mode, head, tail, batch, announced, faults >>

\* The Merkle root, the previous hash and the signature are tested last: the
\* transactions of a block that fails there are already registered.
RejectBlock(p) ==
  /\ MayBegin("add")
  /\ head # NoBlock
  /\ p \notin index.seen
  /\ index' = [index EXCEPT !.seen = @ \cup {p}]
  /\ UNCHANGED << log, mode, head, tail, job, batch, announced, faults >>

\* synchronizeChain() up to its first request.  With the genesis block as head
\* that is for height 0 again, whose answer fails with 'unexpected height'.
BeginSync ==
  /\ Env \cap {"sync", "emptysync"} # {}
  /\ MayBegin("bulk")
  /\ batch' = [batch EXCEPT !["bulk"] = EmptyBatch]
  /\ LET again == Height(head) = 0
     IN  job' = [job EXCEPT !["bulk"] =
           [pc |-> IF again THEN "flushpos" ELSE "fetch", block |-> head,
            off |-> 0, old |-> 0, ok |-> ~again]]
  /\ UNCHANGED << log, index, mode, head, tail, announced, faults >>

\* A block of a peer that passes validateBlock() with SKIP_TX; the first block
\* of an empty chain is not validated.  The chain of a peer repeats nothing.
FetchBlock(p) ==
  /\ "sync" \in Env
  /\ job["bulk"].pc = "fetch" /\ Room
  /\ head = job["bulk"].block
  /\ p \in Founding <=> head = NoBlock
  /\ Count(head, p) = 0
  /\ job' = [job EXCEPT !["bulk"].pc = "index",
                        !["bulk"].block = Append(head, p)]
  /\ UNCHANGED << log, index, mode, head, tail, batch, announced, faults >>

\* The peers have no more blocks (ok), or a block or a request failed.  Without
\* "emptysync" the synchronization got at least one block, which its indexer
\* remembers in the balances it cached.
EndFetch(ok) ==
  /\ job["bulk"].pc = "fetch"
  /\ "emptysync" \in Env \/ batch["bulk"].map # NoMap
  /\ job' = [job EXCEPT !["bulk"].pc = "flushpos", !["bulk"].ok = ok]
  /\ UNCHANGED << log, index, mode, head, tail, batch, announced, faults >>

\* One record of the log read by readBlockLog(): it has the next height, and
\* validateBlock() finds it linked to the record before.
ScanRecord ==
  /\ job["bulk"].pc = "scan"
  /\ job["bulk"].off < tail
  /\ Readable(log, job["bulk"].off)
  /\ LET b == BlockAt(log, job["bulk"].off)
     IN  /\ job["bulk"].block \in {NoBlock, Parent(b)}
         /\ job' = [job EXCEPT !["bulk"].pc = "index", !["bulk"].block = b]
  /\ UNCHANGED << log, index, mode, head, tail, batch, announced, faults >>

\* The record cannot be read, or its height is not above the last one.
ScanStuck ==
  \/ ~Readable(log, job["bulk"].off)
  \/ Height(BlockAt(log, job["bulk"].off)) <= Height(job["bulk"].block)

\* Mutant: the log is not truncated.
ScanTrimKeeps ==
  /\ job["bulk"].pc = "scan"
  /\ job["bulk"].off < tail
  /\ job["bulk"].block # NoBlock
  /\ ScanStuck
  /\ Goto("bulk", "flushpos")
  /\ UNCHANGED << log, index, mode, head, tail, batch, announced, faults >>

\* Either way the log is cut behind the last good record and the scan ends.
ScanTrim ==
  /\ job["bulk"].pc = "scan"
  /\ job["bulk"].off < tail
  /\ job["bulk"].block # NoBlock
  /\ ScanStuck
  /\ tail' = ChopPoint(log, Height(job["bulk"].block))
  /\ log' = SubSeq(log, 1, tail')
  /\ Goto("bulk", "flushpos")
  /\ UNCHANGED << index, mode, head, batch, announced, faults >>

\* start() throws: the first record is not readable, or one that is higher is
\* not linked.  The index stays as empty as it is.
ScanFails ==
  /\ job["bulk"].pc = "scan"
  /\ job["bulk"].off < tail
  /\ IF job["bulk"].block = NoBlock
     THEN ~Readable(log, job["bulk"].off)
     ELSE ~ScanStuck /\ Parent(BlockAt(log, job["bulk"].off)) # job["bulk"].block
  /\ Forget
  /\ UNCHANGED << log, index, announced, faults >>

\* The end of the log; with no block at all nothing is flushed.
ScanEnd ==
  /\ job["bulk"].pc = "scan"
  /\ job["bulk"].off >= tail
  /\ Goto("bulk", IF job["bulk"].block = NoBlock THEN "done" ELSE "flushpos")
  /\ UNCHANGED << log, index, mode, head, tail, batch, announced, faults >>

-----------------------------------------------------------------------------
(* BlockIndexer.index()                                                    *)

\* indexTransactions(): the balances are changed in the cache of the indexer,
\* which loads each account once; a bond is put into the index at once.  Then
\* the height is raised, before the block is written, and write() takes the
\* position the record will have.
IndexTxs(j) ==
  LET b == job[j].block
      p == Payload(b)
      m == batch[j].map
  IN
  /\ job[j].pc = "index"
  /\ index' = [index EXCEPT !.bonds = IF p \in Bonding THEN @ \cup {p} ELSE @]
  /\ batch' = [batch EXCEPT
       ![j].map = Put(m, p, 1 + IF p \in DOMAIN m THEN m[p] ELSE index.bal[p]),
       ![j].supply = @ + Minted(p),
       ![j].height = IF Height(b) > @ THEN Height(b) ELSE @]
  /\ job' = [job EXCEPT ![j].pc = IF mode = "reindex" THEN "place" ELSE "len",
                        ![j].off = IF mode = "reindex" THEN @ ELSE tail]
  /\ UNCHANGED << log, mode, head, tail, announced, faults >>

\* A re-index only notes the position, and goes on behind the record.
Place ==
  /\ job["bulk"].pc = "place"
  /\ batch' = [batch EXCEPT !["bulk"].ops =
       Put(@, Height(job["bulk"].block), job["bulk"].off)]
  /\ job' = [job EXCEPT !["bulk"].pc = "mayflush", !["bulk"].off = @ + RecordLen]
  /\ UNCHANGED << log, index, mode, head, tail, announced, faults >>

\* write() appends the length, then the encoded block.
WritePart(j) ==
  /\ job[j].pc \in {"len", "body"}
  /\ log' = Append(log, Piece(job[j].block, job[j].pc))
  /\ Goto(j, IF job[j].pc = "len" THEN "body" ELSE "crc")
  /\ UNCHANGED << index, mode, head, tail, batch, announced, faults >>

\* Mutant: blockTailPos is not advanced.
WriteCrcNoTail(j) ==
  /\ job[j].pc = "crc"
  /\ log' = Append(log, Piece(job[j].block, "crc"))
  /\ head' = job[j].block
  /\ batch' = [batch EXCEPT ![j].ops = Put(@, Height(job[j].block), job[j].off)]
  /\ Goto(j, "mayflush")
  /\ UNCHANGED << index, mode, tail, announced, faults >>

\* Last it appends the checksum, moves the head and the tail, and the position
\* goes to the batch.
WriteCrc(j) ==
  /\ job[j].pc = "crc"
  /\ log' = Append(log, Piece(job[j].block, "crc"))
  /\ head' = job[j].block
  /\ tail' = tail + RecordLen
  /\ batch' = [batch EXCEPT ![j].ops = Put(@, Height(job[j].block), job[j].off)]
  /\ Goto(j, "mayflush")
  /\ UNCHANGED << index, mode, announced, faults >>

\* Mutant: addBlock() goes on when an append fails.
WriteFailsSilently(j) ==
  /\ "ioerror" \in Env
  /\ faults < MaxFaults
  /\ faults' = faults + 1
  /\ job[j].pc \in Parts
  /\ head' = job[j].block
  /\ Goto(j, "flushpos")
  /\ UNCHANGED << log, index, mode, tail, batch, announced >>

\* An append fails: a synchronization flushes its indexer and gives up,
\* addBlock() throws and its indexer keeps what it cached.  Without a genesis
\* block the start of the node fails with it.
WriteFails(j) ==
  /\ "ioerror" \in Env
  /\ faults < MaxFaults
  /\ faults' = faults + 1
  /\ job[j].pc \in Parts
  /\ \/ /\ j = "bulk"
        /\ job' = [job EXCEPT ![j].pc = "flushpos", ![j].ok = FALSE]
        /\ UNCHANGED << mode, head, tail, batch >>
     \/ /\ j = "add" /\ head # NoBlock
        /\ job' = [job EXCEPT ![j] = Idle]
        /\ UNCHANGED << mode, head, tail, batch >>
     \/ /\ j = "add" /\ head = NoBlock
        /\ Forget
  /\ UNCHANGED << log, index, announced >>

WritePositions(j) ==
  /\ index' = [index EXCEPT !.pos = Over(batch[j].ops, @)]
  /\ batch' = [batch EXCEPT ![j].ops = NoMap]

\* maybeFlush(): a batch with enough operations writes them; balances only
\* reach the batch in flush().  addBlock() flushes now, the loops go on.
MayFlush(j) ==
  /\ job[j].pc = "mayflush"
  /\ IF Cardinality(DOMAIN batch[j].ops) >= FlushOps
     THEN WritePositions(j)
     ELSE UNCHANGED << index, batch >>
  /\ Goto(j, IF j = "add" THEN "flushpos"
             ELSE IF mode = "reindex" THEN "scan" ELSE "fetch")
  /\ UNCHANGED << log, mode, head, tail, announced, faults >>

-----------------------------------------------------------------------------
(* BlockIndexer.flush()                                                    *)

\* Mutant: the chain height is written before the balances.
NextPhaseHeightFirst(phase) ==
  CASE phase = "flushpos" -> "flushheight"
    [] phase = "flushheight" -> "flushbal"
    [] phase = "flushbal" -> "readsupply"
    [] phase = "readsupply" -> "writesupply"
    [] phase = "writesupply" -> "done"

\* Mutant: the supply is written before the chain height.
NextPhaseSupplyFirst(phase) ==
  CASE phase = "flushpos" -> "flushbal"
    [] phase = "flushbal" -> "readsupply"
    [] phase = "readsupply" -> "writesupply"
    [] phase = "writesupply" -> "flushheight"
    [] phase = "flushheight" -> "done"

\* Mutant: the block is announced before the chain height is written.
NextPhaseDoneEarly(phase) ==
  CASE phase = "flushpos" -> "flushbal"
    [] OTHER -> "done"

\* The order of the writes of flush().
NextPhase(phase) ==
  CASE phase = "flushpos" -> "flushbal"
    [] phase = "flushbal" -> "flushheight"
    [] phase = "flushheight" -> "readsupply"
    [] phase = "readsupply" -> "writesupply"
    [] phase = "writesupply" -> "done"

\* BatchIndex.flush() writes the positions in one atomic batch ...
FlushPos(j) ==
  /\ job[j].pc = "flushpos"
  /\ WritePositions(j)
  /\ Goto(j, NextPhase("flushpos"))
  /\ UNCHANGED << log, mode, head, tail, announced, faults >>

\* ... and the balances in another one.
FlushBal(j) ==
  /\ job[j].pc = "flushbal"
  /\ index' = [index EXCEPT !.bal = Over(batch[j].map, @)]
  /\ Goto(j, NextPhase("flushbal"))
  /\ UNCHANGED << log, mode, head, tail, batch, announced, faults >>

FlushHeight(j) ==
  /\ job[j].pc = "flushheight"
  /\ index' = [index EXCEPT !.height = batch[j].height]
  /\ Goto(j, NextPhase("flushheight"))
  /\ UNCHANGED << log, mode, head, tail, batch, announced, faults >>

\* The supply is read, changed and written back.
ReadSupply(j) ==
  /\ job[j].pc = "readsupply"
  /\ job' = [job EXCEPT ![j].pc = NextPhase("readsupply"), ![j].old = index.supply]
  /\ UNCHANGED << log, index, mode, head, tail, batch, announced, faults >>

\* Mutant: the indexer does not forget the supply and the balances.
WriteSupplyKeeps(j) ==
  /\ job[j].pc = "writesupply"
  /\ index' = [index EXCEPT !.supply = job[j].old + batch[j].supply]
  /\ Goto(j, NextPhase("writesupply"))
  /\ UNCHANGED << log, mode, head, tail, batch, announced, faults >>

WriteSupply(j) ==
  /\ job[j].pc = "writesupply"
  /\ index' = [index EXCEPT !.supply = job[j].old + batch[j].supply]
  /\ batch' = [batch EXCEPT ![j].supply = 0, ![j].map = NoMap]
  /\ Goto(j, NextPhase("writesupply"))
  /\ UNCHANGED << log, mode, head, tail, announced, faults >>

\* addBlock() ends with the 'block' event.
EndAdd ==
  /\ job["add"].pc = "done"
  /\ announced' = job["add"].block
  /\ job' = [job EXCEPT !["add"] = Idle]
  /\ UNCHANGED << log, index, mode, head, tail, batch, faults >>

\* reload(): the head is loaded again from the index, or from the block cache
\* when the index has a position for it that cannot be read.  A synchronization
\* that failed does not come here.
Reloaded ==
  IF index.height = NoHeight THEN head
  ELSE IF index.height \notin DOMAIN index.pos THEN NoBlock
  ELSE IF HeadValid THEN Committed ELSE head

EndBulk ==
  /\ job["bulk"].pc = "done"
  /\ mode = "reindex" \/ head # NoBlock
  /\ head' = IF job["bulk"].ok THEN Reloaded ELSE head
  /\ mode' = "up"
  /\ job' = [job EXCEPT !["bulk"] = Idle]
  /\ UNCHANGED << log, index, tail, batch, announced, faults >>

\* The synchronization at start that leaves the node without a head, whether it
\* failed or found nothing, makes start() throw, and the node stops.
EndSyncHeadless ==
  /\ job["bulk"].pc = "done"
  /\ mode = "up" /\ head = NoBlock
  /\ Forget
  /\ UNCHANGED << log, index, announced, faults >>

-----------------------------------------------------------------------------
Flush(j) ==
  \/ FlushPos(j) \/ FlushBal(j) \/ FlushHeight(j)
  \/ ReadSupply(j) \/ WriteSupply(j)

IndexBlock(j) == IndexTxs(j) \/ WritePart(j) \/ WriteCrc(j) \/ WriteFails(j) \/ MayFlush(j)

Scan == ScanRecord \/ ScanTrim \/ ScanFails \/ ScanEnd \/ Place

Sync == BeginSync \/ (\E p \in Payloads : FetchBlock(p)) \/ \E ok \in BOOLEAN : EndFetch(ok)

Add ==
  \/ \E p \in Founding : CreateGenesis(p)
  \/ \E p \in Payloads \ Founding : BeginAdd(p) \/ RejectBlock(p)

Next ==
  \/ Start \/ StartReindex \/ Stop \/ Crash
  \/ Add \/ Sync \/ Scan
  \/ EndAdd \/ EndBulk \/ EndSyncHeadless
  \/ \E j \in Jobs : IndexBlock(j) \/ Flush(j)

Spec == Init /\ [][Next]_vars

-----------------------------------------------------------------------------
AllQuiet == mode = "up" /\ \A j \in Jobs : Quiet(j)

\* The index never points into a torn or foreign part of the log: at every
\* moment, and so also after a crash, each height up to the chain height has a
\* position where a whole record starts, and these records are one linked chain
\* that ends in the head, whatever else earlier crashes left in the log.
IndexIsChain ==
  index.height # NoHeight =>
    /\ HeadValid
    /\ Height(Committed) = index.height
    /\ Chained(log, index.pos, Committed)

\* Every block of chain b is whole somewhere in the log.
HasChain(l, b) ==
  \A n \in 1..Len(b) : \E o \in 0..Len(l) : Stored(l, o, SubSeq(b, 1, n))

\* Whatever fails, an announced block and the chain below it are whole in the
\* log, even when the index no longer finds them.
AnnouncedInLog == HasChain(log, announced)

\* A running node still has every block that it announced on its chain, also
\* after crashes and restarts.
AnnouncedSurvives == mode = "up" => IsPrefix(announced, head)

\* No crash loses a payment: the balances in the index hold at least what the
\* committed chain pays, because flush() writes them before the chain height,
\* and each bond of the chain is in the index.
BalancesCoverChain ==
  \A p \in Payloads : Count(Committed, p) > 0 =>
    /\ index.bal[p] >= Count(Committed, p)
    /\ p \in Bonding => p \in index.bonds

\* What the blocks at the heights S of chain b, counted from 1, mint less what they burn.
MintedAt(b, S) ==
  Cardinality(S) - BondFee * Cardinality({n \in S : b[n] \in Bonding \ Founding})

SupplyOf(b) == MintedAt(b, 1..Len(b))

\* The supply counts some blocks of chain b.
CountsSome(supply, b) == \E S \in SUBSET (1..Len(b)) : supply = MintedAt(b, S)

\* Whatever crashes, the supply in the index is what some blocks of the committed chain
\* mint and burn: it counts none of them twice, and none that is not on the chain,
\* because flush() writes it after the chain height.  A crash between the two loses the
\* rewards, and also the burnt fees, of the blocks of the flush.
SupplyWithinChain == CountsSome(index.supply, Committed)

\* As long as nothing has failed, balances, supply and bonds of a node that works on
\* nothing are those of a replay of its chain from the genesis block, in whatever
\* order it added, synchronized and re-indexed.
IndexMatchesReplay ==
  faults = 0 /\ AllQuiet =>
    /\ \A p \in Payloads : index.bal[p] = Count(head, p)
    /\ index.supply = SupplyOf(head)
    /\ index.bonds = Bonding \cap ToSet(head)

\* No transaction is executed twice on the chain of a running node.
NoReplay == mode = "up" => \A p \in Payloads : Count(head, p) <= 1

\* The log holds the records of one chain, and the index is its replay.
Consistent ==
  /\ Len(log) = RecordLen * Len(head)
  /\ Chained(log, index.pos, head)
  /\ index.pos = [k \in 0..Height(head) |-> RecordLen * k]
  /\ index.height = Height(head)
  /\ \A p \in Payloads : index.bal[p] = Count(head, p)
  /\ index.supply = SupplyOf(head)
  /\ index.bonds = Bonding \cap ToSet(head)

\* Whatever crashes left behind in the log and the index, a re-index that ends
\* leaves a log of one chain and the index of its replay.
ReindexRepairs == [][mode = "reindex" /\ mode' = "up" => Consistent']_vars

\* A re-index that ends keeps the announced blocks.
ReindexKeepsBlocks ==
  [][mode = "reindex" /\ mode' = "up" => IsPrefix(announced, head')]_vars

\* The assertion of postInit(): the index points to a block that can be read.
HeadReadable == HeadValid

\* The assertion of createGenesisBlock(): a started node that has no head has no
\* genesis block either, so that the first block can be made.
GenesisCanBeCreated ==
  AllQuiet /\ head = NoBlock => 0 \notin DOMAIN index.pos

-----------------------------------------------------------------------------
\* Between crashes and synchronizations the chain only grows, and what has been
\* announced is never taken back: Blockchain implements Ledger.
TheLedger == INSTANCE Ledger WITH chain <- Committed

ImplementsLedger == TheLedger!Spec

-----------------------------------------------------------------------------
(* The inductive invariant behind IndexIsChain                             *)

IsMap(f, S, T) == DOMAIN f \subseteq S /\ f \in [DOMAIN f -> T]

Phases == {
  "idle", "fetch", "scan", "index", "place", "len", "body", "crc", "mayflush",
  "flushpos", "flushbal", "flushheight", "readsupply", "writesupply", "done"}

JobRecords ==
  [pc : Phases, block : Blocks, off : Nat, old : Int, ok : BOOLEAN]

TypeOK ==
  /\ log \in Seq(Pieces)
  /\ index \in [pos : {index.pos}, height : Nat \cup {NoHeight},
                bal : [Payloads -> Nat], supply : Int,
                bonds : SUBSET Payloads, seen : SUBSET Payloads]
  /\ IsMap(index.pos, Nat, Nat)
  /\ mode \in {"down", "reindex", "up"}
  /\ head \in Blocks
  /\ tail \in Nat
  /\ job \in [Jobs -> JobRecords]
  /\ DOMAIN batch = Jobs
  /\ \A j \in Jobs :
       /\ batch[j] \in [ops : {batch[j].ops}, height : Nat,
                        map : {batch[j].map}, supply : Int]
       /\ IsMap(batch[j].ops, Nat, Nat)
       /\ IsMap(batch[j].map, Payloads, Nat)
  /\ announced \in Blocks
  /\ faults \in Nat

\* Where the index will find the blocks once job j has flushed its positions.
Places(j) == Over(batch[j].ops, index.pos)

Writing == {"len", "body", "crc"}
Unflushed == {"mayflush", "flushpos", "flushbal", "flushheight"}
Flushed == {"readsupply", "writesupply", "done"}
Placed == {"flushbal", "flushheight"} \cup Flushed

\* The first record of the log is a genesis block.
GenesisFirst == Len(log) > 0 => Len(log[1].block) = 1

\* Only one job works, and one that does not holds no positions.  A node that is
\* down holds nothing, one that re-indexes nothing for addBlock().
OneJob ==
  /\ \E j \in Jobs : Quiet(j)
  /\ \A j \in Jobs : Quiet(j) => batch[j].ops = NoMap
  /\ mode # "up" => head = NoBlock /\ Quiet("add") /\ batch["add"] = EmptyBatch
  /\ mode = "reindex" => ~Quiet("bulk")
  /\ mode = "down" => job["bulk"] = Idle /\ batch["bulk"] = EmptyBatch

\* The log ends at the tail, but for what a job has written of its record.
TailIsEnd ==
  mode # "down" =>
    /\ (\A j \in Jobs : job[j].pc \notin {"body", "crc"}) => tail = Len(log)
    /\ \A j \in Jobs :
         /\ job[j].pc \in Writing => job[j].off = tail
         /\ job[j].pc = "body" =>
              /\ Len(log) = tail + 1
              /\ log[tail + 1] = Piece(job[j].block, "len")
         /\ job[j].pc = "crc" =>
              /\ Len(log) = tail + 2
              /\ log[tail + 1] = Piece(job[j].block, "len")
              /\ log[tail + 2] = Piece(job[j].block, "body")

\* The head of a running node is stored as a chain that extends the committed
\* one, and is the committed one before a job starts and after its flush.
HeadInv ==
  mode = "up" =>
    /\ index.height <= Height(head)
    /\ (\A j \in Jobs : job[j].pc \in Flushed \cup {"idle"}) =>
         index.height = Height(head)
    /\ \A j \in Jobs :
         /\ (\A i \in Jobs \ {j} : Quiet(i)) => Chained(log, Places(j), head)
         /\ \A h \in DOMAIN batch[j].ops : h > index.height
         /\ job[j].pc \in Placed => batch[j].ops = NoMap

\* What a job of a running node works on.
JobInv ==
  mode = "up" => \A j \in Jobs :
    /\ job[j].pc \notin {"scan", "place"}
    /\ job[j].pc = "fetch" => j = "bulk"
    /\ job[j].pc \in Writing \cup {"index"} =>
         Parent(job[j].block) = head /\ Len(job[j].block) = Len(head) + 1
    /\ job[j].pc \in {"idle", "fetch", "index"} =>
         batch[j].height = 0 \/ batch[j].height <= Height(head)
    /\ job[j].pc = "fetch" /\ batch[j].map # NoMap =>
         head # NoBlock /\ batch[j].height = Height(head)
    /\ job[j].pc \in Writing => batch[j].height = Height(job[j].block)
    /\ job[j].pc \in Unflushed \cup Flushed =>
         head # NoBlock /\ batch[j].height = Height(head)

\* What a re-index has read is one chain from the start of the log.
Scanned(b) ==
  \A h \in 0..Height(b) :
    /\ h \in DOMAIN Places("bulk")
    /\ Places("bulk")[h] = RecordLen * h
    /\ Stored(log, RecordLen * h, SubSeq(b, 1, h + 1))

ScanInv ==
  mode = "reindex" =>
    LET r == job["bulk"] IN
    /\ r.ok
    /\ r.pc \in {"scan", "index", "place", "done"} \cup Unflushed \cup Flushed
    /\ index.height = IF r.pc \in Flushed THEN Height(r.block) ELSE NoHeight
    /\ r.pc \in {"scan", "mayflush"} => r.off = RecordLen * Len(r.block)
    /\ r.pc \in {"index", "place"} =>
         /\ r.block # NoBlock
         /\ r.off = RecordLen * Height(r.block)
         /\ Stored(log, r.off, r.block)
         /\ Scanned(Parent(r.block))
    /\ r.pc \notin {"index", "place"} => Scanned(r.block)
    /\ r.pc \in {"scan", "index"} \cup Flushed =>
         batch["bulk"].height = 0 \/ batch["bulk"].height <= Height(r.block)
    /\ r.pc \in Unflushed => r.block # NoBlock
    /\ r.pc \in Unflushed \cup {"place"} => batch["bulk"].height = Height(r.block)
    /\ r.pc = "scan" /\ r.block # NoBlock => batch["bulk"].height = Height(r.block)
    /\ r.pc \in Placed => batch["bulk"].ops = NoMap
    /\ r.pc = "scan" /\ r.block = NoBlock => batch["bulk"].ops = NoMap

\* What IndexInv rests on: every append succeeds, blocks come from one job at a
\* time, and a synchronization gets a block before it ends.
Calm == Env \cap {"emptysync", "ioerror", "overlap"} = {}

IndexInv ==
  /\ TypeOK
  /\ GenesisFirst
  /\ IndexIsChain
  /\ OneJob
  /\ TailIsEnd
  /\ HeadInv
  /\ JobInv
  /\ ScanInv

-----------------------------------------------------------------------------
(* The inductive invariant behind the other properties of the index        *)

\* Balances and bonds are not behind a replay of chain b, the supply counts some of its
\* blocks, and, if exact, they are the replay.
Agree(bal, supply, bonds, b, exact) ==
  /\ \A p \in Payloads : bal[p] >= Count(b, p) /\ (exact => bal[p] = Count(b, p))
  /\ CountsSome(supply, b) /\ (exact => supply = SupplyOf(b))
  /\ Bonding \cap ToSet(b) \subseteq bonds /\ (exact => bonds = Bonding \cap ToSet(b))

\* The chain of which job j has indexed the transactions.
Target(j) ==
  IF mode = "up" /\ job[j].pc \notin Writing THEN head
  ELSE IF job[j].pc = "index" THEN Parent(job[j].block) ELSE job[j].block

\* The index with what the indexer of job j still holds agrees with that chain, and is
\* its replay in a re-index and as long as nothing has failed.
Replays(j) ==
  Agree(Over(batch[j].map, index.bal), index.supply + batch[j].supply, index.bonds,
        Target(j), faults = 0 \/ mode = "reindex")

ReplayInv ==
  /\ Agree(index.bal, index.supply, index.bonds, Committed,
           faults = 0 /\ \A j \in Jobs : Quiet(j))
  /\ \A j \in Jobs :
       /\ ~Quiet(j) => Replays(j)
       /\ job[j].pc \in {"idle", "done"} \/ (job[j].pc = "scan" /\ job[j].block = NoBlock) =>
            batch[j].map = NoMap /\ batch[j].supply = 0
       /\ job[j].pc \in {"flushheight"} \cup Flushed =>
            Over(batch[j].map, index.bal) = index.bal
       /\ job[j].pc = "writesupply" => job[j].old = index.supply

\* The log starts with the records of chain b, one after the other.
Starts(b) == \A h \in 0..Height(b) : Stored(log, RecordLen * h, SubSeq(b, 1, h + 1))

\* A re-index finds no other positions than those of the records, and cuts the log to
\* the chain that it has read.  As long as nothing has failed, the log is one chain.
WholeInv ==
  /\ mode = "reindex" =>
       LET r == job["bulk"] IN
       /\ DOMAIN Places("bulk") \subseteq
            0..Height(IF r.pc \in {"index", "place"} THEN Parent(r.block) ELSE r.block)
       /\ r.pc \in Flushed \cup {"flushpos", "flushbal", "flushheight"} =>
            Len(log) = RecordLen * Len(r.block)
  /\ faults = 0 =>
       /\ mode = "up" => tail = RecordLen * Len(head) /\ Starts(head)
       /\ mode = "down" => Len(log) = RecordLen * Len(Committed) /\ Starts(Committed)
       /\ mode = "reindex" =>
            \E b \in {NoBlock} \cup {log[i].block : i \in 1..Len(log)} :
              Len(log) = RecordLen * Len(b) /\ Starts(b)

\* Log, index, head and the job at work stay related, whatever fails and whenever: what
\* is indexed is what a replay of the chain gives, or on its way to it.
LedgerInv == IndexInv /\ ReplayInv /\ WholeInv
=============================================================================
