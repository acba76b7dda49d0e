------------------------ MODULE BlockchainLedger_proof ------------------------
(***************************************************************************)
(* What a node promises over its crashes, for all constants.  As long as   *)
(* one job works at a time (Calm), it implements Ledger without a re-index *)
(* and what is indexed is a replay of the chain, or on its way to it       *)
(* (LedgerInv, which adds ReplayInv and WholeInv to IndexInv).  Whatever   *)
(* fails, announced blocks stay in the log (LogInv), and a chain of added  *)
(* blocks repeats no payload (SeenInv).                                    *)
(***************************************************************************)
EXTENDS Blockchain_proof, FiniteSetTheorems

-----------------------------------------------------------------------------
(* The inductive invariants when also appends fail, without a re-index     *)

\* The types of a node that is not re-indexed, where no block is indexed or written
\* but one that there is.
RunTypes ==
  /\ TypeOK
  /\ mode # "reindex"
  /\ \A j \in Jobs :
       /\ job[j].pc \notin {"scan", "place"}
       /\ job[j].pc \in Writing \cup {"index"} => job[j].block # NoBlock

\* Whatever torn records are in between, the parents of a whole record are whole records
\* too, and a record is completed only on top of a head whose chain is there.
LogInv ==
  /\ \E j \in Jobs : Quiet(j)
  /\ mode = "down" => \A j \in Jobs : Quiet(j)
  /\ \A o \in 0..Len(log) : Readable(log, o) => HasChain(log, BlockAt(log, o))
  /\ HasChain(log, head) /\ HasChain(log, announced)
  /\ job["add"].pc \in Unflushed \cup Flushed => HasChain(log, job["add"].block)
  /\ \A j \in Jobs :
       /\ job[j].pc \in Writing \cup {"index"} => Parent(job[j].block) = head
       /\ job[j].pc = "body" =>
            Len(log) > 0 /\ log[Len(log)] = Piece(job[j].block, "len")
       /\ job[j].pc = "crc" =>
            /\ Len(log) > 1 /\ log[Len(log)] = Piece(job[j].block, "body")
            /\ log[Len(log) - 1] = Piece(job[j].block, "len")

\* A chain begins with a founding payload, repeats nothing, and all it pays after that
\* is registered.
Once(b, seen) ==
  /\ Len(b) > 0 => b[1] \in Founding
  /\ \A i \in 2..Len(b) : b[i] \in seen \ Founding
  /\ \A i, k \in 1..Len(b) : b[i] = b[k] => i = k

\* So is every chain that is in the log, even in a torn record, or on its way there.
SeenInv ==
  /\ \A i \in 1..Len(log) : Once(log[i].block, index.seen)
  /\ Once(head, index.seen)
  /\ \A j \in Jobs : Once(job[j].block, index.seen)

-----------------------------------------------------------------------------
(* The committed chain                                                     *)

\* The committed chain is the one that the index finds up to its height ...
LEMMA CommittedIs ==
  ASSUME NEW b \in Blocks, index.height = Height(b), Chained(log, index.pos, b)
  PROVE  Committed = b
<1>1. CASE b = NoBlock
  BY <1>1, IdleType DEF Committed, Height, NoHeight
<1>2. CASE b # NoBlock
  <2>1. Len(b) > 0 /\ Len(b) \in Nat
    BY <1>2 DEF NoBlock, Blocks
  <2>2. Height(b) \in DOMAIN index.pos /\ Stored(log, index.pos[Height(b)], b)
    BY <2>1, TopOfChain
  <2>3. index.height # NoHeight
    BY <2>1 DEF Height, NoHeight
  <2> QED
    BY <2>2, <2>3 DEF HeadValid, Committed, Stored
<1> QED
  BY <1>1, <1>2

\* ... also after a step.
LEMMA CommittedBecomes ==
  ASSUME NEW b \in Blocks, index'.height = Height(b), Chained(log', index'.pos, b)
  PROVE  Committed' = b
<1>1. CASE b = NoBlock
  BY <1>1, IdleType DEF Committed, Height, NoHeight
<1>2. CASE b # NoBlock
  BY <1>2, IndexMoved
<1> QED
  BY <1>1, <1>2

\* It stays when its height, its positions and its records do.
LEMMA CommittedKept ==
  ASSUME TypeOK, IndexIsChain, index'.height = index.height,
         log' = log \/ \E x \in Pieces : log' = Append(log, x),
         \A h \in 0..index.height :
           h \in DOMAIN index.pos => h \in DOMAIN index'.pos /\ index'.pos[h] = index.pos[h]
  PROVE  Committed' = Committed
<1>1. /\ Committed \in Blocks /\ Height(Committed) = index.height
      /\ Chained(log, index.pos, Committed)
  BY CommittedFacts
<1>2. log \in Seq(Pieces) /\ IsMap(index.pos, Nat, Nat)
  BY DEF TypeOK
<1>3. Chained(log', index.pos, Committed)
  BY <1>1, <1>2, ChainedAppend
<1>4. Chained(log', index'.pos, Committed)
  BY <1>1, <1>3, ChainedSame
<1> QED
  BY <1>1, <1>4, CommittedBecomes

\* A job that has flushed its positions: the index finds the chain it works on.
LEMMA PlacedChain ==
  ASSUME IndexInv, NEW j \in Jobs, job[j].pc \in Placed
  PROVE  /\ mode # "down" /\ Target(j) \in Blocks
         /\ Chained(log, index.pos, Target(j))
         /\ job[j].pc \in {"flushbal", "flushheight"} => batch[j].height = Height(Target(j))
         /\ job[j].pc \in Flushed => index.height = Height(Target(j))
<1> USE DEF IndexInv
<1>1. mode # "down" /\ (mode = "reindex" => j = "bulk") /\ \A i \in Jobs \ {j} : Quiet(i)
  BY DEF OneJob, Placed, Flushed, Idle, Jobs, Quiet
<1>2. CASE mode = "up"
  <2>1. Target(j) = head
    BY <1>2 DEF Target, Placed, Flushed, Writing
  <2>2. head \in Blocks /\ batch[j].ops = NoMap /\ Chained(log, Places(j), head)
    BY <1>1, <1>2 DEF HeadInv, TypeOK
  <2>3. Chained(log, index.pos, head)
    BY <2>2, OverNoMap DEF Places
  <2>4. job[j].pc \in {"flushbal", "flushheight"} => batch[j].height = Height(head)
    BY <1>2 DEF JobInv, Unflushed
  <2>5. job[j].pc \in Flushed => index.height = Height(head)
    BY <1>1, <1>2 DEF HeadInv, Quiet
  <2> QED
    BY <1>1, <2>1, <2>2, <2>3, <2>4, <2>5
<1>3. CASE mode = "reindex"
  <2>1. j = "bulk" /\ Target(j) = job[j].block
    BY <1>1, <1>3 DEF Target, Placed, Flushed
  <2>2. job[j].block \in Blocks /\ batch[j].ops = NoMap /\ Scanned(job[j].block)
    BY <1>3, <2>1 DEF ScanInv, TypeOK, JobRecords, Placed, Flushed
  <2>3. Chained(log, index.pos, job[j].block)
    <3>1. Chained(log, Places(j), job[j].block)
      BY <2>1, <2>2 DEF Scanned, Chained
    <3> QED
      BY <2>2, <3>1, OverNoMap DEF Places
  <2>4. job[j].pc \in {"flushbal", "flushheight"} => batch[j].height = Height(job[j].block)
    BY <1>3, <2>1 DEF ScanInv, Unflushed
  <2>5. job[j].pc \in Flushed => index.height = Height(job[j].block)
    BY <1>3, <2>1 DEF ScanInv
  <2> QED
    BY <1>1, <2>1, <2>2, <2>3, <2>4, <2>5
<1> QED
  BY <1>1, <1>2, <1>3 DEF TypeOK

\* Writing the height commits the chain that the job has worked on.
LEMMA HeightCommits ==
  ASSUME IndexInv, NEW j \in Jobs, FlushHeight(j)
  PROVE  Committed' = Target(j)
<1>1. index'.pos = index.pos /\ index'.height = batch[j].height /\ log' = log
  BY DEF FlushHeight, IndexInv, TypeOK
<1>2. /\ Target(j) \in Blocks /\ Chained(log, index.pos, Target(j))
      /\ batch[j].height = Height(Target(j))
  BY PlacedChain DEF FlushHeight, Placed
<1> QED
  BY <1>1, <1>2, CommittedBecomes

\* Only FlushHeight changes the committed chain, to the one its job has worked on, and the
\* begin of a re-index.
LEMMA CommittedStep ==
  ASSUME Calm, IndexInv, Next
  PROVE  \/ Committed' = Committed
         \/ StartReindex /\ Committed' = NoBlock
         \/ \E j \in Jobs : FlushHeight(j) /\ Committed' = Target(j)
<1>1. TypeOK /\ IndexIsChain /\ ScanInv /\ HeadInv /\ OneJob
  BY DEF IndexInv
<1>2. ASSUME log' = log, index'.pos = index.pos, index'.height = index.height
      PROVE  Committed' = Committed
  BY <1>1, <1>2, CommittedKept
<1>3. CASE Start \/ Stop \/ Crash
  BY <1>2, <1>3 DEF Start, Stop, Crash
<1>4. CASE StartReindex
  BY <1>4 DEF StartReindex, EmptyIndex, Committed, NoHeight
<1>5. CASE Add
  <2>1. ASSUME NEW p \in Payloads, CreateGenesis(p) \/ BeginAdd(p) \/ RejectBlock(p)
        PROVE  Committed' = Committed
    <3>1. log' = log /\ index'.pos = index.pos /\ index'.height = index.height
      BY <1>1, <2>1 DEF CreateGenesis, BeginAdd, RejectBlock, TypeOK
    <3> QED
      BY <1>2, <3>1
  <2> QED
    BY <1>5, <2>1, PayloadAssumption DEF Add
<1>6. CASE Sync
  BY <1>2, <1>6 DEF Sync, BeginSync, FetchBlock, EndFetch
<1>7. CASE Scan
  <2>1. CASE ScanRecord \/ ScanFails \/ ScanEnd \/ Place
    BY <1>2, <2>1 DEF ScanRecord, ScanFails, ScanEnd, Place
  <2>2. CASE ScanTrim
    <3>1. index.height = NoHeight /\ index' = index
      <4>1. mode = "reindex"
        BY <1>1, <2>2 DEF ScanTrim, OneJob, IndexInv, JobInv, TypeOK, Idle, Jobs
      <4> QED
        BY <1>1, <2>2, <4>1 DEF ScanTrim, ScanInv, Flushed
    <3> QED
      BY <3>1 DEF Committed
  <2> QED
    BY <1>7, <2>1, <2>2 DEF Scan
<1>8. CASE EndAdd \/ EndBulk \/ EndSyncHeadless
  BY <1>2, <1>8 DEF EndAdd, EndBulk, EndSyncHeadless
<1>9. ASSUME NEW j \in Jobs, IndexBlock(j) \/ Flush(j)
      PROVE  Committed' = Committed \/ (FlushHeight(j) /\ Committed' = Target(j))
  <2>1. CASE IndexTxs(j) \/ FlushBal(j) \/ ReadSupply(j) \/ WriteSupply(j)
    <3>1. log' = log /\ index'.pos = index.pos /\ index'.height = index.height
      BY <1>1, <2>1 DEF IndexTxs, FlushBal, ReadSupply, WriteSupply, TypeOK
    <3> QED
      BY <1>2, <3>1
  <2>2. CASE WritePart(j) \/ WriteCrc(j)
    <3>1. job[j].block \in Blocks /\ index' = index
      BY <1>1, <2>2 DEF WritePart, WriteCrc, TypeOK, JobRecords
    <3>2. \E x \in Pieces : log' = Append(log, x)
      BY <2>2, <3>1 DEF WritePart, WriteCrc, Piece, Pieces, Parts
    <3> QED
      BY <1>1, <3>1, <3>2, CommittedKept
  <2>3. CASE MayFlush(j) \/ FlushPos(j)
    <3>1. log' = log /\ (UNCHANGED index \/ WritePositions(j))
      BY <2>3 DEF MayFlush, FlushPos
    <3>2. \A h \in DOMAIN batch[j].ops : h > index.height
      <4>1. CASE mode = "up"
        BY <1>1, <4>1 DEF HeadInv
      <4>2. CASE mode # "up"
        <5>1. mode = "reindex" /\ j = "bulk"
          BY <1>1, <2>3, <4>2 DEF OneJob, Idle, Jobs, Quiet, TypeOK, MayFlush, FlushPos
        <5>2. index.height = NoHeight
          BY <1>1, <2>3, <5>1 DEF ScanInv, Flushed, MayFlush, FlushPos
        <5> QED
          BY <1>1, <5>2 DEF TypeOK, IsMap, NoHeight
      <4> QED
        BY <4>1, <4>2
    <3>3. CASE WritePositions(j)
      <4>1. index'.pos = Over(batch[j].ops, index.pos) /\ index'.height = index.height
        BY <1>1, <3>3 DEF WritePositions, TypeOK
      <4>2. \A h \in 0..index.height :
              h \in DOMAIN index.pos => h \in DOMAIN index'.pos /\ index'.pos[h] = index.pos[h]
        <5>1. index.height \in Int
          BY <1>1 DEF TypeOK, NoHeight
        <5> QED
          BY <3>2, <4>1, <5>1 DEF Over
      <4> QED
        BY <1>1, <3>1, <4>1, <4>2, CommittedKept
    <3> QED
      BY <1>2, <3>1, <3>3
  <2>4. CASE FlushHeight(j)
    BY <2>4, HeightCommits
  <2>5. ~WriteFails(j)
    BY DEF WriteFails, Calm
  <2> QED
    BY <1>9, <2>1, <2>2, <2>3, <2>4, <2>5 DEF IndexBlock, Flush
<1> QED
  BY <1>3, <1>4, <1>5, <1>6, <1>7, <1>8, <1>9 DEF Next

\* In a running node the committed chain is the beginning of the one in memory ...
LEMMA CommittedBelowHead ==
  ASSUME IndexInv, mode = "up"
  PROVE  /\ Committed \in Blocks /\ head \in Blocks
         /\ Len(Committed) <= Len(head)
         /\ \A i \in 1..Len(Committed) : Committed[i] = head[i]
<1>1. TypeOK /\ IndexIsChain /\ OneJob /\ HeadInv
  BY DEF IndexInv
<1>2. /\ Committed \in Blocks /\ Height(Committed) = index.height
      /\ Chained(log, index.pos, Committed) /\ head \in Blocks
  BY <1>1, CommittedFacts DEF TypeOK
<1>3. Len(Committed) \in Nat /\ Len(head) \in Nat /\ Len(Committed) <= Len(head)
  BY <1>1, <1>2 DEF HeadInv, Height, Blocks
<1>4. CASE Len(Committed) = 0
  BY <1>2, <1>3, <1>4
<1>5. CASE Len(Committed) > 0
  <2>1. PICK j \in Jobs : \A i \in Jobs \ {j} : Quiet(i)
    BY <1>1 DEF OneJob, Jobs
  <2>2. Chained(log, Places(j), head) /\ \A h \in DOMAIN batch[j].ops : h > index.height
    BY <1>1, <2>1 DEF HeadInv
  <2>3. /\ index.height \in Nat /\ index.height + 1 = Len(Committed)
        /\ index.height \in 0..Height(head) /\ ~(index.height > index.height)
    BY <1>2, <1>3, <1>5 DEF Height
  <2>4. index.height \in DOMAIN index.pos /\ Stored(log, index.pos[index.height], Committed)
    BY <1>2, <1>5, TopOfChain
  <2>5. Stored(log, Places(j)[index.height], SubSeq(head, 1, index.height + 1))
    BY <2>2, <2>3 DEF Chained
  <2>6. Places(j)[index.height] = index.pos[index.height]
    BY <2>2, <2>3, <2>4 DEF Places, Over
  <2>7. Committed = SubSeq(head, 1, Len(Committed))
    BY <2>3, <2>4, <2>5, <2>6 DEF Stored
  <2>8. Len(Committed) \in 0..Len(head) /\ head \in Seq(Payloads)
    BY <1>2, <1>3 DEF Blocks
  <2>9. \A i \in 1..Len(Committed) : SubSeq(head, 1, Len(Committed))[i] = head[i]
    BY <2>8, PrefixOf
  <2> QED
    BY <1>2, <1>3, <2>7, <2>9
<1> QED
  BY <1>3, <1>4, <1>5

\* ... and all of it when no job is at work or its flush has written the height.
LEMMA CommittedIsHead ==
  ASSUME IndexInv, mode = "up", \A j \in Jobs : job[j].pc \in Flushed \cup {"idle"}
  PROVE  Committed = head
<1>1. TypeOK /\ OneJob /\ HeadInv
  BY DEF IndexInv
<1>2. index.height = Height(head) /\ head \in Blocks
  BY <1>1 DEF HeadInv, TypeOK
<1>3. PICK j \in Jobs : \A i \in Jobs \ {j} : Quiet(i)
  BY <1>1 DEF OneJob, Jobs
<1>4. Chained(log, Places(j), head) /\ batch[j].ops = NoMap
  BY <1>1, <1>3 DEF HeadInv, OneJob, Quiet, Placed
<1>5. Chained(log, index.pos, head)
  BY <1>2, <1>4, OverNoMap DEF Places
<1> QED
  BY <1>2, <1>5, CommittedIs

-----------------------------------------------------------------------------
(* Blockchain implements Ledger                                            *)

\* What a prefix is, element by element.
LEMMA PrefixMeans ==
  ASSUME NEW S, NEW s \in Seq(S), NEW t \in Seq(S)
  PROVE  IsPrefix(s, t) <=> Len(s) <= Len(t) /\ \A i \in 1..Len(s) : s[i] = t[i]
<1>1. Len(s) \in Nat /\ Len(t) \in Nat
  OBVIOUS
<1>2. CASE Len(s) <= Len(t)
  <2>1. Len(s) \in 0..Len(t) /\ Len(s) \in 0..Len(s)
    BY <1>1, <1>2
  <2>2. /\ SubSeq(t, 1, Len(s)) \in Seq(S) /\ Len(SubSeq(t, 1, Len(s))) = Len(s)
        /\ \A i \in 1..Len(s) : SubSeq(t, 1, Len(s))[i] = t[i]
    BY <2>1, PrefixOf
  <2>3. SubSeq(s, 1, Len(s)) = s
    <3>1. /\ SubSeq(s, 1, Len(s)) \in Seq(S) /\ Len(SubSeq(s, 1, Len(s))) = Len(s)
          /\ \A i \in 1..Len(s) : SubSeq(s, 1, Len(s))[i] = s[i]
      BY <2>1, PrefixOf
    <3> QED
      BY <3>1, SeqEqual
  <2>4. s = SubSeq(t, 1, Len(s)) <=> \A i \in 1..Len(s) : s[i] = t[i]
    BY <2>2, SeqEqual
  <2> QED
    BY <1>2, <2>3, <2>4 DEF IsPrefix
<1> QED
  BY <1>1, <1>2 DEF IsPrefix

\* What was announced is committed, and the block that addBlock() writes is not announced.
AnnouncedInv ==
  /\ mode # "reindex"
  /\ IsPrefix(announced, Committed)
  /\ job["add"].pc \in Unflushed \cup Flushed =>
       job["add"].block = head /\ Len(announced) < Len(head)

\* While addBlock() flushes, nothing else moves the head.
LEMMA AddedBlock ==
  ASSUME Calm, IndexInv, IndexInv', AnnouncedInv, Next, announced' = announced,
         job'["add"].pc \in Unflushed \cup Flushed
  PROVE  job'["add"].block = head' /\ Len(announced) < Len(head')
<1>1. /\ TypeOK /\ IndexIsChain /\ OneJob /\ JobInv
      /\ job \in [Jobs -> JobRecords] /\ "add" \in Jobs /\ "bulk" \in Jobs
  BY DEF IndexInv, TypeOK, Jobs
<1>2. Idle.pc \notin Unflushed \cup Flushed
  BY DEF Idle, Unflushed, Flushed
<1>3. ASSUME job'["add"] = job["add"], head' = head
      PROVE  job'["add"].block = head' /\ Len(announced) < Len(head')
  BY <1>3 DEF AnnouncedInv
<1>4. ASSUME Forget
      PROVE  FALSE
  BY <1>2, <1>4 DEF Forget, Jobs
<1>5. CASE Start \/ StartReindex
  <2>1. job["add"].pc = "idle" /\ job'["add"] = job["add"]
    BY <1>1, <1>5 DEF Start, StartReindex, OneJob, Quiet
  <2> QED
    BY <2>1 DEF Unflushed, Flushed
<1>6. CASE Stop \/ Crash \/ EndSyncHeadless \/ ScanFails
  BY <1>4, <1>6 DEF Stop, Crash, EndSyncHeadless, ScanFails
<1>7. CASE Add
  <2>1. head' = head
    BY <1>7 DEF Add, CreateGenesis, BeginAdd, RejectBlock
  <2>2. job'["add"] = job["add"] \/ job'["add"].pc = "index"
    <3>1. PICK p \in Payloads : CreateGenesis(p) \/ BeginAdd(p) \/ RejectBlock(p)
      BY <1>7, PayloadAssumption DEF Add
    <3>2. CASE RejectBlock(p)
      BY <3>2 DEF RejectBlock
    <3>3. CASE CreateGenesis(p)
      BY <1>1, <3>3 DEF CreateGenesis, JobRecords
    <3>4. CASE BeginAdd(p)
      BY <1>1, <3>4 DEF BeginAdd, JobRecords
    <3> QED
      BY <3>1, <3>2, <3>3, <3>4
  <2> QED
    BY <1>3, <2>1, <2>2 DEF Unflushed, Flushed
<1>8. CASE Sync
  BY <1>1, <1>3, <1>8 DEF Sync, BeginSync, FetchBlock, EndFetch
<1>9. CASE ScanRecord \/ ScanTrim \/ ScanEnd \/ Place
  BY <1>1, <1>3, <1>9 DEF ScanRecord, ScanTrim, ScanEnd, Place, Goto
<1>10. CASE EndAdd
  BY <1>1, <1>2, <1>10 DEF EndAdd
<1>11. CASE EndBulk
  BY <1>1, <1>11 DEF EndBulk, OneJob, Quiet, Unflushed, Flushed, Jobs
<1>12. ASSUME NEW j \in Jobs, IndexBlock(j) \/ Flush(j)
       PROVE  job'["add"].block = head' /\ Len(announced) < Len(head')
  <2>1. CASE WriteCrc(j)
    <3>1. head' = job[j].block /\ job[j].pc = "crc" /\ job'[j].block = job[j].block
      BY <1>1, <2>1, GotoFacts DEF WriteCrc, Phases
    <3>2. j = "add"
      BY <1>1, <2>1, <3>1, GotoFacts
      DEF OneJob, Quiet, Jobs, WriteCrc, Phases, Unflushed, Flushed
    <3>3. mode = "up"
      BY <1>1, <3>1, <3>2 DEF OneJob, Quiet
    <3>4. Len(job["add"].block) = Len(head) + 1 /\ head \in Blocks
      BY <1>1, <3>1, <3>2, <3>3 DEF JobInv, Writing, TypeOK
    <3>5. /\ IsPrefix(announced, Committed) /\ announced \in Seq(Payloads)
          /\ Committed \in Seq(Payloads)
      BY <1>1, CommittedFacts DEF AnnouncedInv, TypeOK, Blocks
    <3>6. Len(announced) <= Len(Committed) /\ Len(Committed) <= Len(head)
      BY <3>3, <3>5, PrefixMeans, CommittedBelowHead
    <3> QED
      BY <3>1, <3>2, <3>4, <3>5, <3>6 DEF Blocks
  <2>2. CASE ~WriteCrc(j)
    <3>1. head' = head /\ ~WriteFails(j)
      BY <1>12, <2>2
      DEF IndexBlock, Flush, IndexTxs, WritePart, MayFlush, FlushPos, FlushBal, FlushHeight,
          ReadSupply, WriteSupply, WriteFails, Calm
    <3>2. CASE j = "bulk"
      <4>1. job'["add"] = job["add"]
        BY <1>1, <1>12, <2>2, <3>1, <3>2
        DEF IndexBlock, Flush, IndexTxs, WritePart, MayFlush, FlushPos, FlushBal,
            FlushHeight, ReadSupply, WriteSupply, Goto
      <4> QED
        BY <1>3, <3>1, <4>1
    <3>3. CASE j = "add"
      <4>1. job["add"].pc \in Unflushed \cup Flushed /\ job'["add"].block = job["add"].block
        <5>1. CASE Flush(j)
          BY <1>1, <3>3, <5>1
          DEF Flush, FlushPos, FlushBal, FlushHeight, ReadSupply, WriteSupply, Goto,
              Unflushed, Flushed, JobRecords
        <5>2. CASE MayFlush(j)
          BY <1>1, <3>3, <5>2 DEF MayFlush, Goto, Unflushed, JobRecords
        <5>3. CASE IndexTxs(j)
          <6>1. job'["add"].pc \in {"place", "len"}
            BY <1>1, <3>3, <5>3 DEF IndexTxs, JobRecords
          <6> QED
            BY <6>1 DEF Unflushed, Flushed
        <5>4. CASE WritePart(j)
          <6>1. job'["add"].pc \in {"body", "crc"}
            BY <1>1, <3>3, <5>4 DEF WritePart, Goto, JobRecords
          <6> QED
            BY <6>1 DEF Unflushed, Flushed
        <5> QED
          BY <1>12, <2>2, <3>1, <5>1, <5>2, <5>3, <5>4 DEF IndexBlock
      <4> QED
        BY <3>1, <4>1 DEF AnnouncedInv
    <3> QED
      BY <3>2, <3>3 DEF Jobs
  <2> QED
    BY <2>1, <2>2
<1> QED
  BY <1>5, <1>6, <1>7, <1>8, <1>9, <1>10, <1>11, <1>12 DEF Next, Scan

\* A step of a node that is not re-indexed is a step of Ledger, and keeps AnnouncedInv.
LEMMA LedgerStep ==
  ASSUME Calm, "reindex" \notin Env, IndexInv, IndexInv', AnnouncedInv, [Next]_vars
  PROVE  AnnouncedInv' /\ [TheLedger!Next]_<< Committed, announced >>
<1>1. CASE UNCHANGED vars
  BY <1>1 DEF vars, AnnouncedInv, Committed, HeadValid
<1>2. CASE Next
  <2>1. mode' # "reindex"
    BY <1>2
    DEF AnnouncedInv, Next, Start, StartReindex, Stop, Crash, Forget, Add, CreateGenesis,
        BeginAdd, RejectBlock, Sync, BeginSync, FetchBlock, EndFetch, Scan, ScanRecord,
        ScanTrim, ScanFails, ScanEnd, Place, EndAdd, EndBulk, EndSyncHeadless, IndexBlock,
        Flush, IndexTxs, WritePart, WriteCrc, WriteFails, MayFlush, FlushPos, FlushBal,
        FlushHeight, ReadSupply, WriteSupply
  <2>2. /\ Committed \in Seq(Payloads) /\ announced \in Seq(Payloads)
        /\ Committed' \in Seq(Payloads) /\ IsPrefix(announced, Committed)
    <3>1. Committed \in Blocks /\ announced \in Blocks
      BY CommittedFacts DEF IndexInv, TypeOK
    <3>2. Committed' \in Blocks
      <4>1. \/ Committed' = Committed
             \/ Committed' = NoBlock
             \/ \E j \in Jobs : FlushHeight(j) /\ Committed' = Target(j)
        BY <1>2, CommittedStep
      <4>2. ASSUME NEW j \in Jobs, FlushHeight(j)
            PROVE  Target(j) \in Blocks
        BY <4>2, PlacedChain DEF FlushHeight, Placed
      <4> QED
        BY <3>1, <4>1, <4>2, IdleType
    <3> QED
      BY <3>1, <3>2 DEF Blocks, AnnouncedInv
  <2>3. Len(announced) <= Len(Committed)
          /\ \A i \in 1..Len(announced) : announced[i] = Committed[i]
    BY <2>2, PrefixMeans
  <2>4. CASE EndAdd
    <3>1. /\ job["add"].pc = "done" /\ announced' = job["add"].block
          /\ job'["add"] = Idle /\ index' = index /\ log' = log /\ "add" \in Jobs
      BY <2>4 DEF EndAdd, IndexInv, TypeOK, Jobs
    <3>2. mode = "up" /\ \A j \in Jobs : job[j].pc \in Flushed \cup {"idle"}
      BY <3>1 DEF IndexInv, OneJob, Quiet, Jobs, Flushed
    <3>3. Committed = head /\ Committed' = Committed
      BY <3>1, <3>2, CommittedIsHead DEF Committed, HeadValid
    <3>4. announced' = Committed /\ Len(announced) < Len(Committed)
      BY <3>1, <3>3 DEF AnnouncedInv, Flushed
    <3>5. IsPrefix(announced', Committed')
      BY <2>2, <3>3, <3>4, PrefixMeans
    <3>6. Idle.pc \notin Unflushed \cup Flushed
      BY DEF Idle, Unflushed, Flushed
    <3> QED
      BY <2>1, <3>1, <3>3, <3>4, <3>5, <3>6
      DEF AnnouncedInv, TheLedger!Next, TheLedger!Announce
  <2>5. CASE ~EndAdd
    <3>1. announced' = announced
      BY <1>2, <2>5
      DEF Next, Start, StartReindex, Stop, Crash, Forget, Add, CreateGenesis, BeginAdd,
          RejectBlock, Sync, BeginSync, FetchBlock, EndFetch, Scan, ScanRecord, ScanTrim,
          ScanFails, ScanEnd, Place, EndBulk, EndSyncHeadless, IndexBlock, Flush, IndexTxs,
          WritePart, WriteCrc, WriteFails, MayFlush, FlushPos, FlushBal, FlushHeight,
          ReadSupply, WriteSupply
    <3>2. /\ Len(Committed) <= Len(Committed')
          /\ \A i \in 1..Len(Committed) : Committed[i] = Committed'[i]
      <4>1. CASE Committed' = Committed
        BY <2>2, <4>1
      <4>2. CASE \E j \in Jobs : FlushHeight(j) /\ Committed' = Target(j)
        <5>1. PICK j \in Jobs : FlushHeight(j) /\ Committed' = Target(j)
          BY <4>2
        <5>2. mode = "up"
          BY <5>1, PlacedChain DEF AnnouncedInv, FlushHeight, Placed, IndexInv, TypeOK
        <5>3. Target(j) = head
          BY <5>1, <5>2 DEF Target, FlushHeight, Writing
        <5> QED
          BY <5>1, <5>2, <5>3, CommittedBelowHead
      <4>3. ~StartReindex
        BY DEF StartReindex
      <4> QED
        BY <1>2, <4>1, <4>2, <4>3, CommittedStep
    <3>3. IsPrefix(announced', Committed')
      <4>1. Len(announced) <= Len(Committed')
              /\ \A i \in 1..Len(announced) : announced[i] = Committed'[i]
        BY <2>2, <2>3, <3>2
      <4> QED
        BY <2>2, <3>1, <4>1, PrefixMeans
    <3>4. AnnouncedInv'
      BY <1>2, <2>1, <3>1, <3>3, AddedBlock DEF AnnouncedInv
    <3>5. IsPrefix(Committed, Committed')
      BY <2>2, <3>2, PrefixMeans
    <3>6. CASE Len(Committed') = Len(Committed)
      <4>1. Committed' = Committed
        BY <2>2, <3>2, <3>6, SeqEqual
      <4> QED
        BY <3>1, <3>4, <4>1
    <3>7. CASE Len(Committed') > Len(Committed)
      BY <3>1, <3>4, <3>5, <3>7
      DEF TheLedger!Next, TheLedger!Extend, TheLedger!IsPrefix, IsPrefix
    <3> QED
      BY <2>2, <3>2, <3>6, <3>7
  <2> QED
    BY <2>4, <2>5
<1> QED
  BY <1>1, <1>2

\* An empty node has announced nothing.
LEMMA InitAnnounced ==
  ASSUME Init
  PROVE  AnnouncedInv /\ TheLedger!Init
<1>1. Committed = NoBlock /\ announced = NoBlock /\ mode = "down" /\ job["add"].pc = "idle"
  BY DEF Init, Committed, EmptyIndex, Idle, Jobs
<1>2. IsPrefix(NoBlock, NoBlock)
  <2>1. NoBlock \in Seq(Payloads) /\ Len(NoBlock) = 0
    BY IdleType DEF Blocks
  <2>2. Len(NoBlock) <= Len(NoBlock) /\ \A i \in 1..Len(NoBlock) : NoBlock[i] = NoBlock[i]
    BY <2>1
  <2> QED
    BY <2>1, <2>2, PrefixMeans
<1> QED
  BY <1>1, <1>2 DEF AnnouncedInv, TheLedger!Init, NoBlock, Unflushed, Flushed

\* Whatever crashes and synchronizes, a node that is not re-indexed implements Ledger: its
\* committed chain is only extended, and what `block' announced is never taken back.
THEOREM BlockchainImplementsLedger ==
  Calm /\ "reindex" \notin Env => (Spec => ImplementsLedger)
<1> SUFFICES ASSUME Calm, "reindex" \notin Env
             PROVE  Spec => ImplementsLedger
  OBVIOUS
<1>1. Init => AnnouncedInv /\ TheLedger!Init
  BY InitAnnounced
<1>2. IndexInv /\ IndexInv' /\ AnnouncedInv /\ [Next]_vars =>
        AnnouncedInv' /\ [TheLedger!Next]_<< Committed, announced >>
  BY LedgerStep
<1>3. Spec => []IndexInv
  BY IndexInvariant
<1> QED
  BY <1>1, <1>2, <1>3, PTL DEF Spec, ImplementsLedger, TheLedger!Spec

\* A running node still has every block that it announced, also after crashes.
THEOREM AnnouncedBlocksSurvive ==
  Calm /\ "reindex" \notin Env => (Spec => []AnnouncedSurvives)
<1> SUFFICES ASSUME Calm, "reindex" \notin Env
             PROVE  Spec => []AnnouncedSurvives
  OBVIOUS
<1>1. Init => AnnouncedInv
  BY InitAnnounced
<1>2. IndexInv /\ IndexInv' /\ AnnouncedInv /\ [Next]_vars => AnnouncedInv'
  BY LedgerStep
<1>3. Spec => []IndexInv
  BY IndexInvariant
<1>4. IndexInv /\ AnnouncedInv => AnnouncedSurvives
  <2> SUFFICES ASSUME IndexInv, AnnouncedInv, mode = "up"
               PROVE  IsPrefix(announced, head)
    BY DEF AnnouncedSurvives
  <2>1. /\ Committed \in Seq(Payloads) /\ head \in Seq(Payloads) /\ announced \in Seq(Payloads)
        /\ Len(Committed) <= Len(head) /\ \A i \in 1..Len(Committed) : Committed[i] = head[i]
    BY CommittedBelowHead DEF IndexInv, TypeOK, Blocks
  <2>2. Len(announced) <= Len(Committed)
          /\ \A i \in 1..Len(announced) : announced[i] = Committed[i]
    BY <2>1, PrefixMeans DEF AnnouncedInv
  <2>3. Len(announced) <= Len(head) /\ \A i \in 1..Len(announced) : announced[i] = head[i]
    BY <2>1, <2>2
  <2> QED
    BY <2>1, <2>3, PrefixMeans
<1> QED
  BY <1>1, <1>2, <1>3, <1>4, PTL DEF Spec

-----------------------------------------------------------------------------
(* Counting the payloads of a chain                                        *)

\* How often a chain pays out a payload is a number ...
LEMMA CountType ==
  ASSUME NEW b \in Blocks, NEW p
  PROVE  /\ IsFiniteSet({i \in 1..Len(b) : b[i] = p})
         /\ Count(b, p) \in Nat
<1>1. Len(b) \in Nat /\ 1 \in Int
  BY DEF Blocks
<1>2. IsFiniteSet(1..Len(b))
  BY <1>1, FS_Interval
<1>3. {i \in 1..Len(b) : b[i] = p} \subseteq 1..Len(b)
  OBVIOUS
<1>4. IsFiniteSet({i \in 1..Len(b) : b[i] = p})
  BY <1>2, <1>3, FS_Subset
<1> QED
  BY <1>4, FS_CardinalityType DEF Count

\* ... 0 for the empty chain ...
LEMMA CountNothing ==
  ASSUME NEW p
  PROVE  Count(NoBlock, p) = 0
<1>1. {i \in 1..Len(NoBlock) : NoBlock[i] = p} = {}
  BY IdleType
<1> QED
  BY <1>1, FS_EmptySet DEF Count

\* ... and one more for the payload of a block that is put on top.
LEMMA CountGrows ==
  ASSUME NEW b \in Blocks, NEW q \in Payloads, NEW p \in Payloads
  PROVE  Count(Append(b, q), p) = Count(b, p) + IF p = q THEN 1 ELSE 0
<1> DEFINE S == {i \in 1..Len(b) : b[i] = p}
           T == {i \in 1..Len(Append(b, q)) : Append(b, q)[i] = p}
<1>1. /\ Len(b) \in Nat /\ Len(Append(b, q)) = Len(b) + 1
      /\ \A i \in 1..Len(b) : Append(b, q)[i] = b[i]
      /\ Append(b, q)[Len(b) + 1] = q
  BY DEF Blocks
<1>2. IsFiniteSet(S) /\ Count(b, p) = Cardinality(S) /\ Cardinality(S) \in Nat
  BY CountType DEF Count
<1>3. Count(Append(b, q), p) = Cardinality(T)
  BY DEF Count
<1>4. CASE p = q
  <2>1. T = S \cup {Len(b) + 1} /\ Len(b) + 1 \notin S
    BY <1>1, <1>4
  <2>2. Cardinality(T) = Cardinality(S) + 1
    BY <1>2, <2>1, FS_AddElement
  <2> HIDE DEF S, T
  <2> QED
    BY <1>2, <1>3, <1>4, <2>2
<1>5. CASE p # q
  <2>1. T = S
    BY <1>1, <1>5
  <2> HIDE DEF S, T
  <2> QED
    BY <1>2, <1>3, <1>5, <2>1
<1> QED
  BY <1>4, <1>5

\* The beginning of a chain pays nothing more often than the chain.
LEMMA CountBelow ==
  ASSUME NEW b \in Blocks, NEW c \in Blocks, Len(b) <= Len(c),
         \A i \in 1..Len(b) : b[i] = c[i], NEW p
  PROVE  Count(b, p) <= Count(c, p)
<1>1. Len(b) \in Nat /\ Len(c) \in Nat
  BY DEF Blocks
<1>2. {i \in 1..Len(b) : b[i] = p} \subseteq {i \in 1..Len(c) : c[i] = p}
  BY <1>1
<1>3. IsFiniteSet({i \in 1..Len(c) : c[i] = p})
  BY CountType
<1> QED
  BY <1>2, <1>3, FS_Subset DEF Count

\* What some blocks of a chain mint less what they burn is a number ...
LEMMA MintedType ==
  ASSUME NEW b \in Blocks, NEW S \in SUBSET (1..Len(b))
  PROVE  /\ IsFiniteSet(S) /\ Cardinality(S) \in Nat
         /\ IsFiniteSet({n \in S : b[n] \in Bonding \ Founding})
         /\ Cardinality({n \in S : b[n] \in Bonding \ Founding}) \in Nat
         /\ MintedAt(b, S) \in Int
<1>1. Len(b) \in Nat /\ 1 \in Int
  BY DEF Blocks
<1>2. IsFiniteSet(1..Len(b))
  BY <1>1, FS_Interval
<1>3. IsFiniteSet(S)
  BY <1>2, FS_Subset
<1>4. IsFiniteSet({n \in S : b[n] \in Bonding \ Founding})
  BY <1>3, FS_Subset
<1>5. /\ Cardinality(S) \in Nat
      /\ Cardinality({n \in S : b[n] \in Bonding \ Founding}) \in Nat
  BY <1>3, <1>4, FS_CardinalityType
<1>6. MintedAt(b, S) \in Int
  BY <1>5, FeeAssumption DEF MintedAt
<1> QED
  BY <1>3, <1>4, <1>5, <1>6

\* ... the empty chain has no supply ...
LEMMA MintedNothing ==
  SupplyOf(NoBlock) = 0 /\ CountsSome(0, NoBlock)
<1>1. 1..Len(NoBlock) = {}
  BY IdleType
<1>2. {n \in {} : NoBlock[n] \in Bonding \ Founding} = {}
  OBVIOUS
<1>3. MintedAt(NoBlock, {}) = 0
  BY <1>2, FS_EmptySet, FeeAssumption DEF MintedAt
<1> QED
  BY <1>1, <1>3 DEF SupplyOf, CountsSome

\* ... a block that is put on top mints and burns what is its own ...
LEMMA MintedGrows ==
  ASSUME NEW b \in Blocks, NEW q \in Payloads, NEW S \in SUBSET (1..Len(b))
  PROVE  MintedAt(Append(b, q), S \cup {Len(b) + 1}) = MintedAt(b, S) + Minted(q)
<1> DEFINE c == Append(b, q)
           T == S \cup {Len(b) + 1}
           burn == {n \in S : b[n] \in Bonding \ Founding}
           more == {n \in T : c[n] \in Bonding \ Founding}
<1>1. /\ Len(b) \in Nat /\ c[Len(b) + 1] = q
      /\ \A n \in S : n # Len(b) + 1 /\ c[n] = b[n]
  BY DEF Blocks
<1>2. /\ IsFiniteSet(S) /\ Cardinality(S) \in Nat
      /\ IsFiniteSet(burn) /\ Cardinality(burn) \in Nat /\ BondFee \in Nat
  BY MintedType, FeeAssumption
<1>3. Cardinality(T) = Cardinality(S) + 1
  BY <1>1, <1>2, FS_AddElement
<1>4. /\ MintedAt(b, S) = Cardinality(S) - BondFee * Cardinality(burn)
      /\ MintedAt(c, T) = Cardinality(T) - BondFee * Cardinality(more)
  BY DEF MintedAt
<1>5. CASE q \in Bonding \ Founding
  <2>1. more = burn \cup {Len(b) + 1} /\ Len(b) + 1 \notin burn
    BY <1>1, <1>5
  <2>2. Cardinality(more) = Cardinality(burn) + 1
    BY <1>2, <2>1, FS_AddElement
  <2>3. Minted(q) = 1 - BondFee
    BY <1>5 DEF Minted
  <2> HIDE DEF burn, more, T, c
  <2>4. BondFee * Cardinality(more) = BondFee * Cardinality(burn) + BondFee
    BY <1>2, <2>2
  <2>5. BondFee * Cardinality(burn) \in Int
    BY <1>2
  <2> QED
    BY <1>2, <1>3, <1>4, <2>3, <2>4, <2>5 DEF c, T
<1>6. CASE q \notin Bonding \ Founding
  <2>1. more = burn
    BY <1>1, <1>6
  <2>2. Minted(q) = 1
    BY <1>6 DEF Minted
  <2> HIDE DEF burn, more, T, c
  <2>3. BondFee * Cardinality(burn) \in Int
    BY <1>2
  <2> QED
    BY <1>2, <1>3, <1>4, <2>1, <2>2, <2>3 DEF c, T
<1> QED
  BY <1>5, <1>6

\* ... so that a supply grows with the chain that it counts ...
LEMMA SupplyGrows ==
  ASSUME NEW b \in Blocks, NEW q \in Payloads
  PROVE  /\ SupplyOf(Append(b, q)) = SupplyOf(b) + Minted(q)
         /\ \A supply : CountsSome(supply, b) =>
              CountsSome(supply + Minted(q), Append(b, q))
<1>1. /\ Len(b) \in Nat /\ Len(Append(b, q)) = Len(b) + 1
      /\ 1..Len(Append(b, q)) = (1..Len(b)) \cup {Len(b) + 1}
  BY DEF Blocks
<1>2. SupplyOf(Append(b, q)) = SupplyOf(b) + Minted(q)
  BY <1>1, MintedGrows DEF SupplyOf
<1>3. ASSUME NEW supply, CountsSome(supply, b)
      PROVE  CountsSome(supply + Minted(q), Append(b, q))
  <2>1. PICK S \in SUBSET (1..Len(b)) : supply = MintedAt(b, S)
    BY <1>3 DEF CountsSome
  <2>2. S \cup {Len(b) + 1} \in SUBSET (1..Len(Append(b, q)))
    BY <1>1
  <2>3. MintedAt(Append(b, q), S \cup {Len(b) + 1}) = supply + Minted(q)
    BY <2>1, MintedGrows
  <2> QED
    BY <2>2, <2>3 DEF CountsSome
<1> QED
  BY <1>2, <1>3

\* ... and what counts blocks of the beginning of a chain counts blocks of the chain.
LEMMA CountsSomeAbove ==
  ASSUME NEW b \in Blocks, NEW c \in Blocks, Len(b) <= Len(c),
         \A i \in 1..Len(b) : b[i] = c[i],
         NEW supply, CountsSome(supply, b)
  PROVE  CountsSome(supply, c)
<1>1. Len(b) \in Nat /\ Len(c) \in Nat
  BY DEF Blocks
<1>2. PICK S \in SUBSET (1..Len(b)) : supply = MintedAt(b, S)
  BY DEF CountsSome
<1>3. S \in SUBSET (1..Len(c)) /\ \A n \in S : b[n] = c[n]
  BY <1>1
<1>4. {n \in S : b[n] \in Bonding \ Founding} = {n \in S : c[n] \in Bonding \ Founding}
  BY <1>3
<1>5. MintedAt(b, S) = MintedAt(c, S)
  BY <1>4 DEF MintedAt
<1> QED
  BY <1>2, <1>3, <1>5 DEF CountsSome

\* The payloads of a chain.
LEMMA PayloadsOf ==
  /\ ToSet(NoBlock) = {}
  /\ \A b \in Blocks, q \in Payloads : ToSet(Append(b, q)) = ToSet(b) \cup {q}
  /\ \A b, c \in Blocks :
       Len(b) <= Len(c) /\ (\A i \in 1..Len(b) : b[i] = c[i]) => ToSet(b) \subseteq ToSet(c)
<1>1. ToSet(NoBlock) = {}
  BY IdleType DEF ToSet, NoBlock
<1>2. ASSUME NEW b \in Blocks, NEW q \in Payloads
      PROVE  ToSet(Append(b, q)) = ToSet(b) \cup {q}
  <2>1. /\ Len(b) \in Nat /\ Len(Append(b, q)) = Len(b) + 1
        /\ DOMAIN b = 1..Len(b) /\ DOMAIN Append(b, q) = 1..(Len(b) + 1)
        /\ \A i \in 1..Len(b) : Append(b, q)[i] = b[i]
        /\ Append(b, q)[Len(b) + 1] = q
    BY DEF Blocks
  <2>2. ASSUME NEW x \in ToSet(Append(b, q))
        PROVE  x \in ToSet(b) \cup {q}
    <3>1. PICK i \in 1..(Len(b) + 1) : x = Append(b, q)[i]
      BY <2>1 DEF ToSet
    <3>2. i \in 1..Len(b) \/ i = Len(b) + 1
      BY <2>1
    <3> QED
      BY <2>1, <3>1, <3>2 DEF ToSet
  <2>3. q \in ToSet(Append(b, q))
    <3>1. Len(b) + 1 \in DOMAIN Append(b, q)
      BY <2>1
    <3> QED
      BY <2>1, <3>1 DEF ToSet
  <2>4. ASSUME NEW x \in ToSet(b)
        PROVE  x \in ToSet(Append(b, q))
    <3>1. PICK i \in 1..Len(b) : x = b[i]
      BY <2>1 DEF ToSet
    <3>2. i \in DOMAIN Append(b, q) /\ Append(b, q)[i] = x
      BY <2>1, <3>1
    <3> QED
      BY <3>2 DEF ToSet
  <2> QED
    BY <2>2, <2>3, <2>4
<1>3. ASSUME NEW b \in Blocks, NEW c \in Blocks,
             Len(b) <= Len(c), \A i \in 1..Len(b) : b[i] = c[i]
      PROVE  ToSet(b) \subseteq ToSet(c)
  <2>1. /\ Len(b) \in Nat /\ Len(c) \in Nat
        /\ DOMAIN b = 1..Len(b) /\ DOMAIN c = 1..Len(c)
    BY DEF Blocks
  <2>2. ASSUME NEW x \in ToSet(b)
        PROVE  x \in ToSet(c)
    <3>1. PICK i \in 1..Len(b) : x = b[i]
      BY <2>1 DEF ToSet
    <3>2. i \in DOMAIN c /\ c[i] = x
      BY <1>3, <2>1, <3>1
    <3> QED
      BY <3>2 DEF ToSet
  <2> QED
    BY <2>2
<1> QED
  BY <1>1, <1>2, <1>3

\* A block is its payload on top of its parent.
LEMMA BlockEnds ==
  ASSUME NEW b \in Blocks, Len(b) > 0
  PROVE  /\ Parent(b) \in Blocks /\ Payload(b) \in Payloads
         /\ b = Append(Parent(b), Payload(b))
<1>1. /\ Len(b) \in Nat \ {0} /\ b \in Seq(Payloads) /\ Parent(b) \in Seq(Payloads)
      /\ Len(Parent(b)) = Len(b) - 1 /\ Len(b) - 1 \in 0..Len(b)
  BY PrefixFacts DEF Blocks
<1>2. \A i \in 1..(Len(b) - 1) : Parent(b)[i] = b[i]
  BY <1>1, PrefixOf DEF Parent
<1>3. b[Len(b)] \in Payloads
  BY <1>1
<1>4. /\ Append(Parent(b), b[Len(b)]) \in Seq(Payloads)
      /\ Len(Append(Parent(b), b[Len(b)])) = Len(b)
      /\ \A i \in 1..Len(b) : Append(Parent(b), b[Len(b)])[i] = b[i]
  BY <1>1, <1>2, <1>3
<1>5. Append(Parent(b), b[Len(b)]) = b
  BY <1>1, <1>4, SeqEqual
<1> QED
  BY <1>1, <1>3, <1>5 DEF Payload, Blocks

-----------------------------------------------------------------------------
(* The index and a replay of the chain                                     *)

\* An empty index agrees with the empty chain.
LEMMA AgreeNothing ==
  ASSUME NEW bal, \A p \in Payloads : bal[p] = 0, NEW exact \in BOOLEAN
  PROVE  Agree(bal, 0, {}, NoBlock, exact)
<1>1. \A p \in Payloads : bal[p] >= Count(NoBlock, p) /\ bal[p] = Count(NoBlock, p)
  BY CountNothing
<1>2. /\ CountsSome(0, NoBlock) /\ SupplyOf(NoBlock) = 0
      /\ Bonding \cap ToSet(NoBlock) = {}
  BY MintedNothing, PayloadsOf
<1> QED
  BY <1>1, <1>2 DEF Agree

\* Indexing one more block keeps the agreement.
LEMMA AgreeOne ==
  ASSUME NEW b \in Blocks, NEW q \in Payloads, NEW exact \in BOOLEAN,
         NEW bal, NEW more, \A p \in Payloads : bal[p] \in Nat,
         \A p \in Payloads : more[p] = IF p = q THEN 1 + bal[p] ELSE bal[p],
         NEW supply, NEW bonds, Agree(bal, supply, bonds, b, exact)
  PROVE  Agree(more, supply + Minted(q), IF q \in Bonding THEN bonds \cup {q} ELSE bonds,
               Append(b, q), exact)
<1>1. /\ Len(Append(b, q)) = Len(b) + 1 /\ Len(b) \in Nat
      /\ ToSet(Append(b, q)) = ToSet(b) \cup {q}
  BY BlockFacts, PayloadsOf DEF Blocks
<1>2. /\ CountsSome(supply + Minted(q), Append(b, q))
      /\ exact => supply + Minted(q) = SupplyOf(Append(b, q))
  BY SupplyGrows DEF Agree
<1>3. ASSUME NEW p \in Payloads
      PROVE  /\ more[p] >= Count(Append(b, q), p)
             /\ exact => more[p] = Count(Append(b, q), p)
  <2>1. /\ Count(b, p) \in Nat /\ bal[p] \in Nat
        /\ bal[p] >= Count(b, p) /\ (exact => bal[p] = Count(b, p))
    BY CountType DEF Agree
  <2>2. Count(Append(b, q), p) = Count(b, p) + IF p = q THEN 1 ELSE 0
    BY CountGrows
  <2>3. CASE p = q
    BY <2>1, <2>2, <2>3
  <2>4. CASE p # q
    BY <2>1, <2>2, <2>4
  <2> QED
    BY <2>3, <2>4
<1>4. Bonding \cap ToSet(b) \subseteq bonds /\ (exact => bonds = Bonding \cap ToSet(b))
  BY DEF Agree
<1>5. CASE q \in Bonding
  BY <1>1, <1>2, <1>3, <1>4, <1>5 DEF Agree
<1>6. CASE q \notin Bonding
  BY <1>1, <1>2, <1>3, <1>4, <1>6 DEF Agree
<1> QED
  BY <1>5, <1>6

\* What agrees with a chain agrees with a beginning of it, if the supply counts that.
LEMMA AgreeBelow ==
  ASSUME NEW b \in Blocks, NEW c \in Blocks, Len(b) <= Len(c),
         \A i \in 1..Len(b) : b[i] = c[i],
         NEW bal, \A p \in Payloads : bal[p] \in Nat, NEW supply, NEW bonds,
         NEW less, CountsSome(less, b), Agree(bal, supply, bonds, c, FALSE)
  PROVE  Agree(bal, less, bonds, b, FALSE)
<1>1. \A p \in Payloads : bal[p] >= Count(b, p)
  <2> SUFFICES ASSUME NEW p \in Payloads
               PROVE  bal[p] >= Count(b, p)
    OBVIOUS
  <2>1. Count(b, p) \in Nat /\ Count(c, p) \in Nat /\ Count(b, p) <= Count(c, p)
    BY CountType, CountBelow
  <2>2. bal[p] >= Count(c, p)
    BY DEF Agree
  <2> QED
    BY <2>1, <2>2
<1>2. Bonding \cap ToSet(b) \subseteq bonds
  BY PayloadsOf DEF Agree
<1> QED
  BY <1>1, <1>2 DEF Agree

\* When one job works, only what it does and holds matters.
LEMMA ReplayStep ==
  ASSUME ReplayInv, NEW j \in Jobs,
         \A i \in Jobs \ {j} : /\ Quiet(i) /\ job'[i] = job[i]
                               /\ batch'[i].map = batch[i].map
                               /\ batch'[i].supply = batch[i].supply,
         Agree(index'.bal, index'.supply, index'.bonds, Committed',
               faults' = 0 /\ job'[j].pc = "idle"),
         job'[j].pc # "idle" => Replays(j)',
         job'[j].pc \in {"idle", "done"} \/ (job'[j].pc = "scan" /\ job'[j].block = NoBlock) =>
           batch'[j].map = NoMap /\ batch'[j].supply = 0,
         job'[j].pc \in {"flushheight"} \cup Flushed =>
           Over(batch'[j].map, index'.bal) = index'.bal,
         job'[j].pc = "writesupply" => job'[j].old = index'.supply
  PROVE  ReplayInv'
<1>1. \A i \in Jobs \ {j} : job'[i].pc = "idle" /\ Quiet(i)'
  BY DEF Quiet
<1>2. (\A i \in Jobs : Quiet(i)') <=> job'[j].pc = "idle"
  BY <1>1 DEF Quiet
<1>3. Agree(index'.bal, index'.supply, index'.bonds, Committed',
            faults' = 0 /\ \A i \in Jobs : Quiet(i)')
  <2>1. (faults' = 0 /\ job'[j].pc = "idle") <=> (faults' = 0 /\ \A i \in Jobs : Quiet(i)')
    BY <1>2
  <2> QED
    BY <2>1 DEF Agree
<1>4. ASSUME NEW i \in Jobs, i # j
      PROVE  batch'[i].map = NoMap /\ batch'[i].supply = 0
  BY <1>4 DEF ReplayInv, Quiet
<1>5. ASSUME NEW i \in Jobs
      PROVE  /\ ~Quiet(i)' => Replays(i)'
             /\ (\/ job'[i].pc \in {"idle", "done"}
                 \/ job'[i].pc = "scan" /\ job'[i].block = NoBlock) =>
                  batch'[i].map = NoMap /\ batch'[i].supply = 0
             /\ job'[i].pc \in {"flushheight"} \cup Flushed =>
                  Over(batch'[i].map, index'.bal) = index'.bal
             /\ job'[i].pc = "writesupply" => job'[i].old = index'.supply
  <2>1. CASE i = j
    BY <2>1 DEF Quiet
  <2>2. CASE i # j
    BY <1>1, <1>4, <2>2 DEF Flushed
  <2> QED
    BY <2>1, <2>2
<1> QED
  BY <1>3, <1>5 DEF ReplayInv

\* The step of a job that changes nothing a replay would tell apart.
LEMMA PlainStep ==
  ASSUME ReplayInv, NEW j \in Jobs, job[j].pc # "idle", job'[j].pc # "idle",
         \A i \in Jobs \ {j} : Quiet(i) /\ job'[i] = job[i] /\ batch'[i] = batch[i],
         batch'[j].map = batch[j].map, batch'[j].supply = batch[j].supply,
         index'.bal = index.bal, index'.supply = index.supply, index'.bonds = index.bonds,
         mode' = mode, faults' = faults, Committed' = Committed, Target(j)' = Target(j),
         job'[j].pc = "done" \/ (job'[j].pc = "scan" /\ job'[j].block = NoBlock) =>
           batch[j].map = NoMap /\ batch[j].supply = 0,
         job'[j].pc \in {"flushheight"} \cup Flushed
           => Over(batch[j].map, index.bal) = index.bal,
         job'[j].pc = "writesupply" => job'[j].old = index.supply
  PROVE  ReplayInv'
<1>1. Replays(j)
  BY DEF ReplayInv, Quiet
<1>2. Replays(j)'
  BY <1>1 DEF Replays
<1>3. Agree(index'.bal, index'.supply, index'.bonds, Committed',
            faults' = 0 /\ job'[j].pc = "idle")
  <2>1. Agree(index.bal, index.supply, index.bonds, Committed, FALSE)
    BY DEF ReplayInv, Agree
  <2> QED
    BY <2>1 DEF Agree
<1> QED
  BY <1>2, <1>3, ReplayStep

\* A job that begins has indexed nothing: its chain is the one of the index.
LEMMA BeginStep ==
  ASSUME ReplayInv, TypeOK, NEW j \in Jobs, \A i \in Jobs : Quiet(i),
         \A i \in Jobs \ {j} : job'[i] = job[i] /\ batch'[i] = batch[i],
         job'[j].pc \in {"index", "fetch", "flushpos"},
         batch'[j].map = NoMap, batch'[j].supply = 0,
         index'.bal = index.bal, index'.supply = index.supply, index'.bonds = index.bonds,
         mode = "up", mode' = "up", faults' = faults, head' = head,
         Committed' = Committed, Committed = head
  PROVE  ReplayInv'
<1>1. Target(j)' = head
  BY DEF Target, Writing
<1>2. /\ Agree(index.bal, index.supply, index.bonds, head, faults = 0)
      /\ index.bal \in [Payloads -> Nat] /\ index.supply \in Int
  <2>1. (faults = 0 /\ \A i \in Jobs : Quiet(i)) <=> faults = 0
    OBVIOUS
  <2> QED
    BY <2>1 DEF ReplayInv, TypeOK, Agree
<1>3. Over(NoMap, index.bal) = index.bal
  BY <1>2, EmptyTypes DEF Over
<1>4. Replays(j)'
  <2>1. Agree(Over(NoMap, index.bal), index.supply + 0, index.bonds, head,
              faults = 0 \/ mode = "reindex")
    BY <1>2, <1>3 DEF Agree
  <2> QED
    BY <1>1, <2>1 DEF Replays, Agree
<1>5. Agree(index.bal, index.supply, index.bonds, head, FALSE)
  BY <1>2 DEF Agree
<1>6. Agree(index'.bal, index'.supply, index'.bonds, Committed',
            faults' = 0 /\ job'[j].pc = "idle")
  BY <1>5 DEF Agree
<1> QED
  BY <1>4, <1>6, ReplayStep DEF Flushed

\* When a job ends or has ended nothing is held, and what is indexed is the chain.
LEMMA QuietStep ==
  ASSUME \A j \in Jobs : job'[j].pc = "idle" /\ batch'[j].map = NoMap /\ batch'[j].supply = 0,
         Agree(index'.bal, index'.supply, index'.bonds, Committed', faults' = 0)
  PROVE  ReplayInv'
<1>1. Agree(index'.bal, index'.supply, index'.bonds, Committed',
            faults' = 0 /\ \A j \in Jobs : Quiet(j)')
  BY DEF Agree, Quiet
<1> QED
  BY <1>1 DEF ReplayInv, Quiet, Flushed

\* While a job works, the process is up and the other job is quiet.
LEMMA OtherQuiet ==
  ASSUME IndexInv, NEW j \in Jobs, job[j].pc # "idle"
  PROVE  /\ \A i \in Jobs \ {j} : Quiet(i)
         /\ mode \in {"up", "reindex"} /\ (mode = "reindex" => j = "bulk")
BY DEF IndexInv, TypeOK, OneJob, Jobs, Quiet, Idle

\* What the job at work holds and the index it writes to.
LEMMA ReplayFacts ==
  ASSUME IndexInv, ReplayInv, NEW j \in Jobs, job[j].pc # "idle"
  PROVE  /\ Replays(j)
         /\ index.bal \in [Payloads -> Nat] /\ index.supply \in Int
            /\ index.bonds \subseteq Payloads
         /\ IsMap(batch[j].map, Payloads, Nat) /\ batch[j].supply \in Int
         /\ Over(batch[j].map, index.bal) \in [Payloads -> Nat]
         /\ Agree(index.bal, index.supply, index.bonds, Committed, FALSE)
<1>1. /\ index.bal \in [Payloads -> Nat] /\ index.supply \in Int
      /\ index.bonds \subseteq Payloads
      /\ IsMap(batch[j].map, Payloads, Nat) /\ batch[j].supply \in Int
  BY DEF IndexInv, TypeOK
<1>2. Over(batch[j].map, index.bal) \in [Payloads -> Nat]
  BY <1>1, MapFacts
<1>3. Replays(j) /\ Agree(index.bal, index.supply, index.bonds, Committed, FALSE)
  BY DEF ReplayInv, Quiet, Agree
<1> QED
  BY <1>1, <1>2, <1>3

\* A job that has flushed the height has committed the chain that it has indexed.
LEMMA FlushedChain ==
  ASSUME IndexInv, NEW j \in Jobs, job[j].pc \in Flushed
  PROVE  Committed = Target(j) /\ Target(j) \in Blocks
<1>1. /\ Target(j) \in Blocks /\ Chained(log, index.pos, Target(j))
      /\ index.height = Height(Target(j))
  BY PlacedChain DEF Placed
<1> QED
  BY <1>1, CommittedIs

\* The committed chain is the beginning of the chain that a job has indexed.
LEMMA CommittedBelowTarget ==
  ASSUME IndexInv, NEW j \in Jobs, job[j].pc \in Unflushed
  PROVE  /\ Committed \in Blocks /\ Target(j) \in Blocks
         /\ Len(Committed) <= Len(Target(j))
         /\ \A i \in 1..Len(Committed) : Committed[i] = Target(j)[i]
<1>1. mode \in {"up", "reindex"} /\ (mode = "reindex" => j = "bulk")
  BY OtherQuiet DEF Unflushed
<1>2. CASE mode = "up"
  <2>1. Target(j) = head
    BY <1>2 DEF Target, Unflushed, Writing
  <2> QED
    BY <1>2, <2>1, CommittedBelowHead
<1>3. CASE mode = "reindex"
  <2>1. j = "bulk" /\ Target(j) = job[j].block /\ job[j].block \in Blocks
    BY <1>1, <1>3 DEF Target, Unflushed, IndexInv, TypeOK, JobRecords
  <2>2. index.height = NoHeight
    BY <1>3, <2>1 DEF IndexInv, ScanInv, Unflushed, Flushed
  <2>3. Committed = NoBlock /\ Len(NoBlock) = 0 /\ NoBlock \in Blocks
    BY <2>2, IdleType DEF Committed
  <2> QED
    BY <2>1, <2>3 DEF Blocks
<1> QED
  BY <1>1, <1>2, <1>3

\* A started process holds nothing, and its head is the committed chain.
LEMMA ReplayStart ==
  ASSUME IndexInv, ReplayInv, Start, Committed' = Committed
  PROVE  ReplayInv'
<1>1. \A j \in Jobs : job[j].pc = "idle"
  BY DEF Start, IndexInv, OneJob, Quiet, Idle, Jobs
<1>2. \A j \in Jobs : job'[j].pc = "idle" /\ batch'[j].map = NoMap /\ batch'[j].supply = 0
  BY <1>1 DEF Start, ReplayInv
<1>3. Agree(index'.bal, index'.supply, index'.bonds, Committed', faults' = 0)
  BY <1>1 DEF Start, ReplayInv, Agree, Quiet
<1> QED
  BY <1>2, <1>3, QuietStep

\* A re-index starts from an index that was removed, and agrees with the empty chain.
LEMMA ReplayStartReindex ==
  ASSUME IndexInv, ReplayInv, StartReindex, Committed' = NoBlock
  PROVE  ReplayInv'
<1>1. /\ job["add"].pc = "idle" /\ job["bulk"] = Idle /\ "bulk" \in Jobs
      /\ job \in [Jobs -> JobRecords]
  BY DEF StartReindex, IndexInv, TypeOK, OneJob, Quiet, Jobs
<1>2. /\ job'["add"] = job["add"] /\ job'["bulk"].pc = "scan" /\ job'["bulk"].block = NoBlock
  BY <1>1, IdleType DEF StartReindex, Idle, JobRecords
<1>3. /\ index'.supply = 0 /\ index'.bonds = {} /\ index'.bal \in [Payloads -> Nat]
      /\ \A p \in Payloads : index'.bal[p] = 0
  BY DEF StartReindex, EmptyIndex
<1>4. batch' = batch /\ batch["bulk"].map = NoMap /\ batch["bulk"].supply = 0
  BY <1>1 DEF StartReindex, ReplayInv, Idle
<1>5. Target("bulk")' = NoBlock
  BY <1>2 DEF Target, StartReindex, Writing
<1>6. Over(NoMap, index'.bal) = index'.bal
  BY <1>3, EmptyTypes DEF Over
<1>7. Replays("bulk")'
  <2>1. Agree(index'.bal, 0, {}, NoBlock, TRUE)
    BY <1>3, AgreeNothing
  <2> QED
    BY <1>3, <1>4, <1>5, <1>6, <2>1 DEF Replays, Agree
<1>8. Agree(index'.bal, index'.supply, index'.bonds, Committed',
            faults' = 0 /\ job'["bulk"].pc = "idle")
  BY <1>2, <1>3, AgreeNothing
<1> QED
  BY <1>1, <1>2, <1>4, <1>7, <1>8, ReplayStep DEF Jobs, Quiet, Flushed

\* A stop, a crash or an append that fails loses only what the indexers hold.
LEMMA ReplayForget ==
  ASSUME IndexInv, ReplayInv, Forget, index' = index, Committed' = Committed,
         faults' = 0 => faults = 0 /\ \A j \in Jobs : Quiet(j)
  PROVE  ReplayInv'
<1>1. \A j \in Jobs : job'[j].pc = "idle" /\ batch'[j].map = NoMap /\ batch'[j].supply = 0
  BY ForgetFacts, EmptyTypes DEF EmptyBatch
<1>2. Agree(index'.bal, index'.supply, index'.bonds, Committed', faults' = 0)
  BY DEF ReplayInv, Agree
<1> QED
  BY <1>1, <1>2, QuietStep

\* The genesis block is a job that begins on the empty chain.
LEMMA ReplayCreateGenesis ==
  ASSUME Calm, IndexInv, ReplayInv, NEW p \in Payloads, CreateGenesis(p),
       Committed' = Committed
  PROVE  ReplayInv'
<1>1. mode = "up" /\ \A i \in Jobs : Quiet(i)
  BY DEF CreateGenesis, MayBegin, Calm
<1>2. Committed = head
  BY <1>1, CommittedIsHead DEF Quiet
<1>3. TypeOK /\ job \in [Jobs -> JobRecords] /\ "add" \in Jobs
  BY DEF IndexInv, TypeOK, Jobs
<1>4. /\ job'["add"].pc = "index" /\ \A i \in Jobs \ {"add"} : job'[i] = job[i]
      /\ batch' = batch /\ index' = index /\ mode' = mode /\ head' = head /\ faults' = faults
  BY <1>3 DEF CreateGenesis, JobRecords
<1>5. batch["add"].map = NoMap /\ batch["add"].supply = 0
  BY <1>1, <1>3 DEF ReplayInv, Quiet
<1> QED
  BY <1>1, <1>2, <1>3, <1>4, <1>5, BeginStep

\* addBlock() begins on the chain of the index.
LEMMA ReplayBeginAdd ==
  ASSUME Calm, IndexInv, ReplayInv, NEW p \in Payloads, BeginAdd(p), Committed' = Committed
  PROVE  ReplayInv'
<1>1. mode = "up" /\ \A i \in Jobs : Quiet(i)
  BY DEF BeginAdd, MayBegin, Calm
<1>2. Committed = head
  BY <1>1, CommittedIsHead DEF Quiet
<1>3. TypeOK /\ job \in [Jobs -> JobRecords] /\ "add" \in Jobs
  BY DEF IndexInv, TypeOK, Jobs
<1>4. /\ job'["add"].pc = "index" /\ \A i \in Jobs \ {"add"} : job'[i] = job[i]
      /\ batch' = batch /\ mode' = mode /\ head' = head /\ faults' = faults
  BY <1>3 DEF BeginAdd, JobRecords
<1>5. index'.bal = index.bal /\ index'.supply = index.supply /\ index'.bonds = index.bonds
  BY <1>3 DEF BeginAdd, TypeOK
<1>6. batch["add"].map = NoMap /\ batch["add"].supply = 0
  BY <1>1, <1>3 DEF ReplayInv, Quiet
<1> QED
  BY <1>1, <1>2, <1>3, <1>4, <1>5, <1>6, BeginStep

\* A block that is rejected leaves nothing in the indexer.
LEMMA ReplayRejectBlock ==
  ASSUME Calm, IndexInv, ReplayInv, NEW p \in Payloads, RejectBlock(p), Committed' = Committed
  PROVE  ReplayInv'
<1>1. /\ index'.bal = index.bal /\ index'.supply = index.supply /\ index'.bonds = index.bonds
      /\ job' = job /\ batch' = batch /\ faults' = faults
  BY DEF RejectBlock, IndexInv, TypeOK
<1>2. \A j \in Jobs : job[j].pc = "idle"
  BY DEF RejectBlock, MayBegin, Calm, Quiet
<1>3. \A j \in Jobs : job'[j].pc = "idle" /\ batch'[j].map = NoMap /\ batch'[j].supply = 0
  BY <1>1, <1>2 DEF ReplayInv
<1>4. Agree(index'.bal, index'.supply, index'.bonds, Committed', faults' = 0)
  BY <1>1, <1>2 DEF ReplayInv, Agree, Quiet
<1> QED
  BY <1>3, <1>4, QuietStep

\* A synchronization begins on the chain of the index.
LEMMA ReplayBeginSync ==
  ASSUME Calm, IndexInv, ReplayInv, BeginSync, Committed' = Committed
  PROVE  ReplayInv'
<1>1. mode = "up" /\ \A i \in Jobs : Quiet(i)
  BY DEF BeginSync, MayBegin, Calm
<1>2. Committed = head
  BY <1>1, CommittedIsHead DEF Quiet
<1>3. TypeOK /\ job \in [Jobs -> JobRecords] /\ DOMAIN batch = Jobs /\ "bulk" \in Jobs
  BY DEF IndexInv, TypeOK, Jobs
<1>4. /\ job'["bulk"].pc \in {"fetch", "flushpos"}
      /\ \A i \in Jobs \ {"bulk"} : job'[i] = job[i]
      /\ batch'["bulk"] = EmptyBatch /\ \A i \in Jobs \ {"bulk"} : batch'[i] = batch[i]
      /\ index' = index /\ mode' = mode /\ head' = head /\ faults' = faults
  BY <1>3 DEF BeginSync
<1>5. EmptyBatch.map = NoMap /\ EmptyBatch.supply = 0
  BY DEF EmptyBatch
<1> QED
  BY <1>1, <1>2, <1>3, <1>4, <1>5, BeginStep

\* A block that was fetched, or a fetch that ends, has indexed nothing.
LEMMA ReplayFetch ==
  ASSUME Calm, IndexInv, ReplayInv, Committed' = Committed,
         (\E p \in Payloads : FetchBlock(p)) \/ (\E ok \in BOOLEAN : EndFetch(ok))
  PROVE  ReplayInv'
<1>1. job["bulk"].pc = "fetch" /\ job \in [Jobs -> JobRecords] /\ "bulk" \in Jobs
  BY DEF FetchBlock, EndFetch, IndexInv, TypeOK, Jobs
<1>2. mode = "up" /\ \A i \in Jobs \ {"bulk"} : Quiet(i)
  BY <1>1, OtherQuiet DEF IndexInv, ScanInv, Unflushed, Flushed
<1>3. /\ job'["bulk"].pc \in {"index", "flushpos"}
      /\ \A i \in Jobs \ {"bulk"} : job'[i] = job[i]
      /\ batch' = batch /\ index' = index /\ mode' = mode /\ head' = head /\ faults' = faults
  BY <1>1 DEF FetchBlock, EndFetch, JobRecords
<1>4. Target("bulk")' = Target("bulk")
  BY <1>1, <1>2, <1>3 DEF Target, Writing
<1> QED
  BY <1>1, <1>2, <1>3, <1>4, PlainStep DEF Flushed

\* A record that was read has not been indexed yet.
LEMMA ReplayScanRecord ==
  ASSUME Calm, IndexInv, ReplayInv, ScanRecord, Committed' = Committed
  PROVE  ReplayInv' /\ Parent(job'["bulk"].block) = job["bulk"].block
<1>1. job["bulk"].pc = "scan" /\ job \in [Jobs -> JobRecords] /\ "bulk" \in Jobs
  BY DEF ScanRecord, IndexInv, TypeOK, Jobs
<1>2. mode = "reindex" /\ \A i \in Jobs \ {"bulk"} : Quiet(i)
  BY <1>1, OtherQuiet DEF IndexInv, JobInv
<1>3. /\ job'["bulk"].pc = "index" /\ job'["bulk"].block = BlockAt(log, job["bulk"].off)
      /\ job["bulk"].block \in {NoBlock, Parent(job'["bulk"].block)}
      /\ \A i \in Jobs \ {"bulk"} : job'[i] = job[i]
      /\ batch' = batch /\ index' = index /\ mode' = mode /\ faults' = faults
  BY <1>1 DEF ScanRecord, JobRecords
<1>4. Parent(job'["bulk"].block) = job["bulk"].block
  <2>1. CASE job["bulk"].block = NoBlock
    <3>1. job["bulk"].off = 0 /\ tail \in Nat
      BY <1>1, <1>2, <2>1, IdleType DEF IndexInv, TypeOK, ScanInv, RecordLen
    <3>2. tail = Len(log)
      BY <1>1, <1>2 DEF IndexInv, TailIsEnd, Quiet, Jobs
    <3>3. Len(log) > 0
      BY <3>1, <3>2 DEF ScanRecord
    <3>4. log[1] \in Pieces
      BY <3>3 DEF IndexInv, TypeOK
    <3>5. /\ job'["bulk"].block = log[1].block /\ Len(log[1].block) = 1
          /\ log[1].block \in Blocks
      BY <1>3, <3>1, <3>3, <3>4 DEF BlockAt, IndexInv, GenesisFirst, Pieces
    <3>6. Parent(log[1].block) \in Blocks /\ Len(Parent(log[1].block)) = 0
      BY <3>5, PrefixFacts
    <3> QED
      BY <2>1, <3>5, <3>6, SeqEqual, IdleType DEF Blocks
  <2> QED
    BY <1>3, <2>1
<1>5. Target("bulk")' = Target("bulk")
  BY <1>1, <1>2, <1>3, <1>4 DEF Target
<1>6. ReplayInv'
  BY <1>1, <1>2, <1>3, <1>5, PlainStep DEF Flushed
<1> QED
  BY <1>4, <1>6

\* A scan that ends has indexed the chain that it has read.
LEMMA ReplayScanEnds ==
  ASSUME Calm, IndexInv, ReplayInv, ScanTrim \/ ScanEnd, Committed' = Committed
  PROVE  ReplayInv'
<1>1. job["bulk"].pc = "scan" /\ job \in [Jobs -> JobRecords] /\ "bulk" \in Jobs
  BY DEF ScanTrim, ScanEnd, IndexInv, TypeOK, Jobs
<1>2. mode = "reindex" /\ \A i \in Jobs \ {"bulk"} : Quiet(i)
  BY <1>1, OtherQuiet DEF IndexInv, JobInv
<1>3. /\ job'["bulk"].pc = IF job["bulk"].block = NoBlock THEN "done" ELSE "flushpos"
      /\ job'["bulk"].block = job["bulk"].block
      /\ \A i \in Jobs \ {"bulk"} : job'[i] = job[i]
      /\ batch' = batch /\ index' = index /\ mode' = mode /\ faults' = faults
  BY <1>1 DEF ScanTrim, ScanEnd, Goto, JobRecords
<1>4. Target("bulk")' = Target("bulk")
  BY <1>1, <1>2, <1>3 DEF Target
<1>5. job["bulk"].block = NoBlock => batch["bulk"].map = NoMap /\ batch["bulk"].supply = 0
  BY <1>1 DEF ReplayInv
<1>6. Over(NoMap, index.bal) = index.bal
  BY EmptyTypes DEF Over, IndexInv, TypeOK
<1> QED
  BY <1>1, <1>2, <1>3, <1>4, <1>5, <1>6, PlainStep DEF Flushed

\* Noting a position indexes no transaction.
LEMMA ReplayPlace ==
  ASSUME Calm, IndexInv, ReplayInv, Place, Committed' = Committed
  PROVE  ReplayInv'
<1>1. job["bulk"].pc = "place" /\ job \in [Jobs -> JobRecords] /\ "bulk" \in Jobs
  BY DEF Place, IndexInv, TypeOK, Jobs
<1>2. mode = "reindex" /\ \A i \in Jobs \ {"bulk"} : Quiet(i)
  BY <1>1, OtherQuiet DEF IndexInv, JobInv
<1>3. /\ job'["bulk"].pc = "mayflush" /\ job'["bulk"].block = job["bulk"].block
      /\ \A i \in Jobs \ {"bulk"} : job'[i] = job[i]
      /\ index' = index /\ mode' = mode /\ faults' = faults
  BY <1>1 DEF Place, JobRecords
<1>4. /\ batch'["bulk"].map = batch["bulk"].map /\ batch'["bulk"].supply = batch["bulk"].supply
      /\ \A i \in Jobs \ {"bulk"} : batch'[i] = batch[i]
  BY <1>1 DEF Place, IndexInv, TypeOK
<1>5. Target("bulk")' = Target("bulk")
  BY <1>1, <1>2, <1>3 DEF Target
<1> QED
  BY <1>1, <1>2, <1>3, <1>4, <1>5, PlainStep DEF Flushed

\* Writing a record indexes no transaction.
LEMMA ReplayWrite ==
  ASSUME Calm, IndexInv, ReplayInv, NEW j \in Jobs, WritePart(j) \/ WriteCrc(j),
       Committed' = Committed
  PROVE  ReplayInv'
<1>1. job[j].pc \in Writing /\ job \in [Jobs -> JobRecords] /\ DOMAIN batch = Jobs
  BY DEF WritePart, WriteCrc, Writing, IndexInv, TypeOK
<1>2. mode = "up" /\ \A i \in Jobs \ {j} : Quiet(i)
  BY <1>1, OtherQuiet DEF IndexInv, ScanInv, Writing, Unflushed, Flushed
<1>3. /\ \A i \in Jobs \ {j} : job'[i] = job[i]
      /\ job'[j].block = job[j].block
      /\ index' = index /\ mode' = mode /\ faults' = faults
  BY <1>1 DEF WritePart, WriteCrc, Goto, JobRecords
<1>4. job'[j].pc \in {"body", "crc"} \/ (job'[j].pc = "mayflush" /\ head' = job[j].block)
  BY <1>1 DEF WritePart, WriteCrc, Goto, JobRecords
<1>5. /\ batch'[j].map = batch[j].map /\ batch'[j].supply = batch[j].supply
      /\ \A i \in Jobs \ {j} : batch'[i] = batch[i]
  BY <1>1 DEF WritePart, WriteCrc, IndexInv, TypeOK
<1>6. Target(j)' = Target(j)
  BY <1>1, <1>2, <1>3, <1>4 DEF Target, Writing
<1> QED
  BY <1>1, <1>2, <1>3, <1>4, <1>5, <1>6, PlainStep DEF Flushed, Writing

\* The positions are no part of the replay.
LEMMA ReplayFlushPositions ==
  ASSUME Calm, IndexInv, ReplayInv, NEW j \in Jobs, MayFlush(j) \/ FlushPos(j),
       Committed' = Committed
  PROVE  ReplayInv'
<1>1. job[j].pc \in {"mayflush", "flushpos"} /\ job \in [Jobs -> JobRecords] /\ TypeOK
  BY DEF MayFlush, FlushPos, IndexInv, TypeOK
<1>2. mode \in {"up", "reindex"} /\ \A i \in Jobs \ {j} : Quiet(i)
  BY <1>1, OtherQuiet
<1>3. /\ \A i \in Jobs \ {j} : job'[i] = job[i]
      /\ job'[j].block = job[j].block
      /\ head' = head /\ mode' = mode /\ faults' = faults
  BY <1>1 DEF MayFlush, FlushPos, Goto, JobRecords
<1>4. \/ job'[j].pc \in {"flushpos", "fetch", "flushbal"}
      \/ job'[j].pc = "scan" /\ mode = "reindex" /\ j = "bulk"
  <2>1. mode = "reindex" => j = "bulk"
    BY <1>1, OtherQuiet
  <2>2. CASE MayFlush(j)
    <3>1. \/ job'[j].pc \in {"flushpos", "fetch"}
          \/ job'[j].pc = "scan" /\ mode = "reindex"
      BY <1>1, <2>2 DEF MayFlush, Goto
    <3> QED
      BY <2>1, <3>1
  <2>3. CASE FlushPos(j)
    BY <1>1, <2>3 DEF FlushPos, Goto, NextPhase
  <2> QED
    BY <2>2, <2>3
<1>5. WritePositions(j) \/ UNCHANGED << index, batch >>
  BY DEF MayFlush, FlushPos
<1>6. /\ batch'[j].map = batch[j].map /\ batch'[j].supply = batch[j].supply
      /\ \A i \in Jobs \ {j} : batch'[i] = batch[i]
      /\ index'.bal = index.bal /\ index'.supply = index.supply /\ index'.bonds = index.bonds
  BY <1>1, <1>5 DEF WritePositions, TypeOK
<1>7. Target(j)' = Target(j)
  BY <1>1, <1>2, <1>3, <1>4 DEF Target, Writing
<1>8. job'[j].pc = "scan" => job'[j].block # NoBlock
  BY <1>1, <1>3, <1>4 DEF IndexInv, ScanInv, Unflushed
<1> QED
  BY <1>1, <1>2, <1>3, <1>4, <1>6, <1>7, <1>8, PlainStep DEF Flushed

\* The supply that is read is the supply that the batch adds to.
LEMMA ReplayReadSupply ==
  ASSUME Calm, IndexInv, ReplayInv, NEW j \in Jobs, ReadSupply(j), Committed' = Committed
  PROVE  ReplayInv'
<1>1. job[j].pc = "readsupply" /\ job \in [Jobs -> JobRecords]
  BY DEF ReadSupply, IndexInv, TypeOK
<1>2. mode \in {"up", "reindex"} /\ \A i \in Jobs \ {j} : Quiet(i)
  BY <1>1, OtherQuiet
<1>3. /\ job'[j].pc = "writesupply" /\ job'[j].old = index.supply
      /\ job'[j].block = job[j].block /\ \A i \in Jobs \ {j} : job'[i] = job[i]
      /\ batch' = batch /\ index' = index /\ head' = head /\ mode' = mode /\ faults' = faults
  BY <1>1 DEF ReadSupply, NextPhase, JobRecords
<1>4. Target(j)' = Target(j)
  BY <1>1, <1>2, <1>3 DEF Target, Writing
<1>5. Over(batch[j].map, index.bal) = index.bal
  BY <1>1 DEF ReplayInv, Flushed
<1> QED
  BY <1>1, <1>2, <1>3, <1>4, <1>5, PlainStep

\* Indexing a block: what the indexer holds agrees with the chain that ends in it.
LEMMA ReplayIndexTxs ==
  ASSUME Calm, IndexInv, ReplayInv, NEW j \in Jobs, IndexTxs(j), Committed' = Committed
  PROVE  ReplayInv'
<1> DEFINE b == job[j].block
           p == Payload(b)
           m == batch[j].map
<1>1. job[j].pc = "index" /\ job \in [Jobs -> JobRecords] /\ TypeOK
  BY DEF IndexTxs, IndexInv, TypeOK
<1>2. /\ mode \in {"up", "reindex"} /\ (mode = "reindex" => j = "bulk")
      /\ \A i \in Jobs \ {j} : Quiet(i)
  BY <1>1, OtherQuiet
<1>3. /\ job'[j].pc \in {"place", "len"} /\ (mode = "up" => job'[j].pc = "len")
      /\ job'[j].block = b /\ \A i \in Jobs \ {j} : job'[i] = job[i]
      /\ head' = head /\ mode' = mode /\ faults' = faults
  BY <1>1, <1>2 DEF IndexTxs, JobRecords
<1>4. b \in Blocks /\ Len(b) > 0 /\ (mode = "up" => Parent(b) = head)
  <2>1. b \in Blocks
    BY <1>1 DEF JobRecords
  <2>2. CASE mode = "up"
    BY <1>1, <2>1, <2>2 DEF IndexInv, TypeOK, JobInv, Blocks
  <2>3. CASE mode = "reindex"
    <3>1. b # NoBlock
      BY <1>1, <1>2, <2>3 DEF IndexInv, ScanInv
    <3> QED
      BY <2>1, <2>3, <3>1 DEF Blocks, NoBlock
  <2> QED
    BY <1>2, <2>1, <2>2, <2>3
<1>5. Parent(b) \in Blocks /\ p \in Payloads /\ b = Append(Parent(b), p)
  BY <1>4, BlockEnds
<1>6. Target(j) = Parent(b) /\ Target(j)' = b
  BY <1>1, <1>2, <1>3, <1>4 DEF Target, Writing
<1>7. /\ batch'[j].map = Put(m, p, 1 + IF p \in DOMAIN m THEN m[p] ELSE index.bal[p])
      /\ batch'[j].supply = batch[j].supply + Minted(p)
      /\ \A i \in Jobs \ {j} : batch'[i] = batch[i]
  BY <1>1 DEF IndexTxs, TypeOK
<1>8. /\ index'.bal = index.bal /\ index'.supply = index.supply
      /\ index'.bonds = IF p \in Bonding THEN index.bonds \cup {p} ELSE index.bonds
  BY <1>1 DEF IndexTxs, TypeOK
<1>9. /\ Replays(j) /\ index.bal \in [Payloads -> Nat] /\ index.supply \in Int
      /\ IsMap(m, Payloads, Nat) /\ batch[j].supply \in Int
      /\ Over(m, index.bal) \in [Payloads -> Nat]
      /\ Agree(index.bal, index.supply, index.bonds, Committed, FALSE)
  BY <1>1, ReplayFacts
<1> HIDE DEF b, p, m
<1>10. \A x \in Payloads :
         Over(batch'[j].map, index'.bal)[x] =
           IF x = p THEN 1 + Over(m, index.bal)[x] ELSE Over(m, index.bal)[x]
  <2>1. DOMAIN m \subseteq Payloads /\ DOMAIN index.bal = Payloads
    BY <1>9 DEF IsMap
  <2> QED
    BY ONLY <2>1, <1>5, <1>7, <1>8 DEF Over, Put
<1>11. Replays(j)'
  <2>1. Agree(Over(m, index.bal), index.supply + batch[j].supply, index.bonds,
              Parent(b), faults = 0 \/ mode = "reindex")
    BY <1>6, <1>9 DEF Replays, m
  <2>2. index.supply + batch[j].supply \in Int
    BY <1>9
  <2>3. Agree(Over(batch'[j].map, index'.bal), (index.supply + batch[j].supply) + Minted(p),
              IF p \in Bonding THEN index.bonds \cup {p} ELSE index.bonds,
              Append(Parent(b), p), faults = 0 \/ mode = "reindex")
    BY <1>5, <1>9, <1>10, <2>1, <2>2, AgreeOne
  <2>4. (index.supply + batch[j].supply) + Minted(p) = index'.supply + batch'[j].supply
    <3>1. Minted(p) \in Int
      BY MintedIsInt
    <3> QED
      BY <1>7, <1>8, <1>9, <3>1
  <2>5. Append(Parent(b), p) = Target(j)'
    BY <1>5, <1>6
  <2>6. Agree(Over(batch'[j].map, index'.bal), index'.supply + batch'[j].supply,
              index'.bonds, Target(j)', faults = 0 \/ mode = "reindex")
    BY ONLY <1>8, <2>3, <2>4, <2>5
  <2>7. Agree(Over(batch'[j].map, index'.bal), index'.supply + batch'[j].supply,
              index'.bonds, Target(j)', faults' = 0 \/ mode' = "reindex")
    BY ONLY <1>3, <2>6
  <2> QED
    BY <2>7 DEF Replays
<1>12. Agree(index'.bal, index'.supply, index'.bonds, Committed',
            faults' = 0 /\ job'[j].pc = "idle")
  <2>1. index.bonds \subseteq index'.bonds
    BY <1>8
  <2> QED
    BY <1>3, <1>8, <1>9, <2>1 DEF Agree
<1> QED
  BY <1>2, <1>3, <1>7, <1>11, <1>12, ReplayStep DEF Flushed

\* Writing the balances keeps them, over what the index had.
LEMMA ReplayFlushBal ==
  ASSUME Calm, IndexInv, ReplayInv, NEW j \in Jobs, FlushBal(j), Committed' = Committed
  PROVE  ReplayInv'
<1>1. job[j].pc = "flushbal" /\ job \in [Jobs -> JobRecords] /\ TypeOK
  BY DEF FlushBal, IndexInv, TypeOK
<1>2. mode \in {"up", "reindex"} /\ \A i \in Jobs \ {j} : Quiet(i)
  BY <1>1, OtherQuiet
<1>3. /\ job'[j].pc = "flushheight" /\ job'[j].block = job[j].block
      /\ \A i \in Jobs \ {j} : job'[i] = job[i]
      /\ batch' = batch /\ head' = head /\ mode' = mode /\ faults' = faults
  BY <1>1 DEF FlushBal, Goto, NextPhase, JobRecords
<1>4. /\ index'.bal = Over(batch[j].map, index.bal)
      /\ index'.supply = index.supply /\ index'.bonds = index.bonds
  BY <1>1 DEF FlushBal, TypeOK
<1>5. /\ Replays(j) /\ index.bal \in [Payloads -> Nat]
      /\ index.supply \in Int /\ index.bonds \subseteq Payloads
      /\ Over(batch[j].map, index.bal) \in [Payloads -> Nat]
      /\ Agree(index.bal, index.supply, index.bonds, Committed, FALSE)
  BY <1>1, ReplayFacts
<1>6. Over(batch[j].map, index'.bal) = index'.bal
  <2>1. Over(batch[j].map, Over(batch[j].map, index.bal)) = Over(batch[j].map, index.bal)
    BY DEF Over
  <2> QED
    BY <1>4, <2>1
<1>7. Target(j)' = Target(j)
  BY <1>1, <1>2, <1>3 DEF Target, Writing
<1>8. Replays(j)'
  BY <1>3, <1>4, <1>5, <1>6, <1>7 DEF Replays
<1>9. Agree(index'.bal, index'.supply, index'.bonds, Committed',
            faults' = 0 /\ job'[j].pc = "idle")
  <2>1. /\ Committed \in Blocks /\ Target(j) \in Blocks /\ Len(Committed) <= Len(Target(j))
        /\ \A i \in 1..Len(Committed) : Committed[i] = Target(j)[i]
    BY <1>1, CommittedBelowTarget DEF Unflushed
  <2>2. CountsSome(index.supply, Committed)
    BY <1>5 DEF Agree
  <2>3. Agree(Over(batch[j].map, index.bal), index.supply + batch[j].supply, index.bonds,
              Target(j), FALSE)
    BY <1>5 DEF Replays, Agree
  <2>5. \A p \in Payloads : Over(batch[j].map, index.bal)[p] \in Nat
    BY <1>5
  <2>4. Agree(Over(batch[j].map, index.bal), index.supply, index.bonds, Committed, FALSE)
    <3>1. PICK b, c, bal, supply :
            /\ b = Committed /\ c = Target(j) /\ bal = Over(batch[j].map, index.bal)
            /\ supply = index.supply + batch[j].supply
      OBVIOUS
    <3>2. PICK less, bonds : less = index.supply /\ bonds = index.bonds
      OBVIOUS
    <3>3. /\ b \in Blocks /\ c \in Blocks /\ Len(b) <= Len(c)
          /\ \A i \in 1..Len(b) : b[i] = c[i]
      BY <2>1, <3>1
    <3>4. /\ \A p \in Payloads : bal[p] \in Nat
      BY <2>5, <3>1
    <3>5. Agree(bal, supply, bonds, c, FALSE) 
      BY ONLY <2>3, <3>1, <3>2
    <3>6. CountsSome(less, b)
      BY <2>2, <3>1, <3>2
    <3>7. Agree(bal, less, bonds, b, FALSE)
      BY ONLY <3>3, <3>4, <3>5, <3>6, AgreeBelow
    <3> QED
      BY ONLY <3>1, <3>2, <3>7
  <2> QED
    BY <1>3, <1>4, <2>4 DEF Agree
<1> QED
  BY <1>2, <1>3, <1>6, <1>8, <1>9, ReplayStep DEF Flushed

\* Writing the height commits the chain, whose payments the index already holds.
LEMMA ReplayFlushHeight ==
  ASSUME Calm, IndexInv, ReplayInv, NEW j \in Jobs, FlushHeight(j), Committed' = Target(j)
  PROVE  ReplayInv'
<1>1. job[j].pc = "flushheight" /\ job \in [Jobs -> JobRecords] /\ TypeOK
  BY DEF FlushHeight, IndexInv, TypeOK
<1>2. mode \in {"up", "reindex"} /\ \A i \in Jobs \ {j} : Quiet(i)
  BY <1>1, OtherQuiet
<1>3. /\ job'[j].pc = "readsupply" /\ job'[j].block = job[j].block
      /\ \A i \in Jobs \ {j} : job'[i] = job[i]
      /\ batch' = batch /\ head' = head /\ mode' = mode /\ faults' = faults
  BY <1>1 DEF FlushHeight, Goto, NextPhase, JobRecords
<1>4. index'.bal = index.bal /\ index'.supply = index.supply /\ index'.bonds = index.bonds
  BY <1>1 DEF FlushHeight, TypeOK
<1>5. Replays(j) /\ CountsSome(index.supply, Committed)
  BY <1>1, ReplayFacts DEF Agree
<1>6. Over(batch[j].map, index.bal) = index.bal
  BY <1>1 DEF ReplayInv
<1>7. Target(j)' = Target(j)
  BY <1>1, <1>2, <1>3 DEF Target, Writing
<1>8. Replays(j)'
  BY <1>3, <1>4, <1>5, <1>7 DEF Replays
<1>9. Agree(index'.bal, index'.supply, index'.bonds, Committed',
            faults' = 0 /\ job'[j].pc = "idle")
  <2>1. Agree(index.bal, index.supply + batch[j].supply, index.bonds, Target(j),
       faults = 0 \/ mode = "reindex")
    BY <1>5, <1>6 DEF Replays
  <2>2. /\ Committed \in Blocks /\ Target(j) \in Blocks /\ Len(Committed) <= Len(Target(j))
        /\ \A i \in 1..Len(Committed) : Committed[i] = Target(j)[i]
    BY <1>1, CommittedBelowTarget DEF Unflushed
  <2>4. CountsSome(index.supply, Target(j))
    BY <1>5, <2>2, CountsSomeAbove
  <2> QED
    BY <1>3, <1>4, <2>1, <2>4 DEF Agree
<1> QED
  BY <1>2, <1>3, <1>4, <1>6, <1>8, <1>9, ReplayStep

\* Writing the supply leaves nothing in the indexer.
LEMMA ReplayWriteSupply ==
  ASSUME Calm, IndexInv, ReplayInv, NEW j \in Jobs, WriteSupply(j), Committed' = Committed
  PROVE  ReplayInv'
<1>1. job[j].pc = "writesupply" /\ job \in [Jobs -> JobRecords] /\ TypeOK
  BY DEF WriteSupply, IndexInv, TypeOK
<1>2. mode \in {"up", "reindex"} /\ \A i \in Jobs \ {j} : Quiet(i)
  BY <1>1, OtherQuiet
<1>3. /\ job'[j].pc = "done" /\ job'[j].block = job[j].block
      /\ \A i \in Jobs \ {j} : job'[i] = job[i]
      /\ head' = head /\ mode' = mode /\ faults' = faults
  BY <1>1 DEF WriteSupply, Goto, NextPhase, JobRecords
<1>4. /\ index'.bal = index.bal /\ index'.bonds = index.bonds
      /\ index'.supply = index.supply + batch[j].supply
  BY <1>1 DEF WriteSupply, TypeOK, ReplayInv
<1>5. /\ Replays(j) /\ index.supply \in Int /\ batch[j].supply \in Int
      /\ index.bal \in [Payloads -> Nat]
  BY <1>1, ReplayFacts
<1>6. /\ batch'[j].map = NoMap /\ batch'[j].supply = 0
      /\ \A i \in Jobs \ {j} : batch'[i] = batch[i]
  BY <1>1 DEF WriteSupply, TypeOK
<1>7. Over(batch[j].map, index.bal) = index.bal /\ Over(NoMap, index.bal) = index.bal
  <2>1. Over(batch[j].map, index.bal) = index.bal
    BY <1>1 DEF ReplayInv, Flushed
  <2> QED
    BY <1>5, <2>1, EmptyTypes DEF Over
<1>8. Target(j)' = Target(j) /\ Committed = Target(j)
  BY <1>1, <1>2, <1>3, FlushedChain DEF Target, Writing, Flushed
<1>9. Agree(index.bal, index.supply + batch[j].supply, index.bonds, Target(j),
     faults = 0 \/ mode = "reindex")
  BY <1>5, <1>7 DEF Replays
<1>10. Replays(j)'
  <2>1. Over(batch'[j].map, index'.bal) = index.bal
    BY <1>4, <1>6, <1>7
  <2>2. index'.supply + batch'[j].supply = index.supply + batch[j].supply
    BY <1>4, <1>5, <1>6
  <2>3. Agree(Over(batch'[j].map, index'.bal), index'.supply + batch'[j].supply, index'.bonds,
              Target(j)', faults' = 0 \/ mode' = "reindex")
    BY ONLY <1>3, <1>4, <1>8, <1>9, <2>1, <2>2
  <2> QED
    BY <2>3 DEF Replays
<1>11. Agree(index'.bal, index'.supply, index'.bonds, Committed',
            faults' = 0 /\ job'[j].pc = "idle")
  BY <1>3, <1>4, <1>8, <1>9 DEF Agree
<1> QED
  BY <1>2, <1>3, <1>4, <1>6, <1>7, <1>10, <1>11, ReplayStep

\* A job that is done leaves an index that is as exact as its chain.
LEMMA ReplayDone ==
  ASSUME IndexInv, ReplayInv, NEW j \in Jobs, job[j].pc = "done"
  PROVE  /\ Committed = Target(j)
         /\ Agree(index.bal, index.supply, index.bonds, Committed,
                  faults = 0 \/ mode = "reindex")
         /\ \A i \in Jobs : batch[i].map = NoMap /\ batch[i].supply = 0
<1>1. Replays(j) /\ index.supply \in Int /\ index.bal \in [Payloads -> Nat]
  BY ReplayFacts
<1>2. \A i \in Jobs : batch[i].map = NoMap /\ batch[i].supply = 0
  BY OtherQuiet DEF ReplayInv, Quiet
<1>3. Over(NoMap, index.bal) = index.bal /\ index.supply + 0 = index.supply
  BY <1>1, EmptyTypes DEF Over
<1>4. Committed = Target(j)
  BY FlushedChain DEF Flushed
<1>5. Agree(index.bal, index.supply, index.bonds, Committed, faults = 0 \/ mode = "reindex")
  BY <1>1, <1>2, <1>3, <1>4 DEF Replays
<1> QED
  BY <1>2, <1>4, <1>5

\* The end of a job leaves the index alone.
LEMMA ReplayEnd ==
  ASSUME IndexInv, ReplayInv, EndAdd \/ EndBulk, Committed' = Committed
  PROVE  ReplayInv'
<1>1. PICK j \in Jobs : job[j].pc = "done" /\ job' = [job EXCEPT ![j] = Idle]
  BY DEF EndAdd, EndBulk, Jobs
<1>2. job \in [Jobs -> JobRecords] /\ batch' = batch /\ index' = index /\ faults' = faults
  BY DEF EndAdd, EndBulk, IndexInv, TypeOK
<1>3. \A i \in Jobs : job'[i].pc = "idle"
  BY <1>1, <1>2, OtherQuiet DEF Idle, Quiet
<1>4. /\ Agree(index.bal, index.supply, index.bonds, Committed,
                  faults = 0 \/ mode = "reindex")
      /\ \A i \in Jobs : batch[i].map = NoMap /\ batch[i].supply = 0
  BY <1>1, ReplayDone
<1>5. Agree(index'.bal, index'.supply, index'.bonds, Committed', faults' = 0)
  BY <1>2, <1>4 DEF Agree
<1> QED
  BY <1>2, <1>3, <1>4, <1>5, QuietStep

-----------------------------------------------------------------------------
(* The log of a node that has not failed, and of one that re-indexes       *)

\* A running node that writes no whole record.
LEMMA WholeUp ==
  ASSUME TypeOK, WholeInv, mode = "up", mode' = "up", faults' = faults, tail' = tail,
       head' = head,
         log' = log \/ \E x \in Pieces : log' = Append(log, x)
  PROVE  WholeInv'
<1>1. Starts(head) => Starts(head)'
  <2> SUFFICES ASSUME Starts(head), NEW h \in 0..Height(head)
               PROVE  Stored(log', RecordLen * h, SubSeq(head, 1, h + 1))
    BY DEF Starts
  <2>1. Stored(log, RecordLen * h, SubSeq(head, 1, h + 1)) /\ RecordLen * h \in Nat
    BY DEF Starts, RecordLen
  <2>2. log \in Seq(Pieces)
    BY DEF TypeOK
  <2>3. \A x \in Pieces : Stored(Append(log, x), RecordLen * h, SubSeq(head, 1, h + 1))
    BY <2>1, <2>2, StoredAppend
  <2> QED
    BY <2>1, <2>3
<1> QED
  BY <1>1 DEF WholeInv

\* A re-index that leaves the log alone.
LEMMA WholeScan ==
  ASSUME WholeInv, mode' = "reindex", mode = "reindex", faults' = faults, log' = log,
         DOMAIN Places("bulk")' \subseteq
           0..Height(IF job'["bulk"].pc \in {"index", "place"} THEN Parent(job'["bulk"].block)
                                                              ELSE job'["bulk"].block),
         job'["bulk"].pc \in Flushed \cup {"flushpos", "flushbal", "flushheight"} =>
           Len(log) = RecordLen * Len(job'["bulk"].block)
  PROVE  WholeInv'
BY DEF WholeInv, Starts

\* A running node that works on nothing has committed its head.
LEMMA QuietHead ==
  ASSUME IndexInv', mode' = "up", \A j \in Jobs : job'[j].pc = "idle"
  PROVE  Committed' = head'
<1>1. head' \in Blocks /\ index'.height = Height(head')
  BY DEF IndexInv, TypeOK, HeadInv
<1>2. Chained(log', Places("add")', head') /\ batch'["add"].ops = NoMap
  BY DEF IndexInv, HeadInv, OneJob, Quiet, Jobs
<1>3. Chained(log', index'.pos, head')
  BY <1>1, <1>2, OverNoMap DEF Places
<1> QED
  BY <1>1, <1>3, CommittedBecomes

\* A started process works on nothing, over the chain that is committed.
LEMMA WholeStart ==
  ASSUME Calm, IndexInv, WholeInv, Start
  PROVE  WholeInv'
BY DEF WholeInv, Start, Starts

\* A re-index starts over a log that nothing has touched.
LEMMA WholeStartReindex ==
  ASSUME Calm, IndexInv, IndexInv', WholeInv, StartReindex
  PROVE  WholeInv'
<1>1. /\ mode = "down" /\ mode' = "reindex" /\ log' = log /\ batch' = batch /\ faults' = faults
      /\ index'.pos = NoMap /\ "bulk" \in Jobs /\ job \in [Jobs -> JobRecords]
      /\ job["bulk"] = Idle /\ batch["bulk"] = EmptyBatch
  BY DEF StartReindex, EmptyIndex, IndexInv, TypeOK, OneJob, Jobs
<1>2. job'["bulk"].pc = "scan"
  BY <1>1 DEF StartReindex, JobRecords
<1>3. DOMAIN Places("bulk")' = {}
  BY <1>1, EmptyTypes DEF Places, Over
<1>4. faults = 0 => \E b \in {NoBlock} \cup {log[i].block : i \in 1..Len(log)} :
                      Len(log) = RecordLen * Len(b) /\ Starts(b)
  <2> SUFFICES ASSUME faults = 0
               PROVE  \E b \in {NoBlock} \cup {log[i].block : i \in 1..Len(log)} :
                        Len(log) = RecordLen * Len(b) /\ Starts(b)
    OBVIOUS
  <2>1. Len(log) = RecordLen * Len(Committed) /\ Starts(Committed)
    BY <1>1 DEF WholeInv
  <2>2. Committed \in {NoBlock} \cup {log[i].block : i \in 1..Len(log)}
    <3>1. CASE Committed = NoBlock
      BY <3>1
    <3>2. CASE Committed # NoBlock
      <4>1. /\ HeadValid /\ index.height # NoHeight
            /\ Committed = log[index.pos[index.height] + 1].block
        BY <3>2 DEF Committed, BlockAt
      <4>2. /\ index.pos[index.height] \in Nat /\ Len(log) \in Nat
            /\ index.pos[index.height] + RecordLen <= Len(log)
        BY <4>1 DEF HeadValid, Readable, IndexInv, TypeOK, IsMap
      <4>3. index.pos[index.height] + 1 \in 1..Len(log)
        BY <4>2 DEF RecordLen
      <4> QED
        BY <4>1, <4>3
    <3> QED
      BY <3>1, <3>2
  <2> QED
    BY <2>1, <2>2
<1>5. faults = 0 => \E b \in {NoBlock} \cup {log'[i].block : i \in 1..Len(log')} :
                      Len(log') = RecordLen * Len(b) /\ Starts(b)'
  BY <1>1, <1>4 DEF Starts
<1> QED
  BY <1>1, <1>2, <1>3, <1>5 DEF WholeInv, Flushed

\* A process that stops at rest leaves its chain in the log; a crash is a failure.
LEMMA WholeStop ==
  ASSUME Calm, IndexInv, WholeInv, Stop \/ Crash, Committed' = Committed
  PROVE  WholeInv'
<1>1. CASE Stop
  <2>1. Committed = head /\ mode = "up"
    BY <1>1, CommittedIsHead DEF Stop, Quiet
  <2>2. tail = Len(log)
    BY <1>1 DEF Stop, Quiet, IndexInv, TailIsEnd
  <2> QED
    BY <1>1, <2>1, <2>2 DEF Stop, Forget, WholeInv, Starts
<1>2. CASE Crash
  <2>1. faults' # 0
    BY <1>2 DEF Crash, IndexInv, TypeOK
  <2> QED
    BY <1>2, <2>1 DEF Crash, Forget, WholeInv
<1> QED
  BY <1>1, <1>2

\* A log that has not failed is one chain: no record of it stops a re-index.
LEMMA ScanGoesOn ==
  ASSUME Calm, IndexInv, WholeInv, faults = 0
  PROVE  ~ScanFails
<1> SUFFICES ASSUME ScanFails
             PROVE  FALSE
  OBVIOUS
<1> DEFINE r == job["bulk"]
           c == r.block
<1>1. /\ r.pc = "scan" /\ r.off < tail /\ c \in Blocks /\ Len(c) \in Nat /\ "bulk" \in Jobs
  BY DEF ScanFails, IndexInv, TypeOK, JobRecords, Jobs, Blocks
<1>2. mode = "reindex"
  BY <1>1, OtherQuiet DEF IndexInv, JobInv
<1>3. tail = Len(log) /\ r.off = RecordLen * Len(c) /\ Scanned(c)
  BY <1>1, <1>2 DEF IndexInv, TailIsEnd, ScanInv, OneJob, Quiet, Jobs
<1>4. PICK b \in {NoBlock} \cup {log[i].block : i \in 1..Len(log)} :
             Len(log) = RecordLen * Len(b) /\ Starts(b)
  BY <1>2 DEF WholeInv
<1>5. b \in Blocks /\ Len(b) \in Nat
  <2>1. \A i \in 1..Len(log) : log[i] \in Pieces
    BY DEF IndexInv, TypeOK
  <2>2. \A i \in 1..Len(log) : log[i].block \in Blocks
    BY <2>1 DEF Pieces
  <2>3. b \in Blocks
    BY <1>4, <2>2, IdleType
  <2> QED
    BY <2>3 DEF Blocks
<1>6. Len(c) < Len(b)
  BY <1>1, <1>3, <1>4, <1>5 DEF RecordLen
<1>7. Stored(log, r.off, SubSeq(b, 1, Len(c) + 1))
  BY <1>1, <1>3, <1>4, <1>5, <1>6 DEF Starts, Height
<1>8. c # NoBlock /\ ~ScanStuck /\ Parent(BlockAt(log, r.off)) # c
  BY <1>7 DEF ScanFails, Stored
<1>9. Len(c) > 0
  BY <1>1, <1>8 DEF NoBlock, Blocks
<1>10. Parent(SubSeq(b, 1, Len(c) + 1)) = SubSeq(b, 1, Len(c))
  <2>1. Len(c) + 1 \in 0..Len(b) /\ Len(c) \in 0..Len(b) /\ b \in Seq(Payloads)
    BY <1>1, <1>5, <1>6 DEF Blocks
  <2>2. /\ SubSeq(b, 1, Len(c) + 1) \in Seq(Payloads)
        /\ Len(SubSeq(b, 1, Len(c) + 1)) = Len(c) + 1
        /\ \A i \in 1..(Len(c) + 1) : SubSeq(b, 1, Len(c) + 1)[i] = b[i]
    BY <2>1, PrefixOf
  <2>3. /\ SubSeq(b, 1, Len(c)) \in Seq(Payloads) /\ Len(SubSeq(b, 1, Len(c))) = Len(c)
        /\ \A i \in 1..Len(c) : SubSeq(b, 1, Len(c))[i] = b[i]
    BY <2>1, PrefixOf
  <2>4. PICK d : d = SubSeq(b, 1, Len(c) + 1)
    OBVIOUS
  <2>5. Len(c) \in 0..Len(d) /\ d \in Seq(Payloads) /\ (Len(c) + 1) - 1 = Len(c)
    BY <1>1, <2>2, <2>4
  <2>6. /\ SubSeq(d, 1, Len(c)) \in Seq(Payloads) /\ Len(SubSeq(d, 1, Len(c))) = Len(c)
        /\ \A i \in 1..Len(c) : SubSeq(d, 1, Len(c))[i] = d[i]
    BY <2>5, PrefixOf
  <2>7. \A i \in 1..Len(c) : SubSeq(d, 1, Len(c))[i] = SubSeq(b, 1, Len(c))[i]
    BY <1>1, <2>2, <2>3, <2>4, <2>6
  <2>8. SubSeq(d, 1, Len(c)) = SubSeq(b, 1, Len(c))
    BY ONLY <2>3, <2>6, <2>7, SeqEqual
  <2>9. Parent(d) = SubSeq(d, 1, Len(c))
    BY <2>2, <2>4, <2>5 DEF Parent
  <2> QED
    BY <2>4, <2>8, <2>9
<1>11. c = SubSeq(b, 1, Len(c))
  <2>1. Height(c) \in 0..Height(c) /\ Height(c) \in 0..Height(b) /\ Height(c) + 1 = Len(c)
    BY <1>1, <1>5, <1>6, <1>9 DEF Height
  <2>2. Stored(log, RecordLen * Height(c), SubSeq(c, 1, Len(c)))
    BY <1>3, <2>1 DEF Scanned
  <2>3. Stored(log, RecordLen * Height(c), SubSeq(b, 1, Len(c)))
    BY <1>4, <2>1 DEF Starts
  <2>4. SubSeq(c, 1, Len(c)) = c
    BY <1>1, <1>9, PrefixFacts
  <2> QED
    BY <2>2, <2>3, <2>4 DEF Stored
<1> QED
  BY <1>7, <1>8, <1>10, <1>11 DEF Stored

\* In a log that has not failed no record stops a scan.
LEMMA WholeScanFails ==
  ASSUME Calm, IndexInv, WholeInv, ScanFails
  PROVE  WholeInv' /\ faults # 0
BY ScanGoesOn DEF ScanFails, Forget, WholeInv

\* What a re-index has found, where the job is.
LEMMA ScanFacts ==
  ASSUME Calm, IndexInv, WholeInv, mode = "reindex"
  PROVE  LET r == job["bulk"] IN
         /\ "bulk" \in Jobs /\ r.block \in Blocks /\ Len(r.block) \in Nat
         /\ job \in [Jobs -> JobRecords] /\ r.pc # "idle"
         /\ r.pc \in {"scan", "index", "place", "done"} \cup Unflushed \cup Flushed
         /\ DOMAIN Places("bulk") \subseteq
              0..Height(IF r.pc \in {"index", "place"} THEN Parent(r.block) ELSE r.block)
         /\ r.pc \in Flushed \cup {"flushpos", "flushbal", "flushheight"} =>
              Len(log) = RecordLen * Len(r.block)
         /\ r.pc \in {"index", "place"} => Len(r.block) > 0
<1>1. /\ "bulk" \in Jobs /\ job["bulk"].block \in Blocks /\ Len(job["bulk"].block) \in Nat
      /\ job \in [Jobs -> JobRecords]
  BY DEF IndexInv, TypeOK, JobRecords, Jobs, Blocks
<1>2. job["bulk"].pc # "idle"
  BY DEF IndexInv, OneJob, Quiet
<1>3. /\ job["bulk"].pc \in {"scan", "index", "place", "done"} \cup Unflushed \cup Flushed
      /\ job["bulk"].pc \in {"index", "place"} => job["bulk"].block # NoBlock
  BY DEF IndexInv, ScanInv
<1>4. job["bulk"].block # NoBlock => Len(job["bulk"].block) > 0
  BY <1>1 DEF Blocks, NoBlock
<1> QED
  BY <1>1, <1>2, <1>3, <1>4 DEF WholeInv

\* A record that follows the chain of the scan is its next block.
LEMMA WholeScanRecord ==
  ASSUME Calm, IndexInv, WholeInv, ScanRecord, Parent(job'["bulk"].block) = job["bulk"].block
  PROVE  WholeInv'
<1>1. mode = "reindex"
  BY OtherQuiet DEF ScanRecord, IndexInv, JobInv, Jobs
<1>2. /\ DOMAIN Places("bulk") \subseteq 0..Height(job["bulk"].block)
      /\ job'["bulk"].pc = "index"
  BY <1>1, ScanFacts DEF ScanRecord, JobRecords
<1>3. Places("bulk")' = Places("bulk")
  BY DEF Places, ScanRecord
<1> QED
  BY <1>1, <1>2, <1>3, WholeScan DEF ScanRecord, Flushed

\* A scan that finds the end of the log has read all of it.
LEMMA WholeScanEnd ==
  ASSUME Calm, IndexInv, WholeInv, ScanEnd
  PROVE  WholeInv'
<1> DEFINE c == job["bulk"].block
<1>1. mode = "reindex"
  BY OtherQuiet DEF ScanEnd, IndexInv, JobInv, Jobs
<1>2. /\ DOMAIN Places("bulk") \subseteq 0..Height(c) /\ c \in Blocks /\ Len(c) \in Nat
      /\ job'["bulk"].block = c /\ job'["bulk"].pc \in {"done", "flushpos"}
  BY <1>1, ScanFacts DEF ScanEnd, Goto, JobRecords
<1>3. Places("bulk")' = Places("bulk")
  BY DEF Places, ScanEnd
<1>4. /\ tail = Len(log) /\ job["bulk"].off = RecordLen * Len(c) /\ Scanned(c)
      /\ tail \in Nat /\ job["bulk"].off >= tail
  BY <1>1 DEF ScanEnd, IndexInv, TypeOK, TailIsEnd, ScanInv, OneJob, Quiet, Jobs
<1>5. RecordLen * Len(c) <= Len(log)
  <2>1. CASE Len(c) = 0
    BY <1>4, <2>1 DEF RecordLen
  <2>2. CASE Len(c) > 0
    <3>1. Height(c) \in 0..Height(c) /\ RecordLen * Height(c) + RecordLen = RecordLen * Len(c)
      BY <1>2, <2>2 DEF Height, RecordLen
    <3> QED
      BY <1>4, <3>1 DEF Scanned, Stored, Readable
  <2> QED
    BY <1>2, <2>1, <2>2
<1>6. Len(log) = RecordLen * Len(c)
  BY <1>2, <1>4, <1>5 DEF RecordLen
<1> QED
  BY <1>1, <1>2, <1>3, <1>6, WholeScan DEF ScanEnd

\* A scan that finds a broken tail cuts the log to the chain it has read.
LEMMA WholeScanTrim ==
  ASSUME Calm, IndexInv, IndexInv', WholeInv, ScanTrim
  PROVE  WholeInv'
<1> DEFINE c == job["bulk"].block
<1>1. mode = "reindex" /\ mode' = mode
  BY OtherQuiet DEF ScanTrim, IndexInv, JobInv, Jobs
<1>2. /\ DOMAIN Places("bulk") \subseteq 0..Height(c) /\ c \in Blocks /\ Len(c) \in Nat
      /\ job'["bulk"].block = c /\ job'["bulk"].pc = "flushpos" /\ c # NoBlock
  BY <1>1, ScanFacts DEF ScanTrim, Goto, JobRecords
<1>3. Places("bulk")' = Places("bulk")
  BY DEF Places, ScanTrim
<1>4. \A h \in 0..Height(c) : Stored(log, RecordLen * h, SubSeq(c, 1, h + 1))
  BY <1>1 DEF ScanTrim, IndexInv, ScanInv, Scanned
<1>5. Len(log') = RecordLen * Len(c)
  <2>1. /\ ChopPoint(log, Height(c)) = RecordLen * Len(c) /\ RecordLen * Len(c) <= Len(log)
        /\ log \in Seq(Pieces)
    BY <1>2, <1>4, ChopsBehindHead DEF IndexInv, TypeOK
  <2>2. RecordLen * Len(c) \in 0..Len(log) /\ log' = SubSeq(log, 1, RecordLen * Len(c))
    BY <1>2, <2>1 DEF ScanTrim, RecordLen
  <2> QED
    BY <2>1, <2>2, PrefixOf
<1>6. \A h \in 0..Height(c) : Stored(log', RecordLen * h, SubSeq(c, 1, h + 1))
  BY <1>1, <1>2 DEF IndexInv, ScanInv, Scanned
<1>7. c \in {log'[i].block : i \in 1..Len(log')}
  <2>1. Height(c) \in 0..Height(c) /\ Height(c) + 1 = Len(c) /\ Len(c) > 0
    BY <1>2 DEF Height, NoBlock, Blocks
  <2>2. SubSeq(c, 1, Height(c) + 1) = c
    BY <1>2, <2>1, PrefixFacts
  <2>3. Stored(log', RecordLen * Height(c), c)
    BY <1>6, <2>1, <2>2
  <2>4. RecordLen * Height(c) + 1 \in 1..Len(log')
    BY <1>2, <1>5, <2>1 DEF RecordLen
  <2>5. c = log'[RecordLen * Height(c) + 1].block
    BY <2>3 DEF Stored, BlockAt
  <2> QED
    BY <2>4, <2>5
<1>8. Starts(c)'
  BY <1>2, <1>6 DEF Starts
<1> QED
  BY <1>1, <1>2, <1>3, <1>5, <1>7, <1>8 DEF WholeInv

\* The position that is noted is that of the block at work.
LEMMA WholePlace ==
  ASSUME Calm, IndexInv, WholeInv, Place
  PROVE  WholeInv'
<1> DEFINE c == job["bulk"].block
<1>1. mode = "reindex"
  BY OtherQuiet DEF Place, IndexInv, JobInv, Jobs
<1>2. /\ DOMAIN Places("bulk") \subseteq 0..Height(Parent(c)) /\ c \in Blocks /\ Len(c) \in Nat
      /\ job'["bulk"].block = c /\ job'["bulk"].pc = "mayflush" /\ Len(c) > 0
  BY <1>1, ScanFacts DEF Place, JobRecords
<1>3. batch'["bulk"].ops = Put(batch["bulk"].ops, Height(c), job["bulk"].off) /\ index' = index
  BY DEF Place, IndexInv, TypeOK, Jobs
<1>4. DOMAIN Places("bulk")' = DOMAIN Places("bulk") \cup {Height(c)}
  BY <1>3 DEF Places, Put, Over
<1>5. Height(Parent(c)) = Height(c) - 1 /\ Height(c) \in Nat
  BY <1>2, PrefixFacts DEF Height
<1>6. DOMAIN Places("bulk")' \subseteq 0..Height(c)
  BY <1>2, <1>4, <1>5
<1> QED
  BY <1>1, <1>2, <1>6, WholeScan DEF Place, Flushed

\* WritePositions leaves where the index will find the blocks.
LEMMA PlacesKept ==
  ASSUME TypeOK, NEW j \in Jobs, WritePositions(j)
  PROVE  DOMAIN Places(j)' = DOMAIN Places(j)
<1>1. batch'[j].ops = NoMap /\ index'.pos = Over(batch[j].ops, index.pos)
  BY DEF WritePositions, TypeOK
<1> QED
  BY <1>1, EmptyTypes DEF Places, Over

\* Indexing and flushing leave the log alone.
LEMMA WholeIndexing ==
  ASSUME Calm, IndexInv, WholeInv, NEW j \in Jobs,
         IndexTxs(j) \/ MayFlush(j) \/ Flush(j)
  PROVE  WholeInv'
<1>1. /\ job[j].pc \in {"index"} \cup Unflushed \cup Flushed /\ job[j].pc # "idle"
      /\ log' = log /\ mode' = mode /\ head' = head /\ tail' = tail /\ faults' = faults
  BY DEF IndexTxs, MayFlush, Flush, FlushPos, FlushBal, FlushHeight, ReadSupply,
         WriteSupply, Unflushed, Flushed
<1>2. mode \in {"up", "reindex"} /\ (mode = "reindex" => j = "bulk") /\ TypeOK
  BY <1>1, OtherQuiet DEF IndexInv
<1>3. CASE mode = "up"
  BY <1>1, <1>2, <1>3, WholeUp
<1>4. CASE mode = "reindex"
  <2> DEFINE c == job["bulk"].block
  <2>1. /\ "bulk" \in Jobs /\ job \in [Jobs -> JobRecords]
        /\ DOMAIN Places("bulk") \subseteq
             0..Height(IF job["bulk"].pc \in {"index", "place"} THEN Parent(c) ELSE c)
        /\ job["bulk"].pc \in Flushed \cup {"flushpos", "flushbal", "flushheight"} =>
             Len(log) = RecordLen * Len(c)
    BY <1>4, ScanFacts
  <2>2. CASE IndexTxs(j)
    <3>1. /\ job'["bulk"].pc = "place" /\ job'["bulk"].block = c /\ job["bulk"].pc = "index"
          /\ batch'["bulk"].ops = batch["bulk"].ops /\ index'.pos = index.pos
      BY <1>2, <1>4, <2>1, <2>2 DEF IndexTxs, JobRecords, TypeOK
    <3> QED
      BY <1>1, <1>4, <2>1, <3>1, WholeScan DEF Places, Flushed
  <2>3. CASE MayFlush(j)
    <3>1. /\ job'["bulk"].pc = "scan" /\ job'["bulk"].block = c /\ job["bulk"].pc = "mayflush"
      BY <1>2, <1>4, <2>1, <2>3 DEF MayFlush, Goto, JobRecords
    <3>2. DOMAIN Places("bulk")' = DOMAIN Places("bulk")
      BY <1>2, <1>4, <2>3, PlacesKept DEF MayFlush, Places
    <3> QED
      BY <1>1, <1>4, <2>1, <3>1, <3>2, WholeScan DEF Flushed
  <2>4. CASE Flush(j)
    <3>1. /\ job'["bulk"].pc \in Flushed \cup {"flushbal", "flushheight"}
          /\ job'["bulk"].block = c
          /\ job["bulk"].pc \in Flushed \cup {"flushpos", "flushbal", "flushheight"}
      BY <1>2, <1>4, <2>1, <2>4
      DEF Flush, FlushPos, FlushBal, FlushHeight, ReadSupply, WriteSupply, Goto, NextPhase,
          JobRecords, Flushed
    <3>2. DOMAIN Places("bulk")' = DOMAIN Places("bulk")
      <4>1. CASE FlushPos(j)
        BY <1>2, <1>4, <4>1, PlacesKept DEF FlushPos
      <4>2. CASE ~FlushPos(j)
        <5>1. batch'["bulk"].ops = batch["bulk"].ops /\ index'.pos = index.pos
          <6>1. CASE FlushBal(j) \/ FlushHeight(j) \/ ReadSupply(j)
            BY <1>2, <6>1 DEF FlushBal, FlushHeight, ReadSupply, TypeOK
          <6>2. CASE WriteSupply(j)
            <7>1. index'.pos = index.pos
              BY <1>2, <6>2 DEF WriteSupply, TypeOK
            <7> QED
              BY <1>2, <2>1, <6>2, <7>1 DEF WriteSupply, TypeOK
          <6> QED
            BY <2>4, <4>2, <6>1, <6>2 DEF Flush
        <5> QED
          BY <5>1 DEF Places
      <4> QED
        BY <4>1, <4>2
    <3>3. ~(job'["bulk"].pc \in {"index", "place"}) /\ ~(job["bulk"].pc \in {"index", "place"})
      BY <3>1 DEF Flushed
    <3> QED
      BY <1>1, <1>4, <2>1, <3>1, <3>2, <3>3, WholeScan
  <2> QED
    BY <2>2, <2>3, <2>4
<1> QED
  BY <1>2, <1>3, <1>4

\* The checksum completes the record behind the chain of the node.
LEMMA WholeWriteCrc ==
  ASSUME Calm, IndexInv, WholeInv, NEW j \in Jobs, WriteCrc(j)
  PROVE  WholeInv'
<1> DEFINE b == job[j].block
<1>1. /\ job[j].pc = "crc" /\ b \in Blocks /\ log \in Seq(Pieces) /\ tail \in Nat
      /\ head \in Blocks /\ faults' = faults /\ mode' = mode
      /\ head' = b /\ tail' = tail + RecordLen /\ log' = Append(log, Piece(b, "crc"))
  BY DEF WriteCrc, IndexInv, TypeOK, JobRecords
<1>2. mode = "up"
  BY <1>1, OtherQuiet DEF IndexInv, ScanInv, Unflushed, Flushed
<1>3. /\ Len(log) = tail + 2 /\ log[tail + 1] = Piece(b, "len")
      /\ log[tail + 2] = Piece(b, "body")
  BY <1>1, <1>2 DEF IndexInv, TailIsEnd
<1>4. Parent(b) = head /\ Len(b) = Len(head) + 1 /\ Len(head) \in Nat
  BY <1>1, <1>2 DEF IndexInv, JobInv, Writing, Blocks
<1>5. Piece(b, "crc") \in Pieces
  BY <1>1 DEF Piece, Pieces, Parts
<1>6. Stored(log', tail, b)
  <2>1. /\ Len(log') = tail + 3 /\ log'[tail + 1] = Piece(b, "len")
        /\ log'[tail + 2] = Piece(b, "body") /\ log'[tail + 3] = Piece(b, "crc")
    BY <1>1, <1>3, <1>5
  <2> QED
    BY <1>1, <2>1 DEF Stored, Readable, BlockAt, RecordLen, Piece
<1>7. ASSUME faults = 0
      PROVE  tail' = RecordLen * Len(head') /\ Starts(head)'
  <2>1. tail = RecordLen * Len(head) /\ Starts(head)
    BY <1>2, <1>7 DEF WholeInv
  <2>2. tail' = RecordLen * Len(b) /\ tail = RecordLen * Height(b) /\ Height(b) = Len(head)
    BY <1>1, <1>4, <2>1 DEF RecordLen, Height
  <2>3. ASSUME NEW h \in 0..Height(b)
        PROVE  Stored(log', RecordLen * h, SubSeq(b, 1, h + 1))
    <3>1. /\ SubSeq(b, 1, Len(b)) = b
          /\ \A k \in 0..(Len(b) - 2) : SubSeq(b, 1, k + 1) = SubSeq(head, 1, k + 1)
      <4>1. Len(b) > 0
        BY <1>4
      <4> QED
        BY <1>1, <1>4, <4>1, PrefixFacts
    <3>2. CASE h = Height(b)
      <4>1. h + 1 = Len(b)
        BY <1>4, <2>2, <3>2
      <4> QED
        BY <1>6, <2>2, <3>1, <3>2, <4>1
    <3>3. CASE h # Height(b)
      <4>1. h \in 0..Height(head) /\ h \in 0..(Len(b) - 2) /\ RecordLen * h \in Nat
        <5>1. h \in Nat /\ h < Len(head)
          BY <1>4, <2>2, <3>3
        <5> QED
          BY <1>4, <5>1 DEF Height, RecordLen
      <4>2. Stored(log, RecordLen * h, SubSeq(head, 1, h + 1))
        BY <2>1, <4>1 DEF Starts
      <4>3. Stored(log', RecordLen * h, SubSeq(head, 1, h + 1))
        BY <1>1, <1>5, <4>1, <4>2, StoredAppend
      <4> QED
        BY <3>1, <4>1, <4>3
    <3> QED
      BY <3>2, <3>3
  <2>4. \A h \in 0..Height(head') : Stored(log', RecordLen * h, SubSeq(head', 1, h + 1))
    BY <1>1, <2>3
  <2> QED
    BY <1>1, <2>2, <2>4 DEF Starts
<1> QED
  BY <1>1, <1>2, <1>7 DEF WholeInv

\* The end of a re-index or of a synchronization.
LEMMA WholeEndBulk ==
  ASSUME Calm, IndexInv, IndexInv', ReplayInv, WholeInv, EndBulk, Committed' = Committed
  PROVE  /\ WholeInv'
         /\ head' = Target("bulk")
         /\ mode = "reindex" => tail = Len(log)
<1>1. /\ job["bulk"].pc = "done" /\ "bulk" \in Jobs /\ job \in [Jobs -> JobRecords]
      /\ log' = log /\ tail' = tail /\ faults' = faults /\ mode' = "up"
      /\ job' = [job EXCEPT !["bulk"] = Idle] /\ TypeOK
  BY DEF EndBulk, IndexInv, TypeOK, Jobs
<1>2. mode \in {"up", "reindex"} /\ \A i \in Jobs \ {"bulk"} : Quiet(i)
  BY <1>1, OtherQuiet
<1>3. \A i \in Jobs : job'[i].pc = "idle"
  BY <1>1, <1>2 DEF Quiet, Idle
<1>4. Committed' = head' /\ Committed = Target("bulk")
  BY <1>1, <1>3, QuietHead, ReplayDone
<1>5. CASE mode = "up"
  <2>1. head' = head
    BY <1>1, <1>4, <1>5 DEF Target, Writing
  <2> QED
    BY <1>1, <1>4, <1>5, <2>1, WholeUp
<1>6. CASE mode = "reindex"
  <2>1. Target("bulk") = job["bulk"].block
    BY <1>1, <1>6 DEF Target
  <2>2. Len(log) = RecordLen * Len(job["bulk"].block) /\ Scanned(job["bulk"].block)
    BY <1>1, <1>6 DEF WholeInv, Flushed, IndexInv, ScanInv
  <2>3. tail = Len(log)
    BY <1>1, <1>2, <1>6 DEF IndexInv, TailIsEnd, Quiet
  <2>4. Starts(head)'
    BY <1>1, <1>4, <2>1, <2>2 DEF Starts, Scanned
  <2> QED
    BY <1>1, <1>4, <2>1, <2>2, <2>3, <2>4 DEF WholeInv
<1> QED
  BY <1>2, <1>5, <1>6

-----------------------------------------------------------------------------
(* The theorems                                                            *)

\* An empty node.
LEMMA InitLedger ==
  ASSUME Init
  PROVE  LedgerInv
<1>1. IndexInv
  BY InitInv
<1>2. /\ Committed = NoBlock /\ mode = "down" /\ log = << >> /\ index = EmptyIndex
      /\ \A j \in Jobs : job[j].pc = "idle" /\ batch[j].map = NoMap /\ batch[j].supply = 0
  BY EmptyTypes DEF Init, Committed, EmptyIndex, Idle, EmptyBatch
<1>3. ReplayInv
  <2>1. Agree(index.bal, index.supply, index.bonds, Committed,
              faults = 0 /\ \A j \in Jobs : Quiet(j))
    BY <1>2, AgreeNothing DEF EmptyIndex
  <2> QED
    BY <1>2, <2>1 DEF ReplayInv, Quiet, Flushed
<1>4. WholeInv
  <2>1. Len(log) = RecordLen * Len(NoBlock) /\ Starts(NoBlock)
    BY <1>2, IdleType DEF Starts, Height, RecordLen
  <2> QED
    BY <1>2, <2>1 DEF WholeInv
<1> QED
  BY <1>1, <1>3, <1>4 DEF LedgerInv

\* Every step keeps the index and the replay in agreement.
LEMMA NextReplay ==
  ASSUME Calm, LedgerInv, Next
  PROVE  ReplayInv'
<1>1. IndexInv /\ ReplayInv /\ WholeInv
  BY DEF LedgerInv
<1>2. \/ Committed' = Committed
      \/ StartReindex /\ Committed' = NoBlock
      \/ \E j \in Jobs : FlushHeight(j) /\ Committed' = Target(j)
  BY <1>1, CommittedStep
<1>3. CASE StartReindex
  <2>1. Committed' = NoBlock
    BY <1>3 DEF StartReindex, EmptyIndex, Committed, NoHeight
  <2> QED
    BY <1>1, <1>3, <2>1, ReplayStartReindex
<1>4. CASE \E j \in Jobs : FlushHeight(j) /\ Committed' = Target(j)
  BY <1>1, <1>4, ReplayFlushHeight
<1>5. CASE Committed' = Committed
  <2>1. CASE Start
    BY <1>1, <1>5, <2>1, ReplayStart
  <2>2. CASE Stop
    BY <1>1, <1>5, <2>2, ReplayForget DEF Stop
  <2>3. CASE Crash
    <3>1. faults' # 0
      BY <1>1, <2>3 DEF Crash, IndexInv, TypeOK
    <3> QED
      BY <1>1, <1>5, <2>3, <3>1, ReplayForget DEF Crash
  <2>4. CASE Add
    BY <1>1, <1>5, <2>4, PayloadAssumption, ReplayCreateGenesis, ReplayBeginAdd,
       ReplayRejectBlock
    DEF Add
  <2>5. CASE Sync
    BY <1>1, <1>5, <2>5, ReplayBeginSync, ReplayFetch DEF Sync
  <2>6. CASE Scan
    <3>1. CASE ScanFails
      <4>1. faults # 0
        BY <1>1, <3>1, ScanGoesOn
      <4> QED
        BY <1>1, <1>5, <3>1, <4>1, ReplayForget DEF ScanFails
    <3> QED
      BY <1>1, <1>5, <2>6, <3>1, ReplayScanRecord, ReplayScanEnds, ReplayPlace DEF Scan
  <2>7. CASE EndAdd \/ EndBulk
    BY <1>1, <1>5, <2>7, ReplayEnd
  <2>8. ~EndSyncHeadless
    BY <1>1 DEF EndSyncHeadless, IndexInv, JobInv, Flushed, Jobs
  <2>9. ASSUME NEW j \in Jobs, IndexBlock(j) \/ Flush(j)
        PROVE  ReplayInv'
    <3>1. CASE FlushHeight(j)
      BY <1>1, <3>1, HeightCommits, ReplayFlushHeight
    <3>2. ~WriteFails(j)
      BY DEF WriteFails, Calm
    <3> QED
      BY <1>1, <1>5, <2>9, <3>1, <3>2, ReplayIndexTxs, ReplayWrite, ReplayFlushPositions,
         ReplayFlushBal, ReplayReadSupply, ReplayWriteSupply
      DEF IndexBlock, Flush
  <2> QED
    BY <1>3, <2>1, <2>2, <2>3, <2>4, <2>5, <2>6, <2>7, <2>8, <2>9 DEF Next
<1> QED
  BY <1>2, <1>3, <1>4, <1>5

\* Every step keeps the log as it is to be.
LEMMA NextWhole ==
  ASSUME Calm, LedgerInv, IndexInv', Next
  PROVE  WholeInv'
<1>1. IndexInv /\ ReplayInv /\ WholeInv /\ TypeOK
  BY DEF LedgerInv, IndexInv
<1>2. \/ Committed' = Committed
      \/ StartReindex
      \/ \E j \in Jobs : FlushHeight(j)
  BY <1>1, CommittedStep
<1>3. CASE Start \/ StartReindex
  BY <1>1, <1>3, WholeStart, WholeStartReindex
<1>4. CASE Stop \/ Crash
  <2>1. Committed' = Committed
    BY <1>4 DEF Stop, Crash, Committed, HeadValid
  <2> QED
    BY <1>1, <1>4, <2>1, WholeStop
<1>5. CASE Add
  <2>1. /\ mode = "up" /\ mode' = mode /\ faults' = faults /\ tail' = tail /\ head' = head
        /\ log' = log
    BY <1>5 DEF Add, CreateGenesis, BeginAdd, RejectBlock, MayBegin
  <2> QED
    BY <1>1, <2>1, WholeUp
<1>6. CASE Sync
  <2>1. /\ mode' = mode /\ faults' = faults /\ tail' = tail /\ head' = head /\ log' = log
    BY <1>6 DEF Sync, BeginSync, FetchBlock, EndFetch
  <2>2. mode = "up"
    <3>1. CASE BeginSync
      BY <3>1 DEF BeginSync, MayBegin
    <3>2. CASE ~BeginSync
      <4>1. job["bulk"].pc = "fetch" /\ "bulk" \in Jobs
        BY <1>6, <3>2 DEF Sync, FetchBlock, EndFetch, Jobs
      <4> QED
        BY <1>1, <4>1, OtherQuiet DEF IndexInv, ScanInv, Unflushed, Flushed
    <3> QED
      BY <3>1, <3>2
  <2> QED
    BY <1>1, <2>1, <2>2, WholeUp
<1>7. CASE Scan
  <2>1. CASE ScanRecord
    <3>1. Committed' = Committed
      BY <2>1 DEF ScanRecord, Committed, HeadValid
    <3> QED
      BY <1>1, <2>1, <3>1, ReplayScanRecord, WholeScanRecord
  <2> QED
    BY <1>1, <1>7, <2>1, WholeScanEnd, WholeScanTrim, WholePlace, WholeScanFails DEF Scan
<1>8. CASE EndAdd
  <2>1. mode = "up"
    BY <1>1, <1>8, OtherQuiet DEF EndAdd, Jobs
  <2> QED
    BY <1>1, <1>8, <2>1, WholeUp DEF EndAdd
<1>9. CASE EndBulk
  <2>1. Committed' = Committed
    BY <1>9 DEF EndBulk, Committed, HeadValid
  <2> QED
    BY <1>1, <1>9, <2>1, WholeEndBulk
<1>10. ~EndSyncHeadless
  BY <1>1 DEF EndSyncHeadless, IndexInv, JobInv, Flushed, Jobs
<1>11. ASSUME NEW j \in Jobs, IndexBlock(j) \/ Flush(j)
       PROVE  WholeInv'
  <2>1. CASE WritePart(j)
    <3>1. job[j].pc \in Writing /\ job[j].block \in Blocks
      BY <1>1, <2>1 DEF WritePart, Writing, TypeOK, JobRecords
    <3>2. mode = "up"
      BY <1>1, <3>1, OtherQuiet DEF IndexInv, ScanInv, Writing, Unflushed, Flushed
    <3>3. \E x \in Pieces : log' = Append(log, x)
      BY <2>1, <3>1 DEF WritePart, Piece, Pieces, Parts
    <3> QED
      BY <1>1, <2>1, <3>2, <3>3, WholeUp DEF WritePart
  <2>2. ~WriteFails(j)
    BY DEF WriteFails, Calm
  <2> QED
    BY <1>1, <1>11, <2>1, <2>2, WholeWriteCrc, WholeIndexing DEF IndexBlock
<1> QED
  BY <1>3, <1>4, <1>5, <1>6, <1>7, <1>8, <1>9, <1>10, <1>11 DEF Next

\* LedgerInv is inductive.
LEMMA LedgerInvNext ==
  ASSUME Calm, LedgerInv, [Next]_vars
  PROVE  LedgerInv'
<1>1. IndexInv'
  BY NextInv DEF LedgerInv
<1>2. CASE Next
  BY <1>1, <1>2, NextReplay, NextWhole DEF LedgerInv
<1>3. CASE UNCHANGED vars
  <2>1. ReplayInv'
    BY <1>3 DEF vars, LedgerInv, ReplayInv, Replays, Target, Quiet, Committed, HeadValid
  <2>2. WholeInv'
    BY <1>3 DEF vars, LedgerInv, WholeInv, Starts, Places, Committed, HeadValid
  <2> QED
    BY <1>1, <2>1, <2>2 DEF LedgerInv
<1> QED
  BY <1>2, <1>3

\* Log, index, head and jobs stay related, whatever crashes and when.
THEOREM LedgerInvariant == Calm => (Spec => []LedgerInv)
<1> SUFFICES ASSUME Calm
             PROVE  Spec => []LedgerInv
  OBVIOUS
<1>1. Init => LedgerInv
  BY InitLedger
<1>2. LedgerInv /\ [Next]_vars => LedgerInv'
  BY LedgerInvNext
<1> QED
  BY <1>1, <1>2, PTL DEF Spec

\* Whatever crashes, the supply in the index is what some blocks of the committed chain
\* mint and burn, none of them twice, and no block of another chain.
THEOREM SupplyCountsNothingTwice == Calm => (Spec => []SupplyWithinChain)
<1> SUFFICES ASSUME Calm
             PROVE  Spec => []SupplyWithinChain
  OBVIOUS
<1>1. LedgerInv => SupplyWithinChain
  BY DEF LedgerInv, ReplayInv, Agree, SupplyWithinChain
<1> QED
  BY <1>1, LedgerInvariant, PTL

\* No crash loses a payment or a bond of the committed chain.
THEOREM PaymentsAreKept == Calm => (Spec => []BalancesCoverChain)
<1> SUFFICES ASSUME Calm
             PROVE  Spec => []BalancesCoverChain
  OBVIOUS
<1>1. LedgerInv => BalancesCoverChain
  <2> SUFFICES ASSUME LedgerInv, NEW p \in Payloads, Count(Committed, p) > 0
               PROVE  /\ index.bal[p] >= Count(Committed, p)
                      /\ p \in Bonding => p \in index.bonds
    BY DEF BalancesCoverChain
  <2>1. /\ index.bal[p] >= Count(Committed, p)
        /\ Bonding \cap ToSet(Committed) \subseteq index.bonds
    BY DEF LedgerInv, ReplayInv, Agree
  <2>2. p \in ToSet(Committed)
    <3>1. {i \in 1..Len(Committed) : Committed[i] = p} # {}
      <4>1. SUFFICES ASSUME {i \in 1..Len(Committed) : Committed[i] = p} = {}
                     PROVE  FALSE
        OBVIOUS
      <4>2. Count(Committed, p) = 0
        BY <4>1, FS_EmptySet DEF Count
      <4> QED
        BY <4>2
    <3>2. Committed \in Seq(Payloads)
      BY CommittedFacts DEF LedgerInv, IndexInv, Blocks
    <3> QED
      BY <3>1, <3>2 DEF ToSet
  <2> QED
    BY <2>1, <2>2
<1> QED
  BY <1>1, LedgerInvariant, PTL

\* As long as nothing has failed, the index of a node at rest is the replay of its chain.
THEOREM IndexIsReplay == Calm => (Spec => []IndexMatchesReplay)
<1> SUFFICES ASSUME Calm
             PROVE  Spec => []IndexMatchesReplay
  OBVIOUS
<1>1. LedgerInv => IndexMatchesReplay
  <2> SUFFICES ASSUME LedgerInv, faults = 0, AllQuiet
               PROVE  /\ \A p \in Payloads : index.bal[p] = Count(head, p)
                      /\ index.supply = SupplyOf(head)
                      /\ index.bonds = Bonding \cap ToSet(head)
    BY DEF IndexMatchesReplay
  <2>1. Committed = head
    BY CommittedIsHead DEF LedgerInv, AllQuiet, Quiet
  <2> QED
    BY <2>1 DEF LedgerInv, ReplayInv, Agree, AllQuiet
<1> QED
  BY <1>1, LedgerInvariant, PTL

\* What a re-index leaves when it ends.
LEMMA RepairStep ==
  ASSUME Calm, LedgerInv, LedgerInv', [Next]_vars, mode = "reindex", mode' = "up"
  PROVE  Consistent'
<1>1. IndexInv /\ ReplayInv /\ WholeInv /\ IndexInv' /\ TypeOK /\ TypeOK'
  BY DEF LedgerInv, IndexInv
<1>2. EndBulk
  <2>1. ~Stop /\ ~Start /\ ~Add /\ ~BeginSync
    BY DEF Stop, Start, Add, CreateGenesis, BeginAdd, RejectBlock, MayBegin, BeginSync
  <2> QED
    BY <2>1
    DEF vars, Next, StartReindex, Crash, Forget, Sync, FetchBlock, EndFetch, Scan,
        ScanRecord, ScanTrim, ScanFails, ScanEnd, Place, EndAdd, EndSyncHeadless,
        IndexBlock, Flush, IndexTxs, WritePart, WriteCrc, WriteFails, MayFlush, FlushPos,
        FlushBal, FlushHeight, ReadSupply, WriteSupply
<1> DEFINE c == job["bulk"].block
<1>3. /\ job["bulk"].pc = "done" /\ "bulk" \in Jobs /\ job \in [Jobs -> JobRecords]
      /\ log' = log /\ index' = index /\ batch' = batch /\ job' = [job EXCEPT !["bulk"] = Idle]
  BY <1>1, <1>2 DEF EndBulk, TypeOK, Jobs
<1>4. Committed' = Committed
  BY <1>2 DEF EndBulk, Committed, HeadValid
<1>5. head' = c /\ Target("bulk") = c /\ c \in Blocks /\ Len(c) \in Nat
  BY <1>1, <1>2, <1>3, <1>4, WholeEndBulk DEF Target, JobRecords, Blocks
<1>6. /\ Len(log) = RecordLen * Len(c) /\ Scanned(c) /\ batch["bulk"].ops = NoMap
      /\ DOMAIN Places("bulk") \subseteq 0..Height(c) /\ index.height = Height(c)
  BY <1>1, <1>3 DEF WholeInv, IndexInv, ScanInv, Flushed, Placed
<1>7. IsMap(index.pos, Nat, Nat) /\ Places("bulk") = index.pos
  <2>1. IsMap(index.pos, Nat, Nat)
    BY <1>1 DEF TypeOK
  <2> QED
    BY <1>6, <2>1, EmptyTypes DEF Places, Over, IsMap
<1>8. index.pos = [k \in 0..Height(c) |-> RecordLen * k]
  <2>1. \A k \in 0..Height(c) : k \in DOMAIN index.pos /\ index.pos[k] = RecordLen * k
    BY <1>6, <1>7 DEF Scanned
  <2>2. DOMAIN index.pos = 0..Height(c)
    BY <1>6, <1>7, <2>1
  <2> QED
    BY <1>7, <2>1, <2>2 DEF IsMap
<1>9. Chained(log, index.pos, c)
  BY <1>6, <1>7 DEF Scanned, Chained
<1>10. Agree(index.bal, index.supply, index.bonds, c, faults = 0 \/ mode = "reindex")
  BY <1>1, <1>3, <1>5, ReplayDone
<1>11. /\ \A p \in Payloads : index.bal[p] = Count(c, p)
       /\ index.supply = SupplyOf(c) /\ index.bonds = Bonding \cap ToSet(c)
  BY <1>10 DEF Agree
<1> QED
  BY <1>3, <1>5, <1>6, <1>8, <1>9, <1>11 DEF Consistent

\* Whatever crashes left behind, a re-index that ends leaves one chain and its replay.
THEOREM ReindexIsRepair == Calm => (Spec => ReindexRepairs)
<1> SUFFICES ASSUME Calm
             PROVE  Spec => ReindexRepairs
  OBVIOUS
<1>1. LedgerInv /\ LedgerInv' /\ [Next]_vars
        => (mode = "reindex" /\ mode' = "up" => Consistent')
  BY RepairStep
<1>2. Spec => []LedgerInv
  BY LedgerInvariant
<1>3. LedgerInv /\ LedgerInv' /\ [Next]_vars
        => [mode = "reindex" /\ mode' = "up" => Consistent']_vars
  BY <1>1
<1> QED
  BY <1>2, <1>3, PTL DEF Spec, ReindexRepairs

-----------------------------------------------------------------------------
(* The types, whatever fails                                               *)

\* The committed chain is one of the log, if there is one.
LEMMA CommittedStored ==
  ASSUME TypeOK
  PROVE  /\ Committed \in Blocks
         /\ Committed # NoBlock =>
              \E o \in 0..Len(log) : Readable(log, o) /\ Committed = BlockAt(log, o)
<1>1. CASE index.height = NoHeight \/ ~HeadValid
  BY <1>1, IdleType DEF Committed
<1>2. CASE ~(index.height = NoHeight \/ ~HeadValid)
  <2> DEFINE o == index.pos[index.height]
  <2>1. Committed = BlockAt(log, o) /\ Readable(log, o) /\ o \in Nat
    BY <1>2 DEF Committed, HeadValid, TypeOK, IsMap
  <2>2. o \in 0..Len(log) /\ log[o + 1] \in Pieces
    BY <2>1 DEF Readable, RecordLen, TypeOK
  <2> QED
    BY <2>1, <2>2 DEF BlockAt, Pieces
<1> QED
  BY <1>1, <1>2

\* What Forget leaves is typed.
LEMMA RunForget ==
  ASSUME RunTypes, Forget, UNCHANGED << log, index, announced >>, faults' \in Nat
  PROVE  RunTypes'
<1>1. TypeOK'
  BY ForgetTypes DEF RunTypes, TypeOK
<1> QED
  BY <1>1, ForgetFacts DEF RunTypes, Writing

\* A job that changes, over an index and batches that are typed.
LEMMA RunJob ==
  ASSUME RunTypes, mode' = mode, log' \in Seq(Pieces), head' \in Blocks, tail' \in Nat,
         announced' \in Blocks, faults' \in Nat,
         NEW j \in Jobs, job' \in [Jobs -> JobRecords],
         \A i \in Jobs \ {j} : job'[i] = job[i],
         job'[j].pc \notin {"scan", "place"},
         job'[j].pc \in Writing \cup {"index"} => job'[j].block # NoBlock,
         index' \in [pos : {index'.pos}, height : Nat \cup {NoHeight},
                     bal : [Payloads -> Nat], supply : Int,
                     bonds : SUBSET Payloads, seen : SUBSET Payloads],
         IsMap(index'.pos, Nat, Nat),
         DOMAIN batch' = Jobs,
         \A i \in Jobs :
           /\ batch'[i] \in [ops : {batch'[i].ops}, height : Nat,
                             map : {batch'[i].map}, supply : Int]
           /\ IsMap(batch'[i].ops, Nat, Nat)
           /\ IsMap(batch'[i].map, Payloads, Nat)
  PROVE  RunTypes'
<1>1. TypeOK'
  BY DEF RunTypes, TypeOK
<1> QED
  BY <1>1 DEF RunTypes

\* A block with a payload on top of it is one.
LEMMA BlockGrows ==
  ASSUME NEW b \in Blocks, NEW p \in Payloads
  PROVE  Append(b, p) \in Blocks /\ Append(b, p) # NoBlock
<1>1. Append(b, p) \in Blocks /\ Len(Append(b, p)) = Len(b) + 1 /\ Len(b) \in Nat
  BY BlockFacts DEF Blocks
<1> QED
  BY <1>1, IdleType

\* addBlock() or a synchronization that begins, or goes on with a block p.
LEMMA RunBlock ==
  ASSUME RunTypes, NEW j \in Jobs, NEW b \in Blocks, b # NoBlock,
         job' = [job EXCEPT ![j].pc = "index", ![j].block = b]
  PROVE  /\ job' \in [Jobs -> JobRecords]
         /\ job'[j].pc = "index" /\ job'[j].block = b
         /\ \A i \in Jobs \ {j} : job'[i] = job[i]
<1>1. job[j] \in JobRecords /\ job \in [Jobs -> JobRecords] /\ "index" \in Phases
  BY DEF RunTypes, TypeOK, Phases
<1>2. [[job[j] EXCEPT !.pc = "index"] EXCEPT !.block = b] \in JobRecords
  BY <1>1, JobType
<1>3. job' = [job EXCEPT ![j] = [[job[j] EXCEPT !.pc = "index"] EXCEPT !.block = b]]
  BY <1>1
<1> QED
  BY <1>1, <1>2, <1>3 DEF JobRecords

\* The types of what a job may change.
LEMMA RunUnchanged ==
  ASSUME RunTypes
  PROVE  /\ log \in Seq(Pieces) /\ head \in Blocks /\ tail \in Nat
         /\ announced \in Blocks /\ faults \in Nat /\ job \in [Jobs -> JobRecords]
         /\ index \in [pos : {index.pos}, height : Nat \cup {NoHeight},
                       bal : [Payloads -> Nat], supply : Int,
                       bonds : SUBSET Payloads, seen : SUBSET Payloads]
         /\ IsMap(index.pos, Nat, Nat)
         /\ DOMAIN batch = Jobs
         /\ \A i \in Jobs :
              /\ batch[i] \in [ops : {batch[i].ops}, height : Nat,
                               map : {batch[i].map}, supply : Int]
              /\ IsMap(batch[i].ops, Nat, Nat)
              /\ IsMap(batch[i].map, Payloads, Nat)
  BY DEF RunTypes, TypeOK

\* Adding blocks, and asking for them.
LEMMA RunAddSync ==
  ASSUME RunTypes, Add \/ Sync
  PROVE  RunTypes'
<1> USE RunUnchanged
<1>1. ASSUME NEW p \in Payloads, CreateGenesis(p)
      PROVE  RunTypes'
  <2>1. << p >> \in Blocks /\ << p >> # NoBlock /\ "add" \in Jobs
    BY DEF Blocks, NoBlock, Jobs
  <2>2. /\ job' \in [Jobs -> JobRecords]
        /\ job'["add"].pc = "index" /\ job'["add"].block = << p >>
        /\ \A i \in Jobs \ {"add"} : job'[i] = job[i]
    BY <1>1, <2>1, RunBlock DEF CreateGenesis
  <2> QED
    BY <1>1, <2>1, <2>2, RunJob DEF CreateGenesis
<1>2. ASSUME NEW p \in Payloads, BeginAdd(p)
      PROVE  RunTypes'
  <2>1. Append(head, p) \in Blocks /\ Append(head, p) # NoBlock /\ "add" \in Jobs
    BY BlockGrows DEF Jobs
  <2>2. /\ job' \in [Jobs -> JobRecords]
        /\ job'["add"].pc = "index" /\ job'["add"].block = Append(head, p)
        /\ \A i \in Jobs \ {"add"} : job'[i] = job[i]
    BY <1>2, <2>1, RunBlock DEF BeginAdd
  <2>3. /\ index' \in [pos : {index'.pos}, height : Nat \cup {NoHeight},
                       bal : [Payloads -> Nat], supply : Int,
                       bonds : SUBSET Payloads, seen : SUBSET Payloads]
        /\ index'.pos = index.pos
    BY <1>2 DEF BeginAdd
  <2> QED
    BY <1>2, <2>1, <2>2, <2>3, RunJob DEF BeginAdd
<1>3. ASSUME NEW p \in Payloads, RejectBlock(p)
      PROVE  RunTypes'
  <2>1. /\ index' \in [pos : {index'.pos}, height : Nat \cup {NoHeight},
                       bal : [Payloads -> Nat], supply : Int,
                       bonds : SUBSET Payloads, seen : SUBSET Payloads]
        /\ index'.pos = index.pos
    BY <1>3 DEF RejectBlock
  <2> QED
    BY <1>3, <2>1 DEF RejectBlock, RunTypes, TypeOK
<1>4. ASSUME BeginSync
      PROVE  RunTypes'
  <2>1. "bulk" \in Jobs /\ "flushpos" \in Phases /\ "fetch" \in Phases
    BY DEF Jobs, Phases
  <2>2. /\ job' \in [Jobs -> JobRecords]
        /\ job'["bulk"].pc \in {"flushpos", "fetch"}
        /\ \A i \in Jobs \ {"bulk"} : job'[i] = job[i]
    BY <1>4, <2>1 DEF BeginSync, JobRecords
  <2>3. /\ DOMAIN batch' = Jobs
        /\ \A i \in Jobs :
             /\ batch'[i] \in [ops : {batch'[i].ops}, height : Nat,
                               map : {batch'[i].map}, supply : Int]
             /\ IsMap(batch'[i].ops, Nat, Nat)
             /\ IsMap(batch'[i].map, Payloads, Nat)
    BY <1>4, <2>1, EmptyTypes DEF BeginSync
  <2> QED
    BY <1>4, <2>1, <2>2, <2>3, RunJob DEF BeginSync, Writing
<1>5. ASSUME NEW p \in Payloads, FetchBlock(p)
      PROVE  RunTypes'
  <2>1. Append(head, p) \in Blocks /\ Append(head, p) # NoBlock /\ "bulk" \in Jobs
    BY BlockGrows DEF Jobs
  <2>2. /\ job' \in [Jobs -> JobRecords]
        /\ job'["bulk"].pc = "index" /\ job'["bulk"].block = Append(head, p)
        /\ \A i \in Jobs \ {"bulk"} : job'[i] = job[i]
    BY <1>5, <2>1, RunBlock DEF FetchBlock
  <2> QED
    BY <1>5, <2>1, <2>2, RunJob DEF FetchBlock
<1>6. ASSUME NEW ok \in BOOLEAN, EndFetch(ok)
      PROVE  RunTypes'
  <2>1. "bulk" \in Jobs /\ "flushpos" \in Phases
    BY DEF Jobs, Phases
  <2>2. /\ job' \in [Jobs -> JobRecords] /\ job'["bulk"].pc = "flushpos"
        /\ \A i \in Jobs \ {"bulk"} : job'[i] = job[i]
    <3>1. job' = [job EXCEPT !["bulk"] =
                    [[job["bulk"] EXCEPT !.pc = "flushpos"] EXCEPT !.ok = ok]]
      BY <1>6, <2>1 DEF EndFetch
    <3>2. [[job["bulk"] EXCEPT !.pc = "flushpos"] EXCEPT !.ok = ok] \in JobRecords
      BY <2>1, JobType
    <3> QED
      BY <2>1, <3>1, <3>2 DEF JobRecords
  <2> QED
    BY <1>6, <2>1, <2>2, RunJob DEF EndFetch, Writing
<1> QED
  BY <1>1, <1>2, <1>3, <1>4, <1>5, <1>6, PayloadAssumption DEF Add, Sync

\* The job that goes on to another phase with its block.
LEMMA RunGoto ==
  ASSUME RunTypes, NEW j \in Jobs, NEW ph \in Phases \ {"scan", "place"}, Goto(j, ph),
         ph \in Writing \cup {"index"} => job[j].pc \in Writing \cup {"index"}
  PROVE  /\ job' \in [Jobs -> JobRecords]
         /\ job'[j].pc = ph /\ job'[j].block = job[j].block
         /\ \A i \in Jobs \ {j} : job'[i] = job[i]
         /\ job'[j].pc \notin {"scan", "place"}
         /\ job'[j].pc \in Writing \cup {"index"} => job'[j].block # NoBlock
<1>1. TypeOK
  BY DEF RunTypes
<1> QED
  BY <1>1, GotoFacts DEF RunTypes

\* The index with other positions.
LEMMA RunPositions ==
  ASSUME RunTypes, NEW j \in Jobs, WritePositions(j)
  PROVE  /\ index' \in [pos : {index'.pos}, height : Nat \cup {NoHeight},
                       bal : [Payloads -> Nat], supply : Int,
                       bonds : SUBSET Payloads, seen : SUBSET Payloads]
         /\ IsMap(index'.pos, Nat, Nat) /\ index'.seen = index.seen
         /\ DOMAIN batch' = Jobs
         /\ \A i \in Jobs :
              /\ batch'[i] \in [ops : {batch'[i].ops}, height : Nat,
                                map : {batch'[i].map}, supply : Int]
              /\ IsMap(batch'[i].ops, Nat, Nat)
              /\ IsMap(batch'[i].map, Payloads, Nat)
<1> USE RunUnchanged
<1>1. IsMap(Over(batch[j].ops, index.pos), Nat, Nat)
  BY MapFacts
<1>2. /\ index' = [index EXCEPT !.pos = Over(batch[j].ops, index.pos)]
      /\ batch' = [batch EXCEPT ![j].ops = NoMap]
  BY DEF WritePositions
<1>3. /\ DOMAIN batch' = Jobs
      /\ \A i \in Jobs \ {j} : batch'[i] = batch[i]
      /\ batch'[j] = [batch[j] EXCEPT !.ops = NoMap]
  BY <1>2
<1>4. /\ batch'[j] \in [ops : {batch'[j].ops}, height : Nat,
                        map : {batch'[j].map}, supply : Int]
      /\ batch'[j].ops = NoMap /\ batch'[j].map = batch[j].map
  BY <1>3
<1>5. /\ index' \in [pos : {index'.pos}, height : Nat \cup {NoHeight},
                     bal : [Payloads -> Nat], supply : Int,
                     bonds : SUBSET Payloads, seen : SUBSET Payloads]
      /\ index'.pos = Over(batch[j].ops, index.pos) /\ index'.seen = index.seen
  BY <1>2
<1>6. IsMap(NoMap, Nat, Nat) /\ IsMap(batch[j].map, Payloads, Nat)
  BY EmptyTypes
<1>7. ASSUME NEW i \in Jobs
      PROVE  /\ batch'[i] \in [ops : {batch'[i].ops}, height : Nat,
                               map : {batch'[i].map}, supply : Int]
             /\ IsMap(batch'[i].ops, Nat, Nat)
             /\ IsMap(batch'[i].map, Payloads, Nat)
  <2>1. CASE i = j
    BY <1>4, <1>6, <2>1
  <2>2. CASE i # j
    BY <1>3, <2>2
  <2> QED
    BY <2>1, <2>2
<1> QED
  BY <1>1, <1>3, <1>5, <1>7

\* Indexing the transactions of a block.
LEMMA RunIndexTxs ==
  ASSUME RunTypes, NEW j \in Jobs, IndexTxs(j)
  PROVE  RunTypes' /\ job'[j].pc = "len" /\ job'[j].block = job[j].block
         /\ (\A i \in Jobs \ {j} : job'[i] = job[i]) /\ index'.seen = index.seen
<1> USE RunUnchanged
<1> DEFINE b == job[j].block
           p == Payload(b)
           m == batch[j].map
           n == Put(m, p, 1 + IF p \in DOMAIN m THEN m[p] ELSE index.bal[p])
           h == IF Height(b) > batch[j].height THEN Height(b) ELSE batch[j].height
           supply == batch[j].supply + Minted(p)
<1>1. /\ mode # "reindex" /\ job[j] \in JobRecords /\ "len" \in Phases
      /\ b \in Blocks /\ b # NoBlock
  BY DEF RunTypes, IndexTxs, JobRecords, Phases
<1>2. p \in Payloads /\ Height(b) \in Nat
  BY <1>1 DEF Payload, Blocks, NoBlock, Height
<1>3. IsMap(n, Payloads, Nat) /\ h \in Nat /\ supply \in Int
  <2>1. (1 + IF p \in DOMAIN m THEN m[p] ELSE index.bal[p]) \in Nat
    BY <1>2 DEF IsMap
  <2>2. IsMap(n, Payloads, Nat) /\ h \in Nat
    BY <1>2, <2>1, MapFacts
  <2>3. batch[j].supply \in Int /\ Minted(p) \in Int
    BY MintedIsInt DEF RunTypes, TypeOK
  <2> QED
    BY <2>2, <2>3
<1>4. [[job[j] EXCEPT !.pc = "len"] EXCEPT !.off = tail] \in JobRecords
  BY <1>1, JobType
<1>5. job' = [job EXCEPT ![j] = [[job[j] EXCEPT !.pc = "len"] EXCEPT !.off = tail]]
  BY <1>1 DEF IndexTxs
<1>6. /\ job' \in [Jobs -> JobRecords]
      /\ job'[j].pc = "len" /\ job'[j].block = b
      /\ \A i \in Jobs \ {j} : job'[i] = job[i]
  BY <1>1, <1>4, <1>5 DEF JobRecords
<1>7. batch' = [batch EXCEPT ![j] =
        [ops |-> batch[j].ops, height |-> h, map |-> n, supply |-> supply]]
  <2>1. TypeOK
    BY DEF RunTypes
  <2>2. batch' = [batch EXCEPT ![j].map = n, ![j].supply = supply, ![j].height = h]
    BY ONLY <2>1, IndexTxs(j), j \in Jobs DEF IndexTxs, TypeOK
  <2> HIDE DEF n, h, supply
  <2>3. batch[j] \in [ops : {batch[j].ops}, height : Nat, map : {batch[j].map}, supply : Int]
    BY ONLY <2>1, j \in Jobs DEF TypeOK
  <2>4. batch' = [batch EXCEPT ![j] =
          [[[batch[j] EXCEPT !.map = n] EXCEPT !.supply = supply] EXCEPT !.height = h]]
    BY ONLY <2>1, <2>2, j \in Jobs DEF TypeOK
  <2>5. [[[batch[j] EXCEPT !.map = n] EXCEPT !.supply = supply] EXCEPT !.height = h] =
          [ops |-> batch[j].ops, height |-> h, map |-> n, supply |-> supply]
    BY ONLY <1>3, <2>3, ChangedBatch
  <2> QED
    BY ONLY <2>4, <2>5
<1>8. /\ DOMAIN batch' = Jobs
      /\ \A i \in Jobs :
           /\ batch'[i] \in [ops : {batch'[i].ops}, height : Nat,
                             map : {batch'[i].map}, supply : Int]
           /\ IsMap(batch'[i].ops, Nat, Nat)
           /\ IsMap(batch'[i].map, Payloads, Nat)
  <2> HIDE DEF n, h, supply
  <2> QED
    BY <1>3, <1>7, BatchTypes DEF RunTypes
<1>9. /\ index' \in [pos : {index'.pos}, height : Nat \cup {NoHeight},
                     bal : [Payloads -> Nat], supply : Int,
                     bonds : SUBSET Payloads, seen : SUBSET Payloads]
      /\ index'.pos = index.pos /\ index'.seen = index.seen
  BY <1>2 DEF IndexTxs
<1>10. UNCHANGED << log, mode, head, tail, announced, faults >>
  BY DEF IndexTxs
<1> HIDE DEF b, p, m, n, h, supply
<1> QED
  BY <1>1, <1>6, <1>8, <1>9, <1>10, RunJob DEF b

\* Writing a record.
LEMMA RunWrite ==
  ASSUME RunTypes, NEW j \in Jobs, WritePart(j) \/ WriteCrc(j)
  PROVE  RunTypes'
<1> USE RunUnchanged
<1>1. /\ job[j].block \in Blocks /\ job[j].off \in Nat /\ job[j].pc \in Parts
      /\ Piece(job[j].block, job[j].pc) \in Pieces
  BY DEF JobRecords, WritePart, WriteCrc, Parts, Piece, Pieces
<1>2. log' = Append(log, Piece(job[j].block, job[j].pc)) /\ log' \in Seq(Pieces)
  <2>1. log' = Append(log, Piece(job[j].block, job[j].pc))
    BY DEF WritePart, WriteCrc
  <2> QED
    BY <1>1, <2>1
<1>3. CASE WritePart(j)
  <2>1. \E ph \in {"body", "crc"} : Goto(j, ph)
    BY <1>3 DEF WritePart
  <2>2. {"body", "crc"} \subseteq Phases \ {"scan", "place"} /\ job[j].pc \in Writing
    BY <1>3 DEF WritePart, Phases, Writing
  <2>3. /\ job' \in [Jobs -> JobRecords]
        /\ \A i \in Jobs \ {j} : job'[i] = job[i]
        /\ job'[j].pc \notin {"scan", "place"}
        /\ job'[j].pc \in Writing \cup {"index"} => job'[j].block # NoBlock
    BY <2>1, <2>2, RunGoto
  <2> QED
    BY <1>2, <1>3, <2>3, RunJob DEF WritePart
<1>4. CASE WriteCrc(j)
  <2> DEFINE m == Put(batch[j].ops, Height(job[j].block), job[j].off)
  <2>1. "mayflush" \in Phases \ {"scan", "place"} /\ "mayflush" \notin Writing \cup {"index"}
    BY DEF Phases, Writing
  <2>2. /\ job' \in [Jobs -> JobRecords]
        /\ \A i \in Jobs \ {j} : job'[i] = job[i]
        /\ job'[j].pc \notin {"scan", "place"}
        /\ job'[j].pc \in Writing \cup {"index"} => job'[j].block # NoBlock
    BY <1>4, <2>1, RunGoto DEF WriteCrc
  <2>3. Height(job[j].block) \in Nat
    BY <1>1, <1>4 DEF RunTypes, WriteCrc, Writing, Height, Blocks, NoBlock
  <2>4. IsMap(m, Nat, Nat)
    BY <1>1, <2>3, MapFacts
  <2>5. batch' = [batch EXCEPT ![j] = [ops |-> m, height |-> batch[j].height,
                                       map |-> batch[j].map, supply |-> batch[j].supply]]
    <3>1. batch' = [batch EXCEPT ![j].ops = m]
      BY <1>4 DEF WriteCrc
    <3> HIDE DEF m
    <3>2. batch' = [batch EXCEPT ![j] = [batch[j] EXCEPT !.ops = m]]
      BY <3>1
    <3>3. batch[j] = [ops |-> batch[j].ops, height |-> batch[j].height,
                      map |-> batch[j].map, supply |-> batch[j].supply]
      BY BatchRecord DEF RunTypes
    <3>4. [batch[j] EXCEPT !.ops = m] = [ops |-> m, height |-> batch[j].height,
                                         map |-> batch[j].map, supply |-> batch[j].supply]
      BY ONLY <3>3
    <3> QED
      BY <3>2, <3>4
  <2>6. /\ DOMAIN batch' = Jobs
        /\ \A i \in Jobs :
             /\ batch'[i] \in [ops : {batch'[i].ops}, height : Nat,
                               map : {batch'[i].map}, supply : Int]
             /\ IsMap(batch'[i].ops, Nat, Nat)
             /\ IsMap(batch'[i].map, Payloads, Nat)
    <3> HIDE DEF m
    <3> QED
      BY <2>4, <2>5, BatchRecord, BatchTypes DEF RunTypes
  <2>7. /\ head' = job[j].block /\ tail' = tail + RecordLen /\ tail' \in Nat
        /\ UNCHANGED << index, mode, announced, faults >>
    BY <1>4 DEF WriteCrc, RecordLen
  <2> QED
    BY <1>1, <1>2, <2>2, <2>6, <2>7, RunJob
<1> QED
  BY <1>3, <1>4

\* A failed append.
LEMMA RunWriteFails ==
  ASSUME RunTypes, NEW j \in Jobs, WriteFails(j)
  PROVE  RunTypes'
<1> USE RunUnchanged
<1>1. faults' \in Nat
  BY DEF WriteFails
<1>2. CASE j = "bulk"
  <2>1. "flushpos" \in Phases
    BY DEF Phases
  <2>2. job' = [job EXCEPT ![j] = [[job[j] EXCEPT !.pc = "flushpos"] EXCEPT !.ok = FALSE]]
    BY <1>2 DEF WriteFails
  <2>3. [[job[j] EXCEPT !.pc = "flushpos"] EXCEPT !.ok = FALSE] \in JobRecords
    BY <2>1, JobType
  <2>4. /\ job' \in [Jobs -> JobRecords] /\ job'[j].pc = "flushpos"
        /\ \A i \in Jobs \ {j} : job'[i] = job[i]
    BY <2>2, <2>3 DEF JobRecords
  <2> QED
    BY <1>1, <1>2, <2>4, RunJob DEF WriteFails, Writing
<1>3. CASE j = "add" /\ head # NoBlock
  <2>1. job' = [job EXCEPT ![j] = Idle] /\ UNCHANGED << mode, head, tail, batch >>
    BY <1>3 DEF WriteFails
  <2>2. /\ job' \in [Jobs -> JobRecords] /\ job'[j].pc = "idle"
        /\ \A i \in Jobs \ {j} : job'[i] = job[i]
    BY <2>1, IdleType DEF Idle
  <2> QED
    BY <1>1, <1>3, <2>1, <2>2, RunJob DEF WriteFails, Writing
<1>4. CASE j = "add" /\ head = NoBlock
  BY <1>1, <1>4, RunForget DEF WriteFails
<1> QED
  BY <1>2, <1>3, <1>4 DEF Jobs

\* Writing positions early, and the writes of a flush.
LEMMA RunFlush ==
  ASSUME RunTypes, NEW j \in Jobs, MayFlush(j) \/ Flush(j)
  PROVE  /\ RunTypes'
         /\ job'[j].block = job[j].block /\ \A i \in Jobs \ {j} : job'[i] = job[i]
         /\ job[j].pc \in Unflushed \cup Flushed
         /\ job'[j].pc \in {"fetch"} \cup Unflushed \cup Flushed
         /\ index'.seen = index.seen
<1> USE RunUnchanged
<1>1. CASE MayFlush(j)
  <2>1. \E ph \in {"flushpos", "fetch"} : Goto(j, ph)
    BY <1>1 DEF MayFlush, RunTypes
  <2>2. {"flushpos", "fetch"} \subseteq Phases \ {"scan", "place"}
    BY DEF Phases
  <2>3. /\ job' \in [Jobs -> JobRecords] /\ job'[j].block = job[j].block
        /\ \A i \in Jobs \ {j} : job'[i] = job[i]
        /\ job'[j].pc \in {"flushpos", "fetch"}
    BY <2>1, <2>2, RunGoto DEF Writing
  <2>4. WritePositions(j) \/ UNCHANGED << index, batch >>
    BY <1>1 DEF MayFlush
  <2>5. RunTypes' /\ index'.seen = index.seen
    BY <1>1, <2>3, <2>4, RunPositions, RunJob DEF MayFlush, Writing
  <2> QED
    BY <1>1, <2>3, <2>5 DEF MayFlush, Unflushed
<1>2. CASE FlushPos(j)
  <2>1. Goto(j, "flushbal") /\ "flushbal" \in Phases \ {"scan", "place"}
    BY <1>2 DEF FlushPos, NextPhase, Phases
  <2>2. /\ job' \in [Jobs -> JobRecords] /\ job'[j].block = job[j].block
        /\ \A i \in Jobs \ {j} : job'[i] = job[i]
        /\ job'[j].pc = "flushbal"
    BY <2>1, RunGoto DEF Writing
  <2>3. RunTypes' /\ index'.seen = index.seen
    BY <1>2, <2>2, RunPositions, RunJob DEF FlushPos, Writing
  <2> QED
    BY <1>2, <2>2, <2>3 DEF FlushPos, Unflushed
<1>3. CASE FlushBal(j)
  <2>1. Goto(j, "flushheight") /\ "flushheight" \in Phases \ {"scan", "place"}
    BY <1>3 DEF FlushBal, NextPhase, Phases
  <2>2. /\ job' \in [Jobs -> JobRecords] /\ job'[j].block = job[j].block
        /\ \A i \in Jobs \ {j} : job'[i] = job[i]
        /\ job'[j].pc = "flushheight"
    BY <2>1, RunGoto DEF Writing
  <2>3. Over(batch[j].map, index.bal) \in [Payloads -> Nat]
    BY MapFacts
  <2>4. /\ index' \in [pos : {index'.pos}, height : Nat \cup {NoHeight},
                       bal : [Payloads -> Nat], supply : Int,
                       bonds : SUBSET Payloads, seen : SUBSET Payloads]
        /\ index'.pos = index.pos /\ index'.seen = index.seen
    BY <1>3, <2>3 DEF FlushBal
  <2>5. RunTypes'
    BY <1>3, <2>2, <2>4, RunJob DEF FlushBal, Writing
  <2> QED
    BY <1>3, <2>2, <2>4, <2>5 DEF FlushBal, Unflushed
<1>4. CASE FlushHeight(j)
  <2>1. Goto(j, "readsupply") /\ "readsupply" \in Phases \ {"scan", "place"}
    BY <1>4 DEF FlushHeight, NextPhase, Phases
  <2>2. /\ job' \in [Jobs -> JobRecords] /\ job'[j].block = job[j].block
        /\ \A i \in Jobs \ {j} : job'[i] = job[i]
        /\ job'[j].pc = "readsupply"
    BY <2>1, RunGoto DEF Writing
  <2>3. /\ index' \in [pos : {index'.pos}, height : Nat \cup {NoHeight},
                       bal : [Payloads -> Nat], supply : Int,
                       bonds : SUBSET Payloads, seen : SUBSET Payloads]
        /\ index'.pos = index.pos /\ index'.seen = index.seen
    BY <1>4 DEF FlushHeight
  <2>4. RunTypes'
    BY <1>4, <2>2, <2>3, RunJob DEF FlushHeight, Writing
  <2> QED
    BY <1>4, <2>2, <2>3, <2>4 DEF FlushHeight, Unflushed, Flushed
<1>5. CASE ReadSupply(j)
  <2>1. "writesupply" \in Phases
    BY DEF Phases
  <2>2. job' = [job EXCEPT ![j] =
                 [[job[j] EXCEPT !.pc = "writesupply"] EXCEPT !.old = index.supply]]
    BY <1>5 DEF ReadSupply, NextPhase
  <2>3. [[job[j] EXCEPT !.pc = "writesupply"] EXCEPT !.old = index.supply] \in JobRecords
    BY <2>1, JobType
  <2>4. /\ job' \in [Jobs -> JobRecords] /\ job'[j].block = job[j].block
        /\ \A i \in Jobs \ {j} : job'[i] = job[i]
        /\ job'[j].pc = "writesupply"
    BY <2>2, <2>3 DEF JobRecords
  <2>5. RunTypes'
    BY <1>5, <2>4, RunJob DEF ReadSupply, Writing
  <2> QED
    BY <1>5, <2>4, <2>5 DEF ReadSupply, Flushed
<1>6. CASE WriteSupply(j)
  <2>1. Goto(j, "done") /\ "done" \in Phases \ {"scan", "place"}
    BY <1>6 DEF WriteSupply, NextPhase, Phases
  <2>2. /\ job' \in [Jobs -> JobRecords] /\ job'[j].block = job[j].block
        /\ \A i \in Jobs \ {j} : job'[i] = job[i]
        /\ job'[j].pc = "done"
    BY <2>1, RunGoto DEF Writing
  <2>3. job[j].old + batch[j].supply \in Int
    BY DEF JobRecords
  <2>4. /\ index' \in [pos : {index'.pos}, height : Nat \cup {NoHeight},
                       bal : [Payloads -> Nat], supply : Int,
                       bonds : SUBSET Payloads, seen : SUBSET Payloads]
        /\ index'.pos = index.pos /\ index'.seen = index.seen
    BY <1>6, <2>3 DEF WriteSupply
  <2>5. /\ DOMAIN batch' = Jobs
        /\ \A i \in Jobs \ {j} : batch'[i] = batch[i]
        /\ batch'[j] = [[batch[j] EXCEPT !.supply = 0] EXCEPT !.map = NoMap]
    BY <1>6 DEF WriteSupply
  <2>6. /\ batch'[j] \in [ops : {batch'[j].ops}, height : Nat,
                          map : {batch'[j].map}, supply : Int]
        /\ batch'[j].ops = batch[j].ops /\ batch'[j].map = NoMap
    <3>1. batch[j] \in [ops : {batch[j].ops}, height : Nat,
                        map : {batch[j].map}, supply : Int]
      OBVIOUS
    <3>2. LET x == [[batch[j] EXCEPT !.supply = 0] EXCEPT !.map = NoMap]
          IN  /\ x \in [ops : {batch[j].ops}, height : Nat, map : {NoMap}, supply : Int]
              /\ x.ops = batch[j].ops /\ x.map = NoMap /\ x.height = batch[j].height
      BY ONLY <3>1, ClearedBatch
    <3> QED
      BY <2>5, <3>2
  <2>7. ASSUME NEW i \in Jobs
        PROVE  /\ batch'[i] \in [ops : {batch'[i].ops}, height : Nat,
                                 map : {batch'[i].map}, supply : Int]
               /\ IsMap(batch'[i].ops, Nat, Nat)
               /\ IsMap(batch'[i].map, Payloads, Nat)
    <3>1. CASE i = j
      BY <2>6, <3>1, EmptyTypes
    <3>2. CASE i # j
      BY <2>5, <3>2
    <3> QED
      BY <3>1, <3>2
  <2>8. RunTypes'
    BY <1>6, <2>2, <2>4, <2>5, <2>7, RunJob DEF WriteSupply, Writing
  <2> QED
    BY <1>6, <2>2, <2>4, <2>8 DEF WriteSupply, Flushed
<1> QED
  BY <1>1, <1>2, <1>3, <1>4, <1>5, <1>6 DEF Flush

\* The end of a job, and of the process.
LEMMA RunEnds ==
  ASSUME RunTypes, Start \/ Stop \/ Crash \/ EndAdd \/ EndBulk \/ EndSyncHeadless
  PROVE  RunTypes'
<1> USE RunUnchanged
<1>1. CASE Start
  <2>1. Committed \in Blocks /\ Len(log) \in Nat
    BY CommittedStored DEF RunTypes
  <2>2. TypeOK'
    BY <1>1, <2>1 DEF Start, RunTypes, TypeOK
  <2> QED
    BY <1>1, <2>2 DEF Start, RunTypes
<1>2. CASE Stop \/ Crash \/ EndSyncHeadless
  <2>1. Forget /\ UNCHANGED << log, index, announced >> /\ faults' \in Nat
    BY <1>2 DEF Stop, Crash, EndSyncHeadless
  <2> QED
    BY <2>1, RunForget
<1>3. CASE EndAdd
  <2>1. /\ job' \in [Jobs -> JobRecords] /\ job'["add"].pc = "idle" /\ "add" \in Jobs
        /\ \A i \in Jobs \ {"add"} : job'[i] = job[i]
        /\ announced' \in Blocks
    BY <1>3, IdleType DEF EndAdd, Idle, Jobs, JobRecords
  <2> QED
    BY <1>3, <2>1, RunJob DEF EndAdd, Writing
<1>4. CASE EndBulk
  <2>1. head' \in Blocks
    BY <1>4, CommittedStored, IdleType DEF EndBulk, Reloaded, RunTypes
  <2>2. /\ job' \in [Jobs -> JobRecords] /\ job'["bulk"].pc = "idle" /\ "bulk" \in Jobs
        /\ \A i \in Jobs \ {"bulk"} : job'[i] = job[i]
    BY <1>4, IdleType DEF EndBulk, Idle, Jobs
  <2>3. TypeOK'
    BY <1>4, <2>1, <2>2 DEF EndBulk, RunTypes, TypeOK
  <2> QED
    BY <1>4, <2>2, <2>3 DEF EndBulk, RunTypes, Writing
<1> QED
  BY <1>1, <1>2, <1>3, <1>4

\* Every step keeps the types.
LEMMA RunNext ==
  ASSUME "reindex" \notin Env, RunTypes, [Next]_vars
  PROVE  RunTypes'
<1>1. CASE UNCHANGED vars
  BY <1>1 DEF vars, RunTypes, TypeOK
<1>2. CASE StartReindex \/ Scan
  BY <1>2
  DEF StartReindex, Scan, ScanRecord, ScanTrim, ScanFails, ScanEnd, Place, RunTypes, Jobs
<1>3. CASE Start \/ Stop \/ Crash \/ EndAdd \/ EndBulk \/ EndSyncHeadless
  BY <1>3, RunEnds
<1>4. CASE Add \/ Sync
  BY <1>4, RunAddSync
<1>5. ASSUME NEW j \in Jobs, IndexBlock(j) \/ Flush(j)
      PROVE  RunTypes'
  BY <1>5, RunIndexTxs, RunWrite, RunWriteFails, RunFlush DEF IndexBlock
<1> QED
  BY <1>1, <1>2, <1>3, <1>4, <1>5 DEF Next

\* A new node is typed.
LEMMA RunInit == Init => RunTypes
<1>1. SUFFICES ASSUME Init
               PROVE  RunTypes
  OBVIOUS
<1>2. Init => TypeOK
  BY IdleType, EmptyTypes DEF Init, TypeOK, EmptyIndex, NoHeight, Pieces, Blocks, NoBlock
<1> QED
  BY <1>1, <1>2, IdleType DEF Init, RunTypes, Idle, Writing

-----------------------------------------------------------------------------
(* No payload twice                                                        *)

\* More registered payloads, the genesis block, and one more block.
LEMMA OnceFacts ==
  ASSUME NEW seen
  PROVE  /\ Once(NoBlock, seen)
         /\ \A b, more : Once(b, seen) /\ seen \subseteq more => Once(b, more)
         /\ \A p \in Founding : Once(<< p >>, seen)
  BY DEF Once, NoBlock

\* A chain with a payload on top that was not registered, and is from now on.
LEMMA OnceAppend ==
  ASSUME NEW b \in Blocks, b # NoBlock, NEW seen, Once(b, seen),
         NEW p \in Payloads \ Founding, p \notin seen
  PROVE  Once(Append(b, p), seen \cup {p})
<1>1. Len(b) \in Nat /\ Len(b) > 0 /\ Len(Append(b, p)) = Len(b) + 1
  BY DEF Blocks, NoBlock
<1>2. \A i \in 1..Len(b) : Append(b, p)[i] = b[i] /\ b[i] # p
  BY <1>1 DEF Once, Blocks
<1>3. Append(b, p)[Len(b) + 1] = p
  BY DEF Blocks
<1> QED
  BY <1>1, <1>2, <1>3 DEF Once

\* A chain that repeats nothing counts nothing twice.
LEMMA OnceCounts ==
  ASSUME NEW b \in Blocks, NEW seen, Once(b, seen), NEW p
  PROVE  Count(b, p) <= 1
<1> DEFINE I == {i \in 1..Len(b) : b[i] = p}
<1>1. CASE I = {}
  <2>1. Count(b, p) = Cardinality(I)
    BY DEF Count
  <2> HIDE DEF I
  <2> QED
    BY <1>1, <2>1, FS_EmptySet
<1>2. CASE I # {}
  <2>1. PICK i \in I : TRUE
    BY <1>2
  <2>2. I = {i} /\ Count(b, p) = Cardinality(I)
    BY <2>1 DEF Once, Count
  <2> HIDE DEF I
  <2> QED
    BY <2>2, FS_Singleton
<1> QED
  BY <1>1, <1>2

\* Blocks that come from the log, the head or a job.
LEMMA SeenKept ==
  ASSUME RunTypes, SeenInv, index.seen \subseteq index'.seen,
         \/ log' = log
         \/ \E j \in Jobs, part \in Parts : log' = Append(log, Piece(job[j].block, part)),
         head' \in {head, NoBlock, Committed} \/ \E j \in Jobs : head' = job[j].block,
         \A j \in Jobs : \/ job'[j].block \in {head, NoBlock, job[j].block}
                        \/ Once(job'[j].block, index'.seen)
  PROVE  SeenInv'
<1>1. /\ Once(NoBlock, index'.seen) /\ Once(head, index'.seen)
      /\ \A j \in Jobs : Once(job[j].block, index'.seen)
      /\ \A i \in 1..Len(log) : Once(log[i].block, index'.seen)
  BY OnceFacts DEF SeenInv
<1>2. Once(Committed, index'.seen)
  <2>1. CASE Committed = NoBlock
    BY <1>1, <2>1
  <2>2. CASE Committed # NoBlock
    <3>1. PICK o \in 0..Len(log) : Readable(log, o) /\ Committed = BlockAt(log, o)
      BY <2>2, CommittedStored DEF RunTypes
    <3>2. o + 1 \in 1..Len(log)
      BY <3>1 DEF Readable, RecordLen, RunTypes, TypeOK
    <3> QED
      BY <1>1, <3>1, <3>2 DEF BlockAt
  <2> QED
    BY <2>1, <2>2
<1>3. \A i \in 1..Len(log') : Once(log'[i].block, index'.seen)
  <2>1. CASE log' = log
    BY <1>1, <2>1
  <2>2. ASSUME NEW j \in Jobs, NEW part \in Parts,
               log' = Append(log, Piece(job[j].block, part)),
               NEW i \in 1..Len(log')
        PROVE  Once(log'[i].block, index'.seen)
    <3>1. log \in Seq(Pieces) /\ Piece(job[j].block, part).block = job[j].block
      BY DEF RunTypes, TypeOK, Piece
    <3>2. i \in 1..Len(log) \/ log'[i] = Piece(job[j].block, part)
      BY <2>2, <3>1
    <3>3. i \in 1..Len(log) => log'[i] = log[i]
      BY <2>2, <3>1
    <3> QED
      BY <1>1, <3>1, <3>2, <3>3
  <2> QED
    BY <2>1, <2>2
<1>4. Once(head', index'.seen)
  BY <1>1, <1>2
<1>5. \A j \in Jobs : Once(job'[j].block, index'.seen)
  BY <1>1
<1> QED
  BY <1>3, <1>4, <1>5 DEF SeenInv

\* No step but the start of a block registers it, and each one does.
LEMMA SeenNext ==
  ASSUME Env \cap {"reindex", "sync"} = {}, RunTypes, SeenInv, [Next]_vars
  PROVE  SeenInv'
<1> USE RunUnchanged
<1>1. CASE UNCHANGED vars
  BY <1>1 DEF vars, SeenInv
<1>2. CASE StartReindex \/ Scan \/ \E p \in Payloads : FetchBlock(p)
  BY <1>2 DEF StartReindex, Scan, ScanRecord, ScanTrim, ScanFails, ScanEnd, Place, FetchBlock,
     RunTypes, Jobs
<1>3. CASE Start
  BY <1>3, SeenKept DEF Start
<1>4. CASE Forget /\ UNCHANGED << log, index >>
  BY <1>4, SeenKept DEF Forget, Idle
<1>5. CASE Stop \/ Crash \/ EndSyncHeadless
  BY <1>4, <1>5 DEF Stop, Crash, EndSyncHeadless
<1>6. CASE EndAdd
  BY <1>6, SeenKept DEF EndAdd, Idle
<1>7. CASE EndBulk
  BY <1>7, SeenKept DEF EndBulk, Reloaded, Idle
<1>8. ASSUME NEW p \in Founding, CreateGenesis(p)
      PROVE  SeenInv'
  <2>1. << p >> \in Blocks /\ << p >> # NoBlock /\ "add" \in Jobs
    BY PayloadAssumption DEF Blocks, NoBlock, Jobs
  <2>2. /\ job'["add"].block = << p >>
        /\ \A i \in Jobs \ {"add"} : job'[i] = job[i]
    BY <1>8, <2>1, RunBlock DEF CreateGenesis
  <2>3. Once(<< p >>, index'.seen)
    BY OnceFacts
  <2>4. index' = index /\ log' = log /\ head' = head
    BY <1>8 DEF CreateGenesis
  <2> QED
    BY <2>2, <2>3, <2>4, SeenKept
<1>9. ASSUME NEW p \in Payloads \ Founding, BeginAdd(p)
      PROVE  SeenInv'
  <2>1. Append(head, p) \in Blocks /\ Append(head, p) # NoBlock /\ "add" \in Jobs
    BY BlockGrows DEF Jobs
  <2>2. /\ job'["add"].block = Append(head, p)
        /\ \A i \in Jobs \ {"add"} : job'[i] = job[i]
    BY <1>9, <2>1, RunBlock DEF BeginAdd
  <2>3. index'.seen = index.seen \cup {p}
    BY <1>9 DEF BeginAdd
  <2>4. Once(Append(head, p), index'.seen)
    BY <1>9, <2>3, OnceAppend DEF BeginAdd, SeenInv
  <2> QED
    BY <1>9, <2>2, <2>3, <2>4, SeenKept DEF BeginAdd
<1>10. ASSUME NEW p \in Payloads, RejectBlock(p)
       PROVE  SeenInv'
  <2>1. index'.seen = index.seen \cup {p}
    BY <1>10 DEF RejectBlock
  <2> QED
    BY <1>10, <2>1, SeenKept DEF RejectBlock
<1>11. CASE BeginSync
  BY <1>11, SeenKept DEF BeginSync, Jobs
<1>12. ASSUME NEW ok \in BOOLEAN, EndFetch(ok)
       PROVE  SeenInv'
  BY <1>12, SeenKept DEF EndFetch, JobRecords
<1>13. ASSUME NEW j \in Jobs, IndexTxs(j)
       PROVE  SeenInv'
  BY <1>13, RunIndexTxs, SeenKept DEF IndexTxs
<1>14. ASSUME NEW j \in Jobs, WritePart(j) \/ WriteCrc(j)
       PROVE  SeenInv'
  <2>1. \E part \in Parts : log' = Append(log, Piece(job[j].block, part))
    BY <1>14 DEF WritePart, WriteCrc, Parts
  <2>2. index' = index /\ (head' = head \/ head' = job[j].block)
    BY <1>14 DEF WritePart, WriteCrc
  <2>3. \A i \in Jobs : job'[i].block = job[i].block
    <3>1. \E ph \in {"body", "crc", "mayflush"} : Goto(j, ph)
      BY <1>14 DEF WritePart, WriteCrc
    <3>2. {"body", "crc", "mayflush"} \subseteq Phases
      BY DEF Phases
    <3> QED
      BY <3>1, <3>2, GotoFacts DEF RunTypes
  <2> QED
    BY <2>1, <2>2, <2>3, SeenKept
<1>15. ASSUME NEW j \in Jobs, WriteFails(j)
       PROVE  SeenInv'
  <2>1. CASE Forget
    BY <1>4, <1>15, <2>1 DEF WriteFails
  <2>2. CASE ~Forget
    <3>1. \A i \in Jobs : job'[i].block \in {NoBlock, job[i].block}
      <4>1. CASE job' = [job EXCEPT ![j] = Idle]
        BY <4>1 DEF Idle
      <4>2. CASE job' = [job EXCEPT ![j].pc = "flushpos", ![j].ok = FALSE]
        BY <4>2 DEF JobRecords
      <4> QED
        BY <1>15, <2>2, <4>1, <4>2 DEF WriteFails
    <3> QED
      BY <1>15, <2>2, <3>1, SeenKept DEF WriteFails
  <2> QED
    BY <2>1, <2>2
<1>16. ASSUME NEW j \in Jobs, MayFlush(j) \/ Flush(j)
       PROVE  SeenInv'
  <2>1. log' = log /\ head' = head
    BY <1>16 DEF MayFlush, Flush, FlushPos, FlushBal, FlushHeight, ReadSupply, WriteSupply
  <2> QED
    BY <1>16, <2>1, RunFlush, SeenKept
<1> QED
  BY <1>1, <1>2, <1>3, <1>5, <1>6, <1>7, <1>8, <1>9, <1>10, <1>11, <1>12, <1>13, <1>14, <1>15,
     <1>16
  DEF Next, Add, Sync, IndexBlock

\* A node that only adds blocks executes nothing twice, whatever crashes or fails.
THEOREM ChainRepeatsNothing == Env \cap {"reindex", "sync"} = {} => (Spec => []NoReplay)
<1> SUFFICES ASSUME Env \cap {"reindex", "sync"} = {}
             PROVE  Spec => []NoReplay
  OBVIOUS
<1>1. Init => RunTypes /\ SeenInv
  <2>1. Init => SeenInv
    BY OnceFacts DEF Init, SeenInv, Idle
  <2> QED
    BY <2>1, RunInit
<1>2. RunTypes /\ SeenInv /\ [Next]_vars => (RunTypes /\ SeenInv)'
  BY RunNext, SeenNext
<1>3. RunTypes /\ SeenInv => NoReplay
  BY OnceCounts DEF RunTypes, TypeOK, SeenInv, NoReplay
<1> QED
  BY <1>1, <1>2, <1>3, PTL DEF Spec

-----------------------------------------------------------------------------
(* Announced blocks in the log                                             *)

\* The log only grows: a chain stays in it ...
LEMMA HasAppend ==
  ASSUME NEW l \in Seq(Pieces), NEW x \in Pieces, NEW b \in Blocks, HasChain(l, b)
  PROVE  HasChain(Append(l, x), b)
<1>1. ASSUME NEW n \in 1..Len(b)
      PROVE  \E o \in 0..Len(Append(l, x)) : Stored(Append(l, x), o, SubSeq(b, 1, n))
  <2>1. PICK o \in 0..Len(l) : Stored(l, o, SubSeq(b, 1, n))
    BY DEF HasChain
  <2>2. Stored(Append(l, x), o, SubSeq(b, 1, n)) /\ o \in 0..Len(Append(l, x))
    BY <2>1, StoredAppend
  <2> QED
    BY <2>2
<1> QED
  BY <1>1 DEF HasChain

\* ... and goes on with a block that is stored.
LEMMA HasMore ==
  ASSUME NEW l, NEW b \in Blocks, b # NoBlock, HasChain(l, Parent(b)),
         NEW o \in 0..Len(l), Stored(l, o, b)
  PROVE  HasChain(l, b)
<1>1. /\ Len(b) \in Nat \ {0} /\ Parent(b) \in Blocks /\ Len(Parent(b)) = Len(b) - 1
      /\ SubSeq(b, 1, Len(b)) = b
      /\ \A n \in 1..(Len(b) - 1) : SubSeq(Parent(b), 1, n) = SubSeq(b, 1, n)
  BY PrefixFacts DEF Blocks, Parent, NoBlock
<1>2. ASSUME NEW n \in 1..Len(b)
      PROVE  \E q \in 0..Len(l) : Stored(l, q, SubSeq(b, 1, n))
  <2>1. CASE n = Len(b)
    BY <1>1, <2>1
  <2>2. CASE n # Len(b)
    <3>1. n \in 1..(Len(b) - 1)
      BY <1>1, <2>2
    <3> QED
      BY <1>1, <3>1 DEF HasChain
  <2> QED
    BY <2>1, <2>2
<1> QED
  BY <1>2 DEF HasChain

\* An append completes no record, or the one whose checksum it is.
LEMMA ReadableAppend ==
  ASSUME NEW l \in Seq(Pieces), NEW x \in Pieces, NEW o \in Nat, Readable(Append(l, x), o)
  PROVE  \/ /\ Readable(l, o) /\ o \in 0..Len(l)
            /\ BlockAt(l, o) = BlockAt(Append(l, x), o)
         \/ x = Piece(BlockAt(Append(l, x), o), "crc")
<1>1. o + 3 <= Len(l) + 1
  BY DEF Readable, RecordLen
<1>2. CASE o + 3 <= Len(l)
  BY <1>2 DEF Readable, RecordLen, BlockAt
<1>3. CASE o + 3 = Len(l) + 1
  BY <1>3 DEF Readable, RecordLen, BlockAt
<1> QED
  BY <1>1, <1>2, <1>3

\* A step of job j, while the other does nothing, that leaves the log alone.
LEMMA SameLog ==
  ASSUME LogInv, log' = log, HasChain(log, head'), HasChain(log, announced'),
         NEW j \in Jobs, \A i \in Jobs \ {j} : job'[i].pc = "idle",
         job'[j].pc \in Writing \cup {"index"} => Parent(job'[j].block) = head',
         job'[j].pc \notin {"body", "crc"}, mode' = "down" => job'[j].pc = "idle",
         job'["add"].pc \in Unflushed \cup Flushed => HasChain(log, job'["add"].block)
  PROVE  LogInv'
<1>1. \E i \in Jobs : job'[i].pc = "idle"
  BY DEF Jobs
<1>2. "idle" \notin Writing \cup {"index"}
  BY DEF Writing
<1>3. \A i \in Jobs :
        /\ job'[i].pc \in Writing \cup {"index"} => Parent(job'[i].block) = head'
        /\ job'[i].pc \notin {"body", "crc"}
  BY <1>2
<1> QED
  BY <1>1, <1>3 DEF LogInv, Quiet

\* No block is a chain that is there, and so is the committed one.
LEMMA HasHead ==
  ASSUME TypeOK, LogInv
  PROVE  HasChain(log, NoBlock) /\ HasChain(log, Committed)
<1>1. HasChain(log, NoBlock)
  BY DEF HasChain, NoBlock
<1> QED
  BY <1>1, CommittedStored DEF LogInv

\* Unless a synchronization overlaps an addBlock(), one job works at a time.
LEMMA BeginsAlone ==
  ASSUME "overlap" \notin Env, NEW j \in Jobs, MayBegin(j)
  PROVE  mode = "up" /\ \A i \in Jobs : job[i].pc = "idle"
  BY DEF MayBegin, Quiet

\* When a job works, it is the only one.
LEMMA WorksAlone ==
  ASSUME LogInv, NEW j \in Jobs, job[j].pc # "idle"
  PROVE  mode # "down" /\ \A i \in Jobs \ {j} : job[i].pc = "idle"
  BY DEF LogInv, Quiet, Jobs

\* Adding blocks, and asking for them.
LEMMA LogAddSync ==
  ASSUME "overlap" \notin Env, RunTypes, LogInv, Add \/ Sync
  PROVE  LogInv'
<1>0. "add" \in Jobs /\ "bulk" \in Jobs /\ HasChain(log, head) /\ HasChain(log, announced)
  BY DEF Jobs, LogInv
<1>1. ASSUME NEW p \in Founding, CreateGenesis(p)
      PROVE  LogInv'
  <2>1. << p >> \in Blocks /\ << p >> # NoBlock /\ Parent(<< p >>) = NoBlock
    <3>1. Append(NoBlock, p) = << p >> /\ NoBlock \in Blocks /\ p \in Payloads
      BY PayloadAssumption DEF NoBlock, Blocks
    <3> QED
      BY <3>1, BlockFacts, BlockGrows
  <2>2. /\ job'["add"].pc = "index" /\ job'["add"].block = << p >>
        /\ \A i \in Jobs \ {"add"} : job'[i] = job[i]
    BY <1>0, <1>1, <2>1, RunBlock DEF CreateGenesis
  <2> QED
    BY <1>0, <1>1, <2>1, <2>2, BeginsAlone, SameLog DEF CreateGenesis, Unflushed, Flushed
<1>2. ASSUME NEW p \in Payloads, BeginAdd(p)
      PROVE  LogInv'
  <2>1. /\ Append(head, p) \in Blocks /\ Append(head, p) # NoBlock
        /\ Parent(Append(head, p)) = head
    BY BlockFacts, BlockGrows, RunUnchanged
  <2>2. /\ job'["add"].pc = "index" /\ job'["add"].block = Append(head, p)
        /\ \A i \in Jobs \ {"add"} : job'[i] = job[i]
    BY <1>0, <1>2, <2>1, RunBlock DEF BeginAdd
  <2> QED
    BY <1>0, <1>2, <2>1, <2>2, BeginsAlone, SameLog DEF BeginAdd, Unflushed, Flushed
<1>3. ASSUME NEW p \in Payloads, RejectBlock(p)
      PROVE  LogInv'
  BY <1>3 DEF RejectBlock, LogInv, Quiet
<1>4. CASE BeginSync
  <2>1. /\ job'["bulk"].pc \in {"flushpos", "fetch"}
        /\ \A i \in Jobs \ {"bulk"} : job'[i] = job[i]
    BY <1>0, <1>4, RunUnchanged DEF BeginSync
  <2>2. \A i \in Jobs \ {"bulk"} : job'[i].pc = "idle"
    BY <1>0, <1>4, <2>1, BeginsAlone DEF BeginSync
  <2>3. log' = log /\ head' = head /\ announced' = announced /\ mode' = "up"
    BY <1>0, <1>4, BeginsAlone DEF BeginSync
  <2> QED
    BY <1>0, <2>1, <2>2, <2>3, SameLog DEF Writing, Unflushed, Flushed
<1>5. ASSUME NEW p \in Payloads, FetchBlock(p)
      PROVE  LogInv'
  <2>1. /\ Append(head, p) \in Blocks /\ Append(head, p) # NoBlock
        /\ Parent(Append(head, p)) = head
    BY BlockFacts, BlockGrows, RunUnchanged
  <2>2. /\ job'["bulk"].pc = "index" /\ job'["bulk"].block = Append(head, p)
        /\ \A i \in Jobs \ {"bulk"} : job'[i] = job[i]
    BY <1>0, <1>5, <2>1, RunBlock DEF FetchBlock
  <2>3. mode' # "down" /\ \A i \in Jobs \ {"bulk"} : job'[i].pc = "idle"
    BY <1>0, <1>5, <2>2, WorksAlone DEF FetchBlock
  <2> QED
    BY <1>0, <1>5, <2>1, <2>2, <2>3, SameLog DEF FetchBlock, Unflushed, Flushed
<1>6. ASSUME NEW ok \in BOOLEAN, EndFetch(ok)
      PROVE  LogInv'
  <2>1. /\ job'["bulk"].pc = "flushpos"
        /\ \A i \in Jobs \ {"bulk"} : job'[i] = job[i]
    BY <1>0, <1>6, RunUnchanged DEF EndFetch, JobRecords
  <2>2. mode' # "down" /\ \A i \in Jobs \ {"bulk"} : job'[i].pc = "idle"
    BY <1>0, <1>6, <2>1, WorksAlone DEF EndFetch
  <2> QED
    BY <1>0, <1>6, <2>1, <2>2, SameLog DEF EndFetch, Writing, Unflushed, Flushed
<1> QED
  BY <1>1, <1>2, <1>3, <1>4, <1>5, <1>6 DEF Add, Sync

\* Writing a record: it is complete with its checksum, on top of the head.
LEMMA LogWrite ==
  ASSUME RunTypes, LogInv, NEW j \in Jobs, WritePart(j) \/ WriteCrc(j)
  PROVE  LogInv'
<1> USE RunUnchanged
<1> DEFINE b == job[j].block
           x == Piece(b, job[j].pc)
<1>1. /\ b \in Blocks /\ b # NoBlock /\ Parent(b) = head
      /\ x \in Pieces /\ log' = Append(log, x) /\ job[j].pc \in Writing
      /\ \A i \in Jobs \ {j} : job[i].pc = "idle"
  <2>1. /\ job[j].pc \in Writing /\ job[j].pc \in Parts /\ job[j] \in JobRecords
        /\ log' = Append(log, x)
    BY DEF WritePart, WriteCrc, Writing, Parts
  <2>2. \A i \in Jobs \ {j} : job[i].pc = "idle"
    BY <2>1, WorksAlone DEF Writing
  <2> QED
    BY <2>1, <2>2 DEF RunTypes, LogInv, JobRecords, Piece, Pieces
<1>2. \A c \in Blocks : HasChain(log, c) => HasChain(log', c)
  BY <1>1, HasAppend
<1>3. /\ job'[j].block = b /\ \A i \in Jobs \ {j} : job'[i].pc = "idle"
      /\ job'[j].pc \in {"body", "crc", "mayflush"}
  <2>1. PICK ph \in {"body", "crc", "mayflush"} : Goto(j, ph)
    BY DEF WritePart, WriteCrc
  <2>2. {"body", "crc", "mayflush"} \subseteq Phases
    BY DEF Phases
  <2> QED
    BY <1>1, <2>1, <2>2, GotoFacts DEF RunTypes
<1>4. HasChain(log', announced') /\ announced' = announced
  BY <1>2 DEF WritePart, WriteCrc, LogInv
<1>5. \E i \in Jobs : job'[i].pc = "idle"
  BY <1>3 DEF Jobs
<1>6. ASSUME NEW o \in 0..Len(log'), Readable(log', o)
      PROVE  \/ HasChain(log', BlockAt(log', o))
             \/ x = Piece(BlockAt(log', o), "crc")
  <2>1. \/ /\ Readable(log, o) /\ o \in 0..Len(log)
           /\ BlockAt(log, o) = BlockAt(log', o)
        \/ x = Piece(BlockAt(log', o), "crc")
    BY <1>1, <1>6, ReadableAppend
  <2>2. CASE Readable(log, o) /\ o \in 0..Len(log) /\ BlockAt(log, o) = BlockAt(log', o)
    <3>1. o + 1 \in 1..Len(log)
      BY <2>2 DEF Readable, RecordLen
    <3>2. log[o + 1] \in Pieces
      BY <3>1
    <3>3. BlockAt(log, o) \in Blocks
      BY <3>2 DEF BlockAt, Pieces
    <3> QED
      BY <1>2, <2>2, <3>3 DEF LogInv
  <2> QED
    BY <2>1, <2>2
<1>9. mode' # "down"
  BY <1>1 DEF LogInv, Quiet, Writing, WritePart, WriteCrc
<1>7. CASE WritePart(j)
  <2>1. x.part # "crc" /\ head' = head /\ log'[Len(log')] = x
    BY <1>1, <1>7 DEF WritePart, Piece
  <2>2. /\ job[j].pc = "len" => job'[j].pc = "body"
        /\ job[j].pc = "body" => job'[j].pc = "crc"
        /\ job[j].pc \in {"len", "body"}
    BY <1>7 DEF WritePart, Goto, JobRecords
  <2>3. /\ job'[j].pc = "body" => Len(log') > 0 /\ log'[Len(log')] = Piece(b, "len")
        /\ job'[j].pc = "crc" =>
             /\ Len(log') > 1 /\ log'[Len(log')] = Piece(b, "body")
             /\ log'[Len(log') - 1] = Piece(b, "len")
    BY <1>1, <2>1, <2>2 DEF LogInv
  <2>4. \A o \in 0..Len(log') : Readable(log', o) => HasChain(log', BlockAt(log', o))
    BY <1>6, <2>1 DEF Piece
  <2>5. HasChain(log', head')
    BY <1>2, <2>1 DEF LogInv
  <2> HIDE DEF b, x
  <2>6. job'["add"].pc \notin Unflushed \cup Flushed
    BY <1>3, <1>5, <2>2 DEF Jobs, Unflushed, Flushed
  <2> QED
    BY <1>1, <1>3, <1>4, <1>5, <2>1, <2>3, <2>4, <2>5, <2>6, <1>9 DEF LogInv, Quiet, Writing
<1>8. CASE WriteCrc(j)
  <2>1. job[j].pc = "crc" /\ head' = b
    BY <1>8 DEF WriteCrc
  <2>2. Stored(log', Len(log) - 2, b) /\ Len(log) - 2 \in 0..Len(log')
    <3>1. /\ Len(log) > 1 /\ Len(log') = Len(log) + 1
          /\ log'[Len(log) - 1] = Piece(b, "len")
          /\ log'[Len(log)] = Piece(b, "body")
          /\ log'[Len(log) + 1] = Piece(b, "crc")
      BY <1>1, <2>1 DEF LogInv
    <3>2. \A part : Piece(b, part).block = b
      BY DEF Piece
    <3> HIDE DEF b, x
    <3>3. /\ Len(log) \in Nat
          /\ Len(log) - 2 + 1 = Len(log) - 1 /\ Len(log) - 2 + 2 = Len(log)
          /\ Len(log) - 2 + 3 = Len(log) + 1
      OBVIOUS
    <3> QED
      BY <3>1, <3>2, <3>3 DEF Stored, Readable, BlockAt, RecordLen
  <2>3. HasChain(log', b)
    BY <1>1, <1>2, <2>2, HasMore DEF LogInv
  <2>4. \A o \in 0..Len(log') : Readable(log', o) => HasChain(log', BlockAt(log', o))
    BY <1>6, <2>3 DEF Piece
  <2>5. job'[j].pc = "mayflush"
    BY <1>8 DEF WriteCrc, Goto, JobRecords
  <2> HIDE DEF b, x
  <2>6. \A i \in Jobs : job'[i].pc \in {"idle", "mayflush"}
    BY <1>3, <2>5
  <2>7. job'["add"].pc \in Unflushed \cup Flushed => HasChain(log', job'["add"].block)
    BY <1>3, <2>3 DEF Jobs, Unflushed, Flushed
  <2>8. mode' # "down"
    BY <1>9
  <2> QED
    BY <1>4, <1>5, <2>1, <2>3, <2>4, <2>6, <2>7, <2>8 DEF LogInv, Quiet, Writing
<1> QED
  BY <1>7, <1>8

\* Every step keeps what is in the log.
LEMMA LogNext ==
  ASSUME Env \cap {"reindex", "overlap"} = {}, RunTypes, LogInv, [Next]_vars
  PROVE  LogInv'
<1>0. /\ "add" \in Jobs /\ "bulk" \in Jobs /\ HasChain(log, head) /\ HasChain(log, announced)
      /\ HasChain(log, NoBlock) /\ HasChain(log, Committed)
  BY HasHead DEF Jobs, LogInv, RunTypes
<1>1. CASE UNCHANGED vars
  BY <1>1 DEF vars, LogInv, Quiet
<1>2. CASE StartReindex \/ Scan
  BY <1>2
  DEF StartReindex, Scan, ScanRecord, ScanTrim, ScanFails, ScanEnd, Place, RunTypes, Jobs
<1>3. CASE Start
  <2>1. \A j \in Jobs : job'[j].pc = "idle"
    BY <1>3 DEF Start, LogInv, Quiet
  <2> QED
    BY <1>0, <1>3, <2>1, SameLog DEF Start, Writing, Unflushed, Flushed
<1>4. CASE Forget /\ UNCHANGED << log, announced >>
  BY <1>0, <1>4, ForgetFacts, SameLog DEF Writing, Unflushed, Flushed
<1>5. CASE Stop \/ Crash \/ EndSyncHeadless
  BY <1>4, <1>5 DEF Stop, Crash, EndSyncHeadless
<1>6. CASE Add \/ Sync
  BY <1>6, LogAddSync
<1>7. CASE EndAdd
  <2>1. /\ job'["add"].pc = "idle" /\ \A i \in Jobs \ {"add"} : job'[i].pc = "idle"
    BY <1>0, <1>7, WorksAlone, RunUnchanged DEF EndAdd, Idle
  <2>2. HasChain(log, announced')
    BY <1>7 DEF EndAdd, LogInv, Flushed
  <2> QED
    BY <1>0, <1>7, <2>1, <2>2, SameLog DEF EndAdd, Writing, Unflushed, Flushed
<1>8. CASE EndBulk
  <2>1. /\ job'["bulk"].pc = "idle" /\ \A i \in Jobs \ {"bulk"} : job'[i].pc = "idle"
    BY <1>0, <1>8, WorksAlone, RunUnchanged DEF EndBulk, Idle
  <2>2. HasChain(log, head')
    BY <1>0, <1>8 DEF EndBulk, Reloaded
  <2> QED
    BY <1>0, <1>8, <2>1, <2>2, SameLog DEF EndBulk, Writing, Unflushed, Flushed
<1>9. ASSUME NEW j \in Jobs, IndexTxs(j)
      PROVE  LogInv'
  <2>1. mode' # "down" /\ \A i \in Jobs \ {j} : job'[i].pc = "idle"
    BY <1>9, RunIndexTxs, WorksAlone, RunUnchanged DEF IndexTxs
  <2>2. Parent(job'[j].block) = head' /\ job'[j].pc = "len" /\ log' = log
    BY <1>9, RunIndexTxs DEF IndexTxs, LogInv
  <2> QED
    BY <1>0, <1>9, <2>1, <2>2, SameLog DEF IndexTxs, Unflushed, Flushed
<1>10. ASSUME NEW j \in Jobs, WritePart(j) \/ WriteCrc(j)
       PROVE  LogInv'
  BY <1>10, LogWrite
<1>11. ASSUME NEW j \in Jobs, WriteFails(j)
       PROVE  LogInv'
  <2>1. CASE Forget
    BY <1>4, <1>11, <2>1 DEF WriteFails
  <2>2. CASE ~Forget
    <3>1. /\ job'[j].pc \in {"idle", "flushpos"} /\ (j = "add" => job'[j].pc = "idle")
          /\ \A i \in Jobs \ {j} : job'[i] = job[i]
      BY <1>11, <2>2, RunUnchanged DEF WriteFails, Idle, JobRecords
    <3>2. /\ mode' # "down"
          /\ \A i \in Jobs \ {j} : job'[i].pc = "idle"
      BY <1>11, <2>2, <3>1, WorksAlone DEF WriteFails, Parts
    <3>3. job'["add"].pc = "idle"
      BY <1>0, <3>1, <3>2
    <3> QED
      BY <1>0, <1>11, <2>2, <3>1, <3>2, <3>3, SameLog
      DEF WriteFails, Writing, Unflushed, Flushed
  <2> QED
    BY <2>1, <2>2
<1>12. ASSUME NEW j \in Jobs, MayFlush(j) \/ Flush(j)
       PROVE  LogInv'
  <2>1. log' = log /\ head' = head /\ announced' = announced /\ mode' = mode
    BY <1>12 DEF MayFlush, Flush, FlushPos, FlushBal, FlushHeight, ReadSupply, WriteSupply
  <2>2. /\ job'[j].block = job[j].block /\ \A i \in Jobs \ {j} : job'[i].pc = "idle"
        /\ mode # "down"
        /\ job[j].pc \in Unflushed \cup Flushed
        /\ job'[j].pc \in {"fetch"} \cup Unflushed \cup Flushed
    BY <1>12, RunFlush, WorksAlone DEF Unflushed, Flushed
  <2>3. job'["add"].pc \in Unflushed \cup Flushed => HasChain(log, job'["add"].block)
    BY <1>0, <2>2 DEF LogInv, Unflushed, Flushed
  <2> QED
    BY <1>0, <2>1, <2>2, <2>3, SameLog DEF Writing, Unflushed, Flushed
<1> QED
  BY <1>1, <1>2, <1>3, <1>5, <1>6, <1>7, <1>8, <1>9, <1>10, <1>11, <1>12
  DEF Next, IndexBlock

\* Whatever crashes or fails, an announced block stays in the log with its chain, as long
\* as one job adds blocks at a time and none is cut off by a re-index.
THEOREM AnnouncedStaysInLog ==
  Env \cap {"reindex", "overlap"} = {} => (Spec => []AnnouncedInLog)
<1> SUFFICES ASSUME Env \cap {"reindex", "overlap"} = {}
             PROVE  Spec => []AnnouncedInLog
  OBVIOUS
<1>1. Init => RunTypes /\ LogInv
  <2>1. Init => LogInv
    BY DEF Init, LogInv, Idle, Quiet, Jobs, HasChain, NoBlock, Writing, Unflushed, Flushed,
       Readable, RecordLen
  <2> QED
    BY <2>1, RunInit
<1>2. RunTypes /\ LogInv /\ [Next]_vars => (RunTypes /\ LogInv)'
  BY RunNext, LogNext
<1>3. RunTypes /\ LogInv => AnnouncedInLog
  BY DEF LogInv, AnnouncedInLog
<1> QED
  BY <1>1, <1>2, <1>3, PTL DEF Spec
=============================================================================
