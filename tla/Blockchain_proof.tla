-------------------------- MODULE Blockchain_proof --------------------------
(***************************************************************************)
(* IndexInv is an invariant of Blockchain.tla for all values of the        *)
(* constants, as long as the node is Calm; with it IndexIsChain, and that  *)
(* the state is typed.                                                     *)
(*                                                                         *)
(* There is one lemma per action.  Its step <1>2 reads off the action what *)
(* it changes, with the types of the new values; the steps after it take   *)
(* the conjuncts of IndexInv one by one and use only those facts.  What is *)
(* not immediate is                                                        *)
(*   - WriteCrc, which completes a record: the chain of the head grows;    *)
(*   - MayFlush, FlushPos: only positions above the chain height change;   *)
(*   - FlushHeight: all positions up to the new height are in the index;   *)
(*   - ScanRecord, Place, ScanTrim: what a re-index has read starts the    *)
(*     log and is what chop() keeps.                                       *)
(***************************************************************************)
EXTENDS Blockchain, SequenceTheorems, TLAPS

-----------------------------------------------------------------------------
(* Records, blocks and maps                                                *)

\* Appending a piece to the log leaves every record of it readable.
LEMMA StoredAppend ==
  ASSUME NEW l \in Seq(Pieces), NEW x \in Pieces, NEW o \in Nat, NEW b,
         Stored(l, o, b)
  PROVE  Stored(Append(l, x), o, b)
  BY DEF Stored, Readable, BlockAt, RecordLen, Piece

\* ... and so every chain of records.
LEMMA ChainedAppend ==
  ASSUME NEW l \in Seq(Pieces), NEW x \in Pieces, NEW f, IsMap(f, Nat, Nat),
         NEW b \in Blocks, Chained(l, f, b)
  PROVE  Chained(Append(l, x), f, b)
  BY StoredAppend DEF Chained, IsMap, Height, Blocks

\* A successor of a block has the block as parent and is one longer.
LEMMA BlockFacts ==
  ASSUME NEW b \in Blocks, NEW p \in Payloads
  PROVE  /\ Append(b, p) \in Blocks
         /\ Len(Append(b, p)) = Len(b) + 1
         /\ Parent(Append(b, p)) = b
         /\ Height(b) \in Int /\ Height(b) >= -1
         /\ Height(b) = -1 => b = NoBlock
  BY SubSeqProperties DEF Blocks, Parent, Height, NoBlock

\* What SubSeq(s, 1, n) is.
LEMMA PrefixOf ==
  ASSUME NEW S, NEW s \in Seq(S), NEW n \in 0..Len(s)
  PROVE  /\ SubSeq(s, 1, n) \in Seq(S)
         /\ Len(SubSeq(s, 1, n)) = n
         /\ \A i \in 1..n : SubSeq(s, 1, n)[i] = s[i]
<1>1. n \in Int /\ \A i \in 1..n : s[i] \in S
  OBVIOUS
<1>2. QED
  BY <1>1, SubSeqProperties

\* The blocks below a block are those below its parent, and the parent.
LEMMA PrefixFacts ==
  ASSUME NEW b \in Blocks, Len(b) > 0
  PROVE  /\ Parent(b) \in Blocks
         /\ Len(Parent(b)) = Len(b) - 1
         /\ SubSeq(b, 1, Len(b)) = b
         /\ \A h \in 0..(Len(b) - 2) : SubSeq(b, 1, h + 1) = SubSeq(Parent(b), 1, h + 1)
<1>1. /\ b \in Seq(Payloads) /\ Len(b) \in Nat
      /\ Len(b) - 1 \in 0..Len(b) /\ Len(b) \in 0..Len(b)
  BY DEF Blocks
<1>2. /\ Parent(b) \in Seq(Payloads)
      /\ Len(Parent(b)) = Len(b) - 1
      /\ \A i \in 1..(Len(b) - 1) : Parent(b)[i] = b[i]
  BY <1>1, PrefixOf DEF Parent
<1>3. SubSeq(b, 1, Len(b)) = b
  BY <1>1, PrefixOf, SeqEqual
<1>4. ASSUME NEW h \in 0..(Len(b) - 2)
      PROVE  SubSeq(b, 1, h + 1) = SubSeq(Parent(b), 1, h + 1)
  <2>1. h + 1 \in 0..Len(b) /\ h + 1 \in 0..Len(Parent(b)) /\ h + 1 <= Len(b) - 1
    BY <1>1, <1>2
  <2>2. /\ SubSeq(b, 1, h + 1) \in Seq(Payloads)
        /\ Len(SubSeq(b, 1, h + 1)) = h + 1
        /\ \A i \in 1..(h + 1) : SubSeq(b, 1, h + 1)[i] = b[i]
    BY <1>1, <2>1, PrefixOf
  <2>3. /\ SubSeq(Parent(b), 1, h + 1) \in Seq(Payloads)
        /\ Len(SubSeq(Parent(b), 1, h + 1)) = h + 1
        /\ \A i \in 1..(h + 1) : SubSeq(Parent(b), 1, h + 1)[i] = Parent(b)[i]
    BY <1>2, <2>1, PrefixOf
  <2>4. \A i \in 1..(h + 1) : SubSeq(b, 1, h + 1)[i] = SubSeq(Parent(b), 1, h + 1)[i]
    BY <1>2, <2>1, <2>2, <2>3
  <2>5. QED
    BY <2>2, <2>3, <2>4, SeqEqual
<1>5. QED
  BY <1>2, <1>3, <1>4 DEF Blocks

\* A chain is found by any map that agrees on its heights.
LEMMA ChainedSame ==
  ASSUME NEW l, NEW f, NEW g, NEW b \in Blocks, Chained(l, f, b),
         \A h \in 0..Height(b) : h \in DOMAIN f => h \in DOMAIN g /\ g[h] = f[h]
  PROVE  Chained(l, g, b)
  BY DEF Chained

\* A chain grows by a record of the next block and its position.
LEMMA ChainedExtend ==
  ASSUME NEW l, NEW f, NEW g, NEW b \in Blocks, Len(b) > 0,
         Chained(l, f, Parent(b)),
         \A h \in 0..Height(Parent(b)) : h \in DOMAIN f => h \in DOMAIN g /\ g[h] = f[h],
         Height(b) \in DOMAIN g, Stored(l, g[Height(b)], b)
  PROVE  Chained(l, g, b)
<1>1. /\ Parent(b) \in Blocks /\ Len(Parent(b)) = Len(b) - 1
      /\ SubSeq(b, 1, Len(b)) = b /\ Len(b) \in Nat
      /\ \A h \in 0..(Len(b) - 2) : SubSeq(b, 1, h + 1) = SubSeq(Parent(b), 1, h + 1)
  BY PrefixFacts DEF Blocks
<1>2. ASSUME NEW h \in 0..Height(b)
      PROVE  h \in DOMAIN g /\ Stored(l, g[h], SubSeq(b, 1, h + 1))
  <2>1. CASE h = Height(b)
    <3>1. h + 1 = Len(b)
      BY <1>1, <2>1 DEF Height
    <3>2. QED
      BY <1>1, <2>1, <3>1
  <2>2. CASE h # Height(b)
    <3>1. h \in 0..Height(Parent(b)) /\ h \in 0..(Len(b) - 2)
      BY <1>1, <2>2 DEF Height
    <3>2. QED
      BY <1>1, <3>1 DEF Chained
  <2>3. QED
    BY <2>1, <2>2
<1>3. QED
  BY <1>2 DEF Chained

\* The last block of a chain is stored where the map says.
LEMMA TopOfChain ==
  ASSUME NEW l, NEW f, NEW b \in Blocks, Len(b) > 0, Chained(l, f, b)
  PROVE  Height(b) \in DOMAIN f /\ Stored(l, f[Height(b)], b)
<1>1. /\ Height(b) \in 0..Height(b) /\ Height(b) + 1 = Len(b)
      /\ SubSeq(b, 1, Len(b)) = b
  BY PrefixFacts DEF Blocks, Height
<1>2. QED
  BY <1>1 DEF Chained

\* Put and Over keep maps typed.
LEMMA MapFacts ==
  ASSUME NEW S, NEW T, NEW m, IsMap(m, S, T)
  PROVE  /\ \A x \in S, y \in T : IsMap(Put(m, x, y), S, T)
         /\ \A n : IsMap(n, S, T) => IsMap(Over(m, n), S, T)
         /\ \A n \in [S -> T] : Over(m, n) \in [S -> T]
  BY DEF IsMap, Put, Over

\* Truncating the log keeps the records before the cut.
LEMMA StoredTrim ==
  ASSUME NEW l \in Seq(Pieces), NEW n \in 0..Len(l), NEW o \in Nat, NEW b,
         Stored(l, o, b), o + RecordLen <= n
  PROVE  Stored(SubSeq(l, 1, n), o, b)
<1>1. Len(SubSeq(l, 1, n)) = n /\ \A i \in 1..n : SubSeq(l, 1, n)[i] = l[i]
  BY PrefixOf
<1>2. o + 1 \in 1..n /\ o + 2 \in 1..n /\ o + 3 \in 1..n
  BY DEF RecordLen
<1>3. QED
  BY <1>1, <1>2 DEF Stored, Readable, BlockAt, RecordLen

\* chop() cuts behind the head, when the log starts with the chain of the head.
LEMMA ChopsBehindHead ==
  ASSUME NEW l \in Seq(Pieces), NEW b \in Blocks, b # NoBlock,
         \A h \in 0..Height(b) : Stored(l, RecordLen * h, SubSeq(b, 1, h + 1))
  PROVE  ChopPoint(l, Height(b)) = RecordLen * Len(b) /\ RecordLen * Len(b) <= Len(l)
<1>1. /\ Len(b) \in Nat /\ Len(b) > 0 /\ Height(b) \in Nat /\ Height(b) = Len(b) - 1
      /\ SubSeq(b, 1, Len(b)) = b
      /\ Len(l) \in Nat /\ RecordLen = 3
  BY PrefixFacts DEF Blocks, NoBlock, Height, RecordLen
<1>2. /\ Readable(l, 3 * Height(b)) /\ BlockAt(l, 3 * Height(b)) = b
      /\ 3 * Height(b) + 3 <= Len(l)
  <2>1. Height(b) \in 0..Height(b) /\ Height(b) + 1 = Len(b)
    BY <1>1
  <2>2. Stored(l, RecordLen * Height(b), SubSeq(b, 1, Len(b)))
    BY <2>1
  <2>3. Stored(l, 3 * Height(b), b)
    BY <1>1, <2>2
  <2>4. QED
    BY <1>1, <2>3 DEF Stored, Readable
<1>3. 3 * Height(b) \in RecordsOfHeight(l, Height(b))
  BY <1>1, <1>2 DEF RecordsOfHeight
<1>4. ASSUME NEW o \in RecordsOfHeight(l, Height(b)), o < 3 * Height(b)
      PROVE  FALSE
  <2>1. /\ o \in Nat /\ o % 3 = 0 /\ Height(BlockAt(l, o)) = Height(b)
    BY <1>1 DEF RecordsOfHeight
  <2>2. PICK k \in Nat : o = 3 * k
    BY <2>1
  <2>3. k < Height(b) /\ k \in 0..Height(b) /\ k + 1 \in 0..Len(b)
    BY <1>1, <1>4, <2>2
  <2>4. BlockAt(l, o) = SubSeq(b, 1, k + 1)
    BY <1>1, <2>2, <2>3 DEF Stored
  <2>5. Len(SubSeq(b, 1, k + 1)) = k + 1
    BY <2>3, PrefixOf DEF Blocks
  <2>6. Height(BlockAt(l, o)) = k
    BY <2>4, <2>5 DEF Height
  <2>7. QED
    BY <1>1, <2>1, <2>3, <2>6
<1>5. ASSUME NEW o \in RecordsOfHeight(l, Height(b))
      PROVE  3 * Height(b) <= o
  <2>1. o \in Nat
    BY <1>1 DEF RecordsOfHeight
  <2>2. ~(o < 3 * Height(b))
    BY <1>4
  <2>3. QED
    BY <1>1, <2>1, <2>2
<1>6. FirstOfHeight(l, Height(b)) = 3 * Height(b)
  <2>1. \A q \in RecordsOfHeight(l, Height(b)) : FirstOfHeight(l, Height(b)) <= q
    BY <1>3, <1>5 DEF FirstOfHeight
  <2>2. FirstOfHeight(l, Height(b)) \in RecordsOfHeight(l, Height(b))
    BY <1>3, <1>5 DEF FirstOfHeight
  <2>3. RecordsOfHeight(l, Height(b)) \subseteq Nat
    BY <1>1 DEF RecordsOfHeight
  <2>4. QED
    BY <1>1, <1>3, <1>5, <2>1, <2>2, <2>3
<1>7. QED
  BY <1>1, <1>2, <1>6 DEF ChopPoint

-----------------------------------------------------------------------------
(* The parts of the state                                                  *)

\* What IndexIsChain says of Committed, also for an empty index.
LEMMA CommittedFacts ==
  ASSUME TypeOK, IndexIsChain
  PROVE  /\ Committed \in Blocks
         /\ Height(Committed) = index.height
         /\ Chained(log, index.pos, Committed)
<1>1. CASE index.height = NoHeight
  BY <1>1 DEF Committed, NoHeight, NoBlock, Blocks, Height, Chained
<1>2. CASE index.height # NoHeight
  <2>1. /\ HeadValid /\ index.height \in Nat
        /\ index.pos[index.height] \in Nat
        /\ Committed = BlockAt(log, index.pos[index.height])
    BY <1>2 DEF IndexIsChain, TypeOK, HeadValid, Committed, IsMap
  <2>2. log[index.pos[index.height] + 1] \in Pieces
    BY <1>2, <2>1 DEF HeadValid, Readable, TypeOK, RecordLen
  <2>3. QED
    BY <1>2, <2>1, <2>2 DEF IndexIsChain, BlockAt, Pieces
<1>3. QED
  BY <1>1, <1>2

\* Changing one field of a job keeps it typed.
LEMMA JobType ==
  ASSUME NEW r \in JobRecords
  PROVE  /\ \A ph \in Phases : [r EXCEPT !.pc = ph] \in JobRecords
         /\ \A b \in Blocks : [r EXCEPT !.block = b] \in JobRecords
         /\ \A n \in Nat : [r EXCEPT !.off = n] \in JobRecords
         /\ \A n \in Int : [r EXCEPT !.old = n] \in JobRecords
         /\ \A ok \in BOOLEAN : [r EXCEPT !.ok = ok] \in JobRecords
  BY DEF JobRecords

\* A job that does nothing is typed.
LEMMA IdleType == Idle \in JobRecords /\ NoBlock \in Blocks /\ Len(NoBlock) = 0
<1>1. "idle" \in Phases
  BY DEF Phases
<1>2. QED
  BY <1>1 DEF Idle, JobRecords, NoBlock, Blocks

\* A new batch is typed and holds nothing.
LEMMA EmptyTypes ==
  /\ DOMAIN NoMap = {}
  /\ \A S, T : IsMap(NoMap, S, T)
  /\ EmptyBatch \in [ops : {NoMap}, height : Nat, map : {NoMap}, supply : Int]
  /\ EmptyBatch.ops = NoMap /\ EmptyBatch.map = NoMap /\ EmptyBatch.height = 0
  BY DEF NoMap, IsMap, EmptyBatch

\* A batch without positions does not change where blocks are found.
LEMMA OverNoMap ==
  ASSUME NEW l, NEW f, NEW b \in Blocks
  PROVE  Chained(l, Over(NoMap, f), b) <=> Chained(l, f, b)
  BY EmptyTypes DEF Over, Chained

\* Goto changes the phase of one job and nothing else.
LEMMA GotoFacts ==
  ASSUME TypeOK, NEW j \in Jobs, NEW ph \in Phases, Goto(j, ph)
  PROVE  /\ job' \in [Jobs -> JobRecords]
         /\ job'[j].pc = ph
         /\ job'[j].block = job[j].block
         /\ job'[j].off = job[j].off
         /\ job'[j].ok = job[j].ok
         /\ \A i \in Jobs \ {j} : job'[i] = job[i]
<1>1. job[j] \in JobRecords /\ job \in [Jobs -> JobRecords]
  BY DEF TypeOK
<1>2. [job[j] EXCEPT !.pc = ph] \in JobRecords
  BY <1>1, JobType
<1>3. job' = [job EXCEPT ![j] = [job[j] EXCEPT !.pc = ph]]
  BY <1>1 DEF Goto
<1>4. job'[j] = [job[j] EXCEPT !.pc = ph]
  BY <1>1, <1>3
<1>5. QED
  BY <1>1, <1>2, <1>3, <1>4 DEF JobRecords

\* A changed batch of one job leaves all batches typed.
LEMMA BatchTypes ==
  ASSUME TypeOK, NEW j \in Jobs, NEW m, IsMap(m, Nat, Nat), NEW n, IsMap(n, Payloads, Nat),
         NEW h \in Nat, NEW s \in Int,
         batch' = [batch EXCEPT ![j] = [ops |-> m, height |-> h, map |-> n, supply |-> s]]
  PROVE  /\ DOMAIN batch' = Jobs
         /\ batch'[j].ops = m /\ batch'[j].height = h /\ batch'[j].map = n
         /\ \A i \in Jobs \ {j} : batch'[i] = batch[i]
         /\ \A i \in Jobs :
              /\ batch'[i] \in [ops : {batch'[i].ops}, height : Nat,
                                map : {batch'[i].map}, supply : Int]
              /\ IsMap(batch'[i].ops, Nat, Nat)
              /\ IsMap(batch'[i].map, Payloads, Nat)
<1>1. /\ DOMAIN batch' = Jobs
      /\ batch'[j] = [ops |-> m, height |-> h, map |-> n, supply |-> s]
      /\ \A i \in Jobs \ {j} : batch'[i] = batch[i]
  BY DEF TypeOK
<1>2. QED
  BY <1>1 DEF TypeOK

\* A batch has its four fields.
LEMMA BatchRecord ==
  ASSUME TypeOK, NEW j \in Jobs
  PROVE  /\ batch[j] = [ops |-> batch[j].ops, height |-> batch[j].height,
                        map |-> batch[j].map, supply |-> batch[j].supply]
         /\ IsMap(batch[j].ops, Nat, Nat) /\ IsMap(batch[j].map, Payloads, Nat)
         /\ batch[j].height \in Nat /\ batch[j].supply \in Int
  BY DEF TypeOK

\* What a block adds to the supply is a number.
LEMMA MintedIsInt ==
  ASSUME NEW p
  PROVE  Minted(p) \in Int
<1>1. BondFee \in Nat
  BY FeeAssumption
<1>2. CASE p \in Bonding \ Founding
  BY <1>1, <1>2 DEF Minted
<1>3. CASE p \notin Bonding \ Founding
  BY <1>1, <1>3 DEF Minted
<1>4. QED
  BY <1>2, <1>3

\* A batch that gets other balances, another supply and another height.
LEMMA ChangedBatch ==
  ASSUME NEW n, NEW s \in Int, NEW h \in Nat,
         NEW r, r \in [ops : {r.ops}, height : Nat, map : {r.map}, supply : Int]
  PROVE  [[[r EXCEPT !.map = n] EXCEPT !.supply = s] EXCEPT !.height = h] =
           [ops |-> r.ops, height |-> h, map |-> n, supply |-> s]
<1> DEFINE R == [ops : {r.ops}, height : Nat, map : {n}, supply : Int]
           x == [r EXCEPT !.map = n]
           y == [x EXCEPT !.supply = s]
           z == [y EXCEPT !.height = h]
<1>1. x \in R
  OBVIOUS
<1>2. \A w \in R : [w EXCEPT !.supply = s] \in R /\ [w EXCEPT !.supply = s].supply = s
  OBVIOUS
<1>3. y \in R /\ y.supply = s
  <2> HIDE DEF x, R
  <2> QED
    BY <1>1, <1>2
<1>4. \A w \in R :
        /\ [w EXCEPT !.height = h] \in R /\ [w EXCEPT !.height = h].height = h
        /\ [w EXCEPT !.height = h].supply = w.supply
  OBVIOUS
<1>5. z \in R /\ z.supply = s /\ z.height = h
  <2> HIDE DEF y, R
  <2> QED
    BY <1>3, <1>4
<1>6. \A w \in R : w.supply = s /\ w.height = h =>
        w = [ops |-> r.ops, height |-> h, map |-> n, supply |-> s]
  OBVIOUS
<1>7. QED
  <2> HIDE DEF z, R
  <2>1. z = [ops |-> r.ops, height |-> h, map |-> n, supply |-> s]
    BY <1>5, <1>6
  <2> QED
    BY <2>1 DEF z

\* Clearing the supply and the balances of a batch keeps it typed.
LEMMA ClearedBatch ==
  ASSUME NEW a, NEW c, NEW n,
         NEW r \in [ops : {a}, height : Nat, map : {c}, supply : Int]
  PROVE  LET x == [[r EXCEPT !.supply = 0] EXCEPT !.map = n]
         IN  /\ x \in [ops : {a}, height : Nat, map : {n}, supply : Int]
             /\ x.ops = a /\ x.map = n /\ x.height = r.height
<1>1. [r EXCEPT !.supply = 0] \in [ops : {a}, height : Nat, map : {c}, supply : Int]
  OBVIOUS
<1>2. [r EXCEPT !.supply = 0].height = r.height
  OBVIOUS
<1>3. \A y \in [ops : {a}, height : Nat, map : {c}, supply : Int] :
        LET x == [y EXCEPT !.map = n]
        IN  /\ x \in [ops : {a}, height : Nat, map : {n}, supply : Int]
            /\ x.ops = a /\ x.map = n /\ x.height = y.height
  OBVIOUS
<1>4. QED
  BY <1>1, <1>2, <1>3

-----------------------------------------------------------------------------
(* The index and the end of the process                                    *)

\* What Forget leaves in memory.
LEMMA ForgetFacts ==
  ASSUME Forget
  PROVE  /\ mode' = "down" /\ head' = NoBlock /\ tail' = 0
         /\ job' \in [Jobs -> JobRecords]
         /\ DOMAIN batch' = Jobs
         /\ \A j \in Jobs : job'[j] = Idle /\ job'[j].pc = "idle" /\ batch'[j] = EmptyBatch
  BY IdleType DEF Forget, Idle

\* The end of the process keeps the types ...
LEMMA ForgetTypes ==
  ASSUME TypeOK, Forget, log' \in Seq(Pieces), index' = index, announced' \in Blocks, faults' \in Nat
  PROVE  TypeOK'
  BY ForgetFacts, EmptyTypes, IdleType DEF TypeOK

\* ... and the invariant: it only looks at the log and the index.
LEMMA ForgetInv ==
  ASSUME IndexInv, Forget, log' = log, index' = index, announced' \in Blocks, faults' \in Nat
  PROVE  IndexInv'
<1>1. TypeOK /\ GenesisFirst /\ IndexIsChain
  BY DEF IndexInv
<1>2. TypeOK'
  BY <1>1, ForgetTypes DEF TypeOK
<1>3. GenesisFirst' /\ IndexIsChain'
  BY <1>1 DEF GenesisFirst, IndexIsChain, Committed, HeadValid
<1>4. OneJob'
  BY ForgetFacts, EmptyTypes DEF OneJob, Quiet, Jobs
<1>5. TailIsEnd' /\ HeadInv' /\ JobInv' /\ ScanInv'
  BY ForgetFacts DEF TailIsEnd, HeadInv, JobInv, ScanInv
<1>6. QED
  BY <1>2, <1>3, <1>4, <1>5 DEF IndexInv

\* An append to the log does not change the committed chain.
LEMMA AppendKeepsIndex ==
  ASSUME TypeOK, IndexIsChain, NEW x \in Pieces, log' = Append(log, x),
         index'.pos = index.pos, index'.height = index.height
  PROVE  IndexIsChain'
<1>1. CASE index.height = NoHeight
  BY <1>1 DEF IndexIsChain
<1>2. CASE index.height # NoHeight
  <2>1. /\ HeadValid /\ Height(Committed) = index.height
        /\ Chained(log, index.pos, Committed)
        /\ Committed \in Blocks
    BY <1>2, CommittedFacts DEF IndexIsChain
  <2>2. /\ index.height \in DOMAIN index.pos
        /\ index.pos[index.height] \in Nat
        /\ Stored(log, index.pos[index.height], Committed)
    BY <1>2, <2>1 DEF TypeOK, HeadValid, Committed, Stored, IsMap
  <2>3. /\ log \in Seq(Pieces) /\ IsMap(index.pos, Nat, Nat)
    BY DEF TypeOK
  <2>4. Stored(log', index.pos[index.height], Committed)
    BY <2>2, <2>3, StoredAppend
  <2>5. HeadValid' /\ Committed' = Committed
    BY <2>2, <2>4, <1>2 DEF HeadValid, Committed, Stored
  <2>6. Chained(log', index.pos, Committed)
    BY <2>1, <2>3, ChainedAppend
  <2>7. QED
    BY <2>1, <2>5, <2>6 DEF IndexIsChain
<1>3. QED
  BY <1>1, <1>2

\* The chain height may be set to a block whose chain the positions find.
LEMMA IndexMoved ==
  ASSUME NEW b \in Blocks, b # NoBlock, index'.height = Height(b),
         Chained(log', index'.pos, b)
  PROVE  IndexIsChain' /\ Committed' = b
<1>1. Len(b) > 0 /\ Len(b) \in Nat
  BY DEF NoBlock, Blocks
<1>2. Height(b) \in DOMAIN index'.pos /\ Stored(log', index'.pos[Height(b)], b)
  BY <1>1, TopOfChain
<1>3. index'.height # NoHeight
  BY <1>1 DEF Height, NoHeight
<1>4. HeadValid' /\ Committed' = b
  BY <1>2, <1>3 DEF HeadValid, Committed, Stored
<1>5. QED
  BY <1>4 DEF IndexIsChain

\* Positions above the chain height may be written before the height.
LEMMA PositionsKept ==
  ASSUME TypeOK, IndexIsChain, log' = log, index'.height = index.height,
         \A h \in 0..index.height :
           h \in DOMAIN index.pos => h \in DOMAIN index'.pos /\ index'.pos[h] = index.pos[h]
  PROVE  IndexIsChain'
<1>1. CASE index.height = NoHeight
  BY <1>1 DEF IndexIsChain
<1>2. CASE index.height # NoHeight
  <2>1. /\ Committed \in Blocks /\ Height(Committed) = index.height
        /\ Chained(log, index.pos, Committed)
    BY CommittedFacts
  <2>2. Committed # NoBlock
    BY <1>2, <2>1, IdleType DEF Height, NoHeight
  <2>3. Chained(log, index'.pos, Committed)
    BY <2>1, ChainedSame
  <2>4. QED
    BY <2>1, <2>2, <2>3, IndexMoved
<1>3. QED
  BY <1>1, <1>2

-----------------------------------------------------------------------------
(* The actions, in the order of Blockchain.tla                             *)

\* Start keeps the invariant.
LEMMA StartStep ==
  ASSUME Calm, IndexInv, Start
  PROVE  IndexInv'
<1>1. /\ TypeOK /\ GenesisFirst /\ IndexIsChain /\ OneJob /\ TailIsEnd
      /\ HeadInv /\ JobInv /\ ScanInv
  BY DEF IndexInv
<1>2. /\ mode = "down" /\ mode' = "up" /\ head' = Committed /\ tail' = Len(log)
      /\ UNCHANGED << log, index, job, batch, announced, faults >>
      /\ Committed \in Blocks /\ Height(Committed) = index.height
      /\ Chained(log, index.pos, Committed)
      /\ \A j \in Jobs : job[j].pc = "idle" /\ batch[j].ops = NoMap /\ batch[j].height = 0
  BY <1>1, CommittedFacts, EmptyTypes DEF Start, OneJob, Quiet, Jobs, Idle
<1>3. TypeOK'
  BY <1>1, <1>2 DEF TypeOK
<1>4. GenesisFirst'
  BY <1>1, <1>2 DEF GenesisFirst
<1>5. IndexIsChain'
  BY <1>1, <1>2 DEF IndexIsChain, Committed, HeadValid
<1>6. OneJob'
  BY <1>1, <1>2 DEF OneJob, Quiet, Jobs
<1>7. TailIsEnd'
  BY <1>1, <1>2 DEF TailIsEnd, Writing, OneJob, Quiet, Jobs
<1>8. HeadInv'
  <2>1. \A j \in Jobs : Chained(log, Places(j), Committed)
    BY <1>2, OverNoMap DEF Places
  <2>2. index.height <= Height(Committed) /\ DOMAIN NoMap = {}
    BY <1>1, <1>2, EmptyTypes DEF TypeOK, NoHeight
  <2>3. QED
    BY <1>2, <2>1, <2>2 DEF HeadInv, Places
<1>9. JobInv'
  BY <1>1, <1>2 DEF JobInv, Writing, Unflushed, Flushed, Jobs
<1>10. ScanInv'
  BY <1>1, <1>2 DEF ScanInv, Scanned, Places, Unflushed, Flushed, Placed, Jobs
<1>11. QED
  BY <1>3, <1>4, <1>5, <1>6, <1>7, <1>8, <1>9, <1>10 DEF IndexInv

\* StartReindex keeps the invariant.
LEMMA StartReindexStep ==
  ASSUME Calm, IndexInv, StartReindex
  PROVE  IndexInv'
<1>1. /\ TypeOK /\ GenesisFirst /\ IndexIsChain /\ OneJob /\ TailIsEnd
      /\ HeadInv /\ JobInv /\ ScanInv
  BY DEF IndexInv
<1>2. /\ mode = "down" /\ mode' = "reindex" /\ tail' = Len(log)
      /\ job' \in [Jobs -> JobRecords] /\ job'["add"] = job["add"]
      /\ job'["bulk"].pc = "scan" /\ job'["bulk"].block = NoBlock
      /\ job'["bulk"].off = 0 /\ job'["bulk"].ok
      /\ index' = EmptyIndex /\ index'.height = NoHeight
      /\ UNCHANGED << log, head, batch, announced, faults >>
      /\ \A j \in Jobs : batch[j].ops = NoMap /\ batch[j].height = 0
  <2>1. "scan" \in Phases
    BY DEF Phases
  <2>2. job["bulk"] = Idle /\ Goto("bulk", "scan")
    BY <1>1 DEF StartReindex, Goto, OneJob
  <2>3. /\ job' \in [Jobs -> JobRecords] /\ job'["add"] = job["add"]
        /\ job'["bulk"].pc = "scan" /\ job'["bulk"].block = job["bulk"].block
        /\ job'["bulk"].off = job["bulk"].off /\ job'["bulk"].ok = job["bulk"].ok
    BY <1>1, <2>1, <2>2, GotoFacts DEF Jobs
  <2>4. QED
    BY <1>1, <2>1, <2>2, <2>3, EmptyTypes DEF StartReindex, OneJob, Quiet, Jobs, Idle, EmptyIndex
<1>3. TypeOK'
  BY <1>1, <1>2, EmptyTypes DEF TypeOK, EmptyIndex
<1>4. GenesisFirst'
  BY <1>1, <1>2 DEF GenesisFirst
<1>5. IndexIsChain'
  BY <1>1, <1>2 DEF IndexIsChain, Committed, HeadValid
<1>6. OneJob'
  BY <1>1, <1>2 DEF OneJob, Quiet, Jobs
<1>7. TailIsEnd'
  BY <1>1, <1>2 DEF TailIsEnd, Writing, OneJob, Quiet, Jobs
<1>8. HeadInv'
  BY <1>1, <1>2 DEF HeadInv, Placed, Flushed, Quiet, Places, Jobs
<1>9. JobInv'
  BY <1>1, <1>2 DEF JobInv, Writing, Unflushed, Flushed, Jobs
<1>10. ScanInv'
  <2>1. Height(NoBlock) = -1 /\ Len(NoBlock) = 0
    BY IdleType DEF Height
  <2>2. Scanned(job["bulk"].block)'
    BY <1>2, <2>1 DEF Scanned
  <2>3. /\ (job["bulk"].pc = "scan")' /\ (job["bulk"].block = NoBlock)'
        /\ (job["bulk"].off = RecordLen * Len(job["bulk"].block))'
        /\ (batch["bulk"].ops = NoMap)' /\ (batch["bulk"].height = 0)'
        /\ (job["bulk"].ok)' /\ (index.height = NoHeight)'
    BY <1>2, <2>1 DEF RecordLen, Jobs
  <2>4. QED
    BY <2>2, <2>3 DEF ScanInv, Unflushed, Flushed, Placed, RecordLen
<1>11. QED
  BY <1>3, <1>4, <1>5, <1>6, <1>7, <1>8, <1>9, <1>10 DEF IndexInv

\* Stop keeps the invariant.
LEMMA StopStep ==
  ASSUME Calm, IndexInv, Stop
  PROVE  IndexInv'
  BY ForgetInv DEF Stop, IndexInv, TypeOK

\* Crash keeps the invariant.
LEMMA CrashStep ==
  ASSUME Calm, IndexInv, Crash
  PROVE  IndexInv'
  BY ForgetInv DEF Crash, IndexInv, TypeOK

\* CreateGenesis keeps the invariant.
LEMMA CreateGenesisStep ==
  ASSUME Calm, IndexInv, NEW p \in Payloads, CreateGenesis(p)
  PROVE  IndexInv'
<1>1. /\ TypeOK /\ GenesisFirst /\ IndexIsChain /\ OneJob /\ TailIsEnd
      /\ HeadInv /\ JobInv /\ ScanInv
  BY DEF IndexInv
<1>2. /\ mode = "up"
      /\ \A i \in Jobs : job[i].pc = "idle"
      /\ job' \in [Jobs -> JobRecords] /\ job'["bulk"] = job["bulk"]
      /\ job'["add"].pc = "index" /\ job'["add"].block = Append(head, p)
      /\ Append(head, p) \in Blocks
      /\ Parent(Append(head, p)) = head /\ Len(Append(head, p)) = Len(head) + 1
      /\ UNCHANGED << log, index, mode, head, tail, batch, announced, faults >>
  <2>0. head = NoBlock /\ Append(NoBlock, p) = << p >>
    BY DEF CreateGenesis, NoBlock
  <2>1. /\ head \in Blocks /\ Append(head, p) \in Blocks
        /\ Parent(Append(head, p)) = head /\ Len(Append(head, p)) = Len(head) + 1
    BY <1>1, BlockFacts DEF TypeOK
  <2>2. /\ job["add"] \in JobRecords /\ job \in [Jobs -> JobRecords]
        /\ "index" \in Phases
    BY <1>1 DEF TypeOK, Jobs, Phases
  <2>3. [[job["add"] EXCEPT !.pc = "index"] EXCEPT !.block = Append(head, p)] \in JobRecords
    BY <2>1, <2>2, JobType
  <2>4. job' = [job EXCEPT !["add"] =
                 [[job["add"] EXCEPT !.pc = "index"] EXCEPT !.block = Append(head, p)]]
    BY <2>1, <2>2, <2>0 DEF CreateGenesis
  <2>5. /\ job' \in [Jobs -> JobRecords] /\ job'["bulk"] = job["bulk"]
        /\ job'["add"] = [[job["add"] EXCEPT !.pc = "index"] EXCEPT !.block = Append(head, p)]
    BY <2>2, <2>3, <2>4 DEF Jobs
  <2>6. job'["add"].pc = "index" /\ job'["add"].block = Append(head, p)
    BY <2>2, <2>5 DEF JobRecords
  <2>7. QED
    BY <1>1, <2>1, <2>5, <2>6 DEF CreateGenesis, MayBegin, Quiet, Calm, TypeOK
<1>3. TypeOK'
  BY <1>1, <1>2 DEF TypeOK
<1>4. GenesisFirst'
  BY <1>1, <1>2 DEF GenesisFirst
<1>5. IndexIsChain'
  BY <1>1, <1>2 DEF IndexIsChain, Committed, HeadValid
<1>6. OneJob'
  BY <1>1, <1>2 DEF OneJob, Quiet, Jobs
<1>7. TailIsEnd'
  BY <1>1, <1>2 DEF TailIsEnd, Writing, OneJob, Quiet, Jobs
<1>8. HeadInv'
  BY <1>1, <1>2 DEF HeadInv, Placed, Flushed, Quiet, Places, Jobs
<1>9. JobInv'
  BY <1>1, <1>2 DEF JobInv, Writing, Unflushed, Flushed, Jobs
<1>10. ScanInv'
  BY <1>1, <1>2 DEF ScanInv, Scanned, Places, Unflushed, Flushed, Placed, Jobs
<1>11. QED
  BY <1>3, <1>4, <1>5, <1>6, <1>7, <1>8, <1>9, <1>10 DEF IndexInv

\* BeginAdd keeps the invariant.
LEMMA BeginAddStep ==
  ASSUME Calm, IndexInv, NEW p \in Payloads, BeginAdd(p)
  PROVE  IndexInv'
<1>1. /\ TypeOK /\ GenesisFirst /\ IndexIsChain /\ OneJob /\ TailIsEnd
      /\ HeadInv /\ JobInv /\ ScanInv
  BY DEF IndexInv
<1>2. /\ mode = "up"
      /\ \A i \in Jobs : job[i].pc = "idle"
      /\ job' \in [Jobs -> JobRecords] /\ job'["bulk"] = job["bulk"]
      /\ job'["add"].pc = "index" /\ job'["add"].block = Append(head, p)
      /\ Append(head, p) \in Blocks
      /\ Parent(Append(head, p)) = head /\ Len(Append(head, p)) = Len(head) + 1
      /\ index' = [index EXCEPT !.seen = index.seen \cup {p}]
      /\ index'.pos = index.pos /\ index'.height = index.height
      /\ UNCHANGED << log, mode, head, tail, batch, announced, faults >>
  <2>1. /\ head \in Blocks /\ Append(head, p) \in Blocks
        /\ Parent(Append(head, p)) = head /\ Len(Append(head, p)) = Len(head) + 1
    BY <1>1, BlockFacts DEF TypeOK
  <2>2. /\ job["add"] \in JobRecords /\ job \in [Jobs -> JobRecords]
        /\ "index" \in Phases
    BY <1>1 DEF TypeOK, Jobs, Phases
  <2>3. [[job["add"] EXCEPT !.pc = "index"] EXCEPT !.block = Append(head, p)] \in JobRecords
    BY <2>1, <2>2, JobType
  <2>4. job' = [job EXCEPT !["add"] =
                 [[job["add"] EXCEPT !.pc = "index"] EXCEPT !.block = Append(head, p)]]
    BY <2>1, <2>2 DEF BeginAdd
  <2>5. /\ job' \in [Jobs -> JobRecords] /\ job'["bulk"] = job["bulk"]
        /\ job'["add"] = [[job["add"] EXCEPT !.pc = "index"] EXCEPT !.block = Append(head, p)]
    BY <2>2, <2>3, <2>4 DEF Jobs
  <2>6. job'["add"].pc = "index" /\ job'["add"].block = Append(head, p)
    BY <2>2, <2>5 DEF JobRecords
  <2>7. QED
    BY <1>1, <2>1, <2>5, <2>6 DEF BeginAdd, MayBegin, Quiet, Calm, TypeOK
<1>3. TypeOK'
  BY <1>1, <1>2 DEF TypeOK
<1>4. GenesisFirst'
  BY <1>1, <1>2 DEF GenesisFirst
<1>5. IndexIsChain'
  BY <1>1, <1>2 DEF IndexIsChain, Committed, HeadValid
<1>6. OneJob'
  BY <1>1, <1>2 DEF OneJob, Quiet, Jobs
<1>7. TailIsEnd'
  BY <1>1, <1>2 DEF TailIsEnd, Writing, OneJob, Quiet, Jobs
<1>8. HeadInv'
  BY <1>1, <1>2 DEF HeadInv, Placed, Flushed, Quiet, Places, Jobs
<1>9. JobInv'
  BY <1>1, <1>2 DEF JobInv, Writing, Unflushed, Flushed, Jobs
<1>10. ScanInv'
  BY <1>1, <1>2 DEF ScanInv, Scanned, Places, Unflushed, Flushed, Placed, Jobs
<1>11. QED
  BY <1>3, <1>4, <1>5, <1>6, <1>7, <1>8, <1>9, <1>10 DEF IndexInv

\* RejectBlock keeps the invariant.
LEMMA RejectBlockStep ==
  ASSUME Calm, IndexInv, NEW p \in Payloads, RejectBlock(p)
  PROVE  IndexInv'
<1>1. /\ TypeOK /\ GenesisFirst /\ IndexIsChain /\ OneJob /\ TailIsEnd
      /\ HeadInv /\ JobInv /\ ScanInv
  BY DEF IndexInv
<1>2. /\ index' = [index EXCEPT !.seen = index.seen \cup {p}]
      /\ index'.pos = index.pos /\ index'.height = index.height
      /\ UNCHANGED << log, mode, head, tail, job, batch, announced, faults >>
  BY <1>1 DEF RejectBlock, TypeOK
<1>3. TypeOK'
  BY <1>1, <1>2 DEF TypeOK
<1>4. GenesisFirst'
  BY <1>1, <1>2 DEF GenesisFirst
<1>5. IndexIsChain'
  BY <1>1, <1>2 DEF IndexIsChain, Committed, HeadValid
<1>6. OneJob'
  BY <1>1, <1>2 DEF OneJob, Quiet, Jobs
<1>7. TailIsEnd'
  BY <1>1, <1>2 DEF TailIsEnd, Writing, OneJob, Quiet, Jobs
<1>8. HeadInv'
  BY <1>1, <1>2 DEF HeadInv, Placed, Flushed, Quiet, Places, Jobs
<1>9. JobInv'
  BY <1>1, <1>2 DEF JobInv, Writing, Unflushed, Flushed, Jobs
<1>10. ScanInv'
  BY <1>1, <1>2 DEF ScanInv, Scanned, Places, Unflushed, Flushed, Placed, Jobs
<1>11. QED
  BY <1>3, <1>4, <1>5, <1>6, <1>7, <1>8, <1>9, <1>10 DEF IndexInv

\* BeginSync keeps the invariant.
LEMMA BeginSyncStep ==
  ASSUME Calm, IndexInv, BeginSync
  PROVE  IndexInv'
<1>1. /\ TypeOK /\ GenesisFirst /\ IndexIsChain /\ OneJob /\ TailIsEnd
      /\ HeadInv /\ JobInv /\ ScanInv
  BY DEF IndexInv
<1>2. /\ mode = "up" /\ head \in Blocks
      /\ \A i \in Jobs : job[i].pc = "idle"
      /\ job' \in [Jobs -> JobRecords] /\ job'["add"] = job["add"]
      /\ \/ job'["bulk"].pc = "fetch" /\ job'["bulk"].ok
         \/ job'["bulk"].pc = "flushpos" /\ Height(head) = 0
      /\ DOMAIN batch' = Jobs /\ batch'["add"] = batch["add"]
      /\ batch'["bulk"] = EmptyBatch
      /\ batch'["bulk"].ops = NoMap /\ batch'["bulk"].height = 0 /\ batch'["bulk"].map = NoMap
      /\ batch["bulk"].ops = NoMap
      /\ UNCHANGED << log, index, mode, head, tail, announced, faults >>
  <2>1. /\ mode = "up" /\ \A i \in Jobs : job[i].pc = "idle"
        /\ head \in Blocks /\ job \in [Jobs -> JobRecords] /\ DOMAIN batch = Jobs
    BY <1>1 DEF BeginSync, MayBegin, Quiet, Calm, TypeOK
  <2>2. /\ "fetch" \in Phases /\ "flushpos" \in Phases
    BY DEF Phases
  <2> DEFINE r == [pc |-> IF Height(head) = 0 THEN "flushpos" ELSE "fetch", block |-> head,
                   off |-> 0, old |-> 0, ok |-> ~(Height(head) = 0)]
  <2>3. r \in JobRecords
    BY <2>1, <2>2 DEF JobRecords
  <2>4. job' = [job EXCEPT !["bulk"] = r]
    BY DEF BeginSync
  <2>5. \/ r.pc = "fetch" /\ r.ok
        \/ r.pc = "flushpos" /\ Height(head) = 0
    OBVIOUS
  <2> HIDE DEF r
  <2>6. /\ job' \in [Jobs -> JobRecords] /\ job'["add"] = job["add"] /\ job'["bulk"] = r
    BY <2>1, <2>3, <2>4 DEF Jobs
  <2>7. /\ batch' = [batch EXCEPT !["bulk"] = EmptyBatch]
        /\ UNCHANGED << log, index, mode, head, tail, announced, faults >>
    BY DEF BeginSync
  <2>8. QED
    BY <1>1, <2>1, <2>5, <2>6, <2>7, EmptyTypes DEF OneJob, Quiet, Jobs
<1>3. TypeOK'
  BY <1>1, <1>2, EmptyTypes DEF TypeOK, Jobs
<1>4. GenesisFirst'
  BY <1>1, <1>2 DEF GenesisFirst
<1>5. IndexIsChain'
  BY <1>1, <1>2 DEF IndexIsChain, Committed, HeadValid
<1>6. OneJob'
  BY <1>1, <1>2 DEF OneJob, Quiet, Jobs
<1>7. TailIsEnd'
  BY <1>1, <1>2 DEF TailIsEnd, Writing, OneJob, Quiet, Jobs
<1>8. HeadInv'
  BY <1>1, <1>2 DEF HeadInv, Placed, Flushed, Quiet, Places, Jobs
<1>9. JobInv'
  <2>1. Height(head) = 0 => head # NoBlock
    BY IdleType DEF Height
  <2>2. QED
    BY <1>1, <1>2, <2>1 DEF JobInv, Writing, Unflushed, Flushed, Jobs
<1>10. ScanInv'
  BY <1>1, <1>2 DEF ScanInv, Scanned, Places, Unflushed, Flushed, Placed, Jobs
<1>11. QED
  BY <1>3, <1>4, <1>5, <1>6, <1>7, <1>8, <1>9, <1>10 DEF IndexInv

\* FetchBlock keeps the invariant.
LEMMA FetchBlockStep ==
  ASSUME Calm, IndexInv, NEW p \in Payloads, FetchBlock(p)
  PROVE  IndexInv'
<1>1. /\ TypeOK /\ GenesisFirst /\ IndexIsChain /\ OneJob /\ TailIsEnd
      /\ HeadInv /\ JobInv /\ ScanInv
  BY DEF IndexInv
<1>2. /\ mode = "up" /\ job["bulk"].pc = "fetch"
      /\ job' \in [Jobs -> JobRecords] /\ job'["add"] = job["add"]
      /\ job'["bulk"].pc = "index" /\ job'["bulk"].block = Append(head, p)
      /\ Append(head, p) \in Blocks
      /\ Parent(Append(head, p)) = head /\ Len(Append(head, p)) = Len(head) + 1
      /\ UNCHANGED << log, index, mode, head, tail, batch, announced, faults >>
  <2>1. /\ head \in Blocks /\ Append(head, p) \in Blocks
        /\ Parent(Append(head, p)) = head /\ Len(Append(head, p)) = Len(head) + 1
    BY <1>1, BlockFacts DEF TypeOK
  <2>2. /\ job["bulk"] \in JobRecords /\ job \in [Jobs -> JobRecords]
        /\ "index" \in Phases
    BY <1>1 DEF TypeOK, Jobs, Phases
  <2>3. [[job["bulk"] EXCEPT !.pc = "index"] EXCEPT !.block = Append(head, p)] \in JobRecords
    BY <2>1, <2>2, JobType
  <2>4. job' = [job EXCEPT !["bulk"] =
                 [[job["bulk"] EXCEPT !.pc = "index"] EXCEPT !.block = Append(head, p)]]
    BY <2>1, <2>2 DEF FetchBlock
  <2>5. /\ job' \in [Jobs -> JobRecords] /\ job'["add"] = job["add"]
        /\ job'["bulk"] = [[job["bulk"] EXCEPT !.pc = "index"] EXCEPT !.block = Append(head, p)]
    BY <2>2, <2>3, <2>4 DEF Jobs
  <2>6. job'["bulk"].pc = "index" /\ job'["bulk"].block = Append(head, p)
    BY <2>2, <2>5 DEF JobRecords
  <2>7. mode = "up" /\ job["bulk"].pc = "fetch"
    BY <1>1 DEF FetchBlock, TypeOK, OneJob, Idle, ScanInv, Unflushed, Flushed
  <2>8. QED
    BY <2>1, <2>5, <2>6, <2>7 DEF FetchBlock
<1>3. TypeOK'
  BY <1>1, <1>2 DEF TypeOK
<1>4. GenesisFirst'
  BY <1>1, <1>2 DEF GenesisFirst
<1>5. IndexIsChain'
  BY <1>1, <1>2 DEF IndexIsChain, Committed, HeadValid
<1>6. OneJob'
  BY <1>1, <1>2 DEF OneJob, Quiet, Jobs
<1>7. TailIsEnd'
  BY <1>1, <1>2 DEF TailIsEnd, Writing, OneJob, Quiet, Jobs
<1>8. HeadInv'
  BY <1>1, <1>2 DEF HeadInv, Placed, Flushed, Quiet, Places, Jobs
<1>9. JobInv'
  BY <1>1, <1>2 DEF JobInv, Writing, Unflushed, Flushed, Jobs
<1>10. ScanInv'
  BY <1>1, <1>2 DEF ScanInv, Scanned, Places, Unflushed, Flushed, Placed, Jobs
<1>11. QED
  BY <1>3, <1>4, <1>5, <1>6, <1>7, <1>8, <1>9, <1>10 DEF IndexInv

\* EndFetch keeps the invariant.
LEMMA EndFetchStep ==
  ASSUME Calm, IndexInv, NEW ok \in BOOLEAN, EndFetch(ok)
  PROVE  IndexInv'
<1>1. /\ TypeOK /\ GenesisFirst /\ IndexIsChain /\ OneJob /\ TailIsEnd
      /\ HeadInv /\ JobInv /\ ScanInv
  BY DEF IndexInv
<1>2. /\ mode = "up" /\ job["bulk"].pc = "fetch" /\ batch["bulk"].map # NoMap
      /\ job' \in [Jobs -> JobRecords] /\ job'["add"] = job["add"]
      /\ job'["bulk"].pc = "flushpos"
      /\ UNCHANGED << log, index, mode, head, tail, batch, announced, faults >>
  <2>2. /\ job["bulk"] \in JobRecords /\ job \in [Jobs -> JobRecords]
        /\ "flushpos" \in Phases
    BY <1>1 DEF TypeOK, Jobs, Phases
  <2>3. [[job["bulk"] EXCEPT !.pc = "flushpos"] EXCEPT !.ok = ok] \in JobRecords
    BY <2>2, JobType
  <2>4. job' = [job EXCEPT !["bulk"] = [[job["bulk"] EXCEPT !.pc = "flushpos"] EXCEPT !.ok = ok]]
    BY <2>2 DEF EndFetch
  <2>5. /\ job' \in [Jobs -> JobRecords] /\ job'["add"] = job["add"]
        /\ job'["bulk"] = [[job["bulk"] EXCEPT !.pc = "flushpos"] EXCEPT !.ok = ok]
    BY <2>2, <2>3, <2>4 DEF Jobs
  <2>6. job'["bulk"].pc = "flushpos"
    BY <2>2, <2>5 DEF JobRecords
  <2>7. mode = "up" /\ job["bulk"].pc = "fetch"
    BY <1>1 DEF EndFetch, TypeOK, OneJob, Idle, ScanInv, Unflushed, Flushed
  <2>8. QED
    BY <2>5, <2>6, <2>7 DEF EndFetch, Calm
<1>3. TypeOK'
  BY <1>1, <1>2 DEF TypeOK
<1>4. GenesisFirst'
  BY <1>1, <1>2 DEF GenesisFirst
<1>5. IndexIsChain'
  BY <1>1, <1>2 DEF IndexIsChain, Committed, HeadValid
<1>6. OneJob'
  BY <1>1, <1>2 DEF OneJob, Quiet, Jobs
<1>7. TailIsEnd'
  BY <1>1, <1>2 DEF TailIsEnd, Writing, OneJob, Quiet, Jobs
<1>8. HeadInv'
  BY <1>1, <1>2 DEF HeadInv, Placed, Flushed, Quiet, Places, Jobs
<1>9. JobInv'
  BY <1>1, <1>2 DEF JobInv, Writing, Unflushed, Flushed, Jobs
<1>10. ScanInv'
  BY <1>1, <1>2 DEF ScanInv, Scanned, Places, Unflushed, Flushed, Placed, Jobs
<1>11. QED
  BY <1>3, <1>4, <1>5, <1>6, <1>7, <1>8, <1>9, <1>10 DEF IndexInv

\* ScanRecord keeps the invariant.
LEMMA ScanRecordStep ==
  ASSUME Calm, IndexInv, ScanRecord
  PROVE  IndexInv'
<1>1. /\ TypeOK /\ GenesisFirst /\ IndexIsChain /\ OneJob /\ TailIsEnd
      /\ HeadInv /\ JobInv /\ ScanInv
  BY DEF IndexInv
<1>2. /\ mode = "reindex" /\ job["bulk"].pc = "scan"
      /\ Readable(log, job["bulk"].off)
      /\ BlockAt(log, job["bulk"].off) \in Blocks
      /\ job["bulk"].block \in {NoBlock, Parent(BlockAt(log, job["bulk"].off))}
      /\ job' \in [Jobs -> JobRecords] /\ job'["add"] = job["add"]
      /\ job'["bulk"].pc = "index" /\ job'["bulk"].block = BlockAt(log, job["bulk"].off)
      /\ job'["bulk"].ok = job["bulk"].ok /\ job'["bulk"].off = job["bulk"].off
      /\ UNCHANGED << log, index, mode, head, tail, batch, announced, faults >>
  <2> DEFINE b == BlockAt(log, job["bulk"].off)
  <2>1. /\ job["bulk"] \in JobRecords /\ job \in [Jobs -> JobRecords]
        /\ job["bulk"].off \in Nat /\ "index" \in Phases /\ log \in Seq(Pieces)
    BY <1>1 DEF TypeOK, Jobs, Phases, JobRecords
  <2>2. /\ Readable(log, job["bulk"].off) /\ job["bulk"].pc = "scan"
        /\ job["bulk"].block \in {NoBlock, Parent(b)}
        /\ job' = [job EXCEPT !["bulk"].pc = "index", !["bulk"].block = b]
        /\ UNCHANGED << log, index, mode, head, tail, batch, announced, faults >>
    BY DEF ScanRecord
  <2>3. b \in Blocks
    <3>1. log[job["bulk"].off + 1] \in Pieces
      BY <2>1, <2>2 DEF Readable, RecordLen
    <3>2. QED
      BY <3>1 DEF BlockAt, Pieces
  <2> HIDE DEF b
  <2>4. [[job["bulk"] EXCEPT !.pc = "index"] EXCEPT !.block = b] \in JobRecords
    BY <2>1, <2>3, JobType
  <2>5. job' = [job EXCEPT !["bulk"] = [[job["bulk"] EXCEPT !.pc = "index"] EXCEPT !.block = b]]
    BY <2>1, <2>2
  <2>6. /\ job' \in [Jobs -> JobRecords] /\ job'["add"] = job["add"]
        /\ job'["bulk"] = [[job["bulk"] EXCEPT !.pc = "index"] EXCEPT !.block = b]
    BY <2>1, <2>4, <2>5 DEF Jobs
  <2>7. /\ job'["bulk"].pc = "index" /\ job'["bulk"].block = b
        /\ job'["bulk"].ok = job["bulk"].ok /\ job'["bulk"].off = job["bulk"].off
    BY <2>1, <2>6 DEF JobRecords
  <2>8. mode = "reindex"
    BY <1>1 DEF ScanRecord, TypeOK, OneJob, Idle, JobInv, Jobs
  <2>9. QED
    BY <2>2, <2>3, <2>6, <2>7, <2>8 DEF b
<1>3. TypeOK'
  BY <1>1, <1>2 DEF TypeOK
<1>4. GenesisFirst'
  BY <1>1, <1>2 DEF GenesisFirst
<1>5. IndexIsChain'
  BY <1>1, <1>2 DEF IndexIsChain, Committed, HeadValid
<1>6. OneJob'
  BY <1>1, <1>2 DEF OneJob, Quiet, Jobs
<1>7. TailIsEnd'
  BY <1>1, <1>2 DEF TailIsEnd, Writing, OneJob, Quiet, Jobs
<1>8. HeadInv'
  BY <1>1, <1>2 DEF HeadInv, Placed, Flushed, Quiet, Places, Jobs
<1>9. JobInv'
  BY <1>1, <1>2 DEF JobInv, Writing, Unflushed, Flushed, Jobs
<1>10. ScanInv'
  <2> DEFINE r == job["bulk"]
             b == BlockAt(log, r.off)
  <2>1. /\ r.block \in Blocks /\ b \in Blocks /\ r.off = RecordLen * Len(r.block)
        /\ log \in Seq(Pieces) /\ Len(r.block) \in Nat /\ Len(b) \in Nat
    BY <1>1, <1>2, SMTT(30) DEF TypeOK, JobRecords, Jobs, ScanInv, Blocks
  <2>4. b # NoBlock /\ r.off = RecordLen * Height(b) /\ Parent(b) = r.block
    <3>1. CASE r.block = NoBlock
      <4>1. r.off = 0 /\ b = log[1].block /\ Len(log) > 0
        BY <1>2, <2>1, <3>1, IdleType DEF BlockAt, RecordLen, Readable
      <4>2. Len(b) = 1
        BY <1>1, <4>1 DEF GenesisFirst
      <4>3. Parent(b) \in Blocks /\ Len(Parent(b)) = 0
        <5>1. Len(b) > 0
          BY <4>2
        <5>2. Parent(b) \in Blocks /\ Len(Parent(b)) = Len(b) - 1
          BY <2>1, <5>1, PrefixFacts
        <5>3. QED
          BY <4>2, <5>2
      <4>4. Parent(b) = NoBlock
        BY <4>3 DEF Blocks, NoBlock
      <4>5. Height(b) = 0 /\ b # NoBlock
        <5>1. Len(NoBlock) = 0
          BY DEF NoBlock
        <5>2. Height(b) = 0
          BY <4>2 DEF Height
        <5>3. QED
          BY <4>2, <5>1, <5>2
      <4>6. QED
        BY <3>1, <4>1, <4>4, <4>5 DEF RecordLen
    <3>2. CASE r.block # NoBlock
      <4>1. Parent(b) = r.block
        BY <1>2, <3>2
      <4>2. b # NoBlock
        BY <3>2, <4>1 DEF Parent, NoBlock
      <4>3. Len(b) > 0
        BY <2>1, <4>2 DEF Blocks, NoBlock
      <4>4. Len(r.block) = Len(b) - 1
        BY <2>1, <4>1, <4>3, PrefixFacts
      <4>5. QED
        BY <2>1, <4>1, <4>2, <4>4 DEF Height
    <3>3. QED
      BY <3>1, <3>2
  <2>5. Height(r.block) <= Height(b)
    BY <2>1, <2>4, PrefixFacts DEF Height, NoBlock, Blocks
  <2>6. Stored(log, r.off, b)
    BY <1>2 DEF Stored
  <2>7. Scanned(r.block) /\ (Scanned(r.block) => Scanned(Parent(job["bulk"].block))')
    BY <1>1, <1>2, <2>4 DEF ScanInv, Scanned, Places
  <2>8. index.height = NoHeight /\ (batch["bulk"].height = 0 \/ batch["bulk"].height <= Height(r.block)) /\ r.ok
    BY <1>1, <1>2 DEF ScanInv, Flushed
  <2>9. batch["bulk"].height \in Nat /\ Height(r.block) \in Int /\ Height(b) \in Int
    BY <1>1, <2>1 DEF TypeOK, Jobs, Height
  <2>10. batch["bulk"].height = 0 \/ batch["bulk"].height <= Height(b)
    BY <2>5, <2>8, <2>9
  <2>11. /\ job'["bulk"].block = b /\ job'["bulk"].pc = "index" /\ job'["bulk"].off = r.off
         /\ job'["bulk"].ok = r.ok /\ UNCHANGED << log, index, batch >>
    BY <1>2
  <2> HIDE DEF b, r
  <2>12. QED
    BY <2>4, <2>6, <2>7, <2>8, <2>10, <2>11 DEF ScanInv, Unflushed, Flushed, Placed
<1>11. QED
  BY <1>3, <1>4, <1>5, <1>6, <1>7, <1>8, <1>9, <1>10 DEF IndexInv

\* ScanTrim keeps the invariant.
LEMMA ScanTrimStep ==
  ASSUME Calm, IndexInv, ScanTrim
  PROVE  IndexInv'
<1>1. /\ TypeOK /\ GenesisFirst /\ IndexIsChain /\ OneJob /\ TailIsEnd
      /\ HeadInv /\ JobInv /\ ScanInv
  BY DEF IndexInv
<1>2. /\ mode = "reindex" /\ job["bulk"].pc = "scan"
      /\ job["bulk"].block \in Blocks /\ job["bulk"].block # NoBlock
      /\ job' \in [Jobs -> JobRecords] /\ job'["add"] = job["add"]
      /\ job'["bulk"].pc = "flushpos" /\ job'["bulk"].block = job["bulk"].block
      /\ job'["bulk"].ok = job["bulk"].ok
      /\ tail' = RecordLen * Len(job["bulk"].block) /\ tail' \in Nat /\ tail' > 0
      /\ log \in Seq(Pieces) /\ tail' \in 0..Len(log)
      /\ log' = SubSeq(log, 1, tail')
      /\ log' \in Seq(Pieces) /\ Len(log') = tail'
      /\ UNCHANGED << index, mode, head, batch, announced, faults >>
  <2>1. "flushpos" \in Phases
    BY DEF Phases
  <2>2. mode = "reindex"
    BY <1>1 DEF ScanTrim, TypeOK, OneJob, Idle, JobInv, Jobs
  <2>3. /\ job["bulk"].block \in Blocks /\ log \in Seq(Pieces)
        /\ job["bulk"].block # NoBlock /\ job["bulk"].pc = "scan"
        /\ Len(job["bulk"].block) \in Nat
    BY <1>1 DEF TypeOK, JobRecords, Jobs, ScanTrim, Blocks
  <2>4. \A h \in 0..Height(job["bulk"].block) :
          Stored(log, RecordLen * h, SubSeq(job["bulk"].block, 1, h + 1))
    BY <1>1, <2>2, <2>3 DEF ScanInv, Scanned
  <2>5. /\ ChopPoint(log, Height(job["bulk"].block)) = RecordLen * Len(job["bulk"].block)
        /\ RecordLen * Len(job["bulk"].block) <= Len(log)
    BY <2>3, <2>4, ChopsBehindHead
  <2>6. tail' = RecordLen * Len(job["bulk"].block) /\ log' = SubSeq(log, 1, tail')
    BY <2>5 DEF ScanTrim
  <2>7. tail' \in Nat /\ tail' > 0 /\ tail' \in 0..Len(log)
    BY <2>3, <2>5, <2>6 DEF RecordLen, NoBlock, Blocks
  <2>8. log' \in Seq(Pieces) /\ Len(log') = tail'
    BY <2>3, <2>6, <2>7, PrefixOf
  <2>9. /\ job' \in [Jobs -> JobRecords] /\ job'["add"] = job["add"]
        /\ job'["bulk"].pc = "flushpos" /\ job'["bulk"].block = job["bulk"].block
        /\ job'["bulk"].ok = job["bulk"].ok
    BY <1>1, <2>1, GotoFacts DEF ScanTrim, Jobs
  <2>10. QED
    BY <2>2, <2>3, <2>6, <2>7, <2>8, <2>9 DEF ScanTrim
<1>3. TypeOK'
  BY <1>1, <1>2 DEF TypeOK
<1>4. GenesisFirst'
  <2>1. log'[1] = log[1]
    BY <1>2, PrefixOf
  <2>2. QED
    BY <1>1, <1>2, <2>1 DEF GenesisFirst
<1>5. IndexIsChain'
  BY <1>1, <1>2 DEF IndexIsChain, ScanInv, Flushed
<1>6. OneJob'
  BY <1>1, <1>2 DEF OneJob, Quiet, Jobs
<1>7. TailIsEnd'
  BY <1>1, <1>2 DEF TailIsEnd, Writing, OneJob, Quiet, Jobs
<1>8. HeadInv'
  BY <1>1, <1>2 DEF HeadInv, Placed, Flushed, Quiet, Places, Jobs
<1>9. JobInv'
  BY <1>1, <1>2 DEF JobInv, Writing, Unflushed, Flushed, Jobs
<1>10. ScanInv'
  <2> DEFINE b == job["bulk"].block
  <2>1. Scanned(b) /\ Len(b) \in Nat /\ Height(b) = Len(b) - 1
    BY <1>1, <1>2 DEF ScanInv, Blocks, Height
  <2>2. ASSUME NEW h \in 0..Height(b)
        PROVE  Stored(log', RecordLen * h, SubSeq(b, 1, h + 1))
    <3>1. RecordLen * h \in Nat /\ RecordLen * h + RecordLen <= tail'
      BY <1>2, <2>1 DEF RecordLen
    <3>2. Stored(log, RecordLen * h, SubSeq(b, 1, h + 1))
      BY <2>1 DEF Scanned
    <3>3. QED
      BY <1>2, <3>1, <3>2, StoredTrim
  <2>3. Scanned(job["bulk"].block)'
    BY <1>2, <2>1, <2>2 DEF Scanned, Places
  <2>4. /\ job["bulk"].ok /\ index.height = NoHeight
        /\ batch["bulk"].height = Height(b)
    BY <1>1, <1>2 DEF ScanInv, Flushed
  <2>5. QED
    BY <1>2, <2>3, <2>4 DEF ScanInv, Unflushed, Flushed, Placed
<1>11. QED
  BY <1>3, <1>4, <1>5, <1>6, <1>7, <1>8, <1>9, <1>10 DEF IndexInv

\* ScanFails keeps the invariant.
LEMMA ScanFailsStep ==
  ASSUME Calm, IndexInv, ScanFails
  PROVE  IndexInv'
  BY ForgetInv DEF ScanFails, IndexInv, TypeOK

\* ScanEnd keeps the invariant.
LEMMA ScanEndStep ==
  ASSUME Calm, IndexInv, ScanEnd
  PROVE  IndexInv'
<1>1. /\ TypeOK /\ GenesisFirst /\ IndexIsChain /\ OneJob /\ TailIsEnd
      /\ HeadInv /\ JobInv /\ ScanInv
  BY DEF IndexInv
<1>2. /\ mode = "reindex" /\ job["bulk"].pc = "scan"
      /\ job' \in [Jobs -> JobRecords] /\ job'["add"] = job["add"]
      /\ job'["bulk"].block = job["bulk"].block /\ job'["bulk"].ok = job["bulk"].ok
      /\ job'["bulk"].pc = IF job["bulk"].block = NoBlock THEN "done" ELSE "flushpos"
      /\ UNCHANGED << log, index, mode, head, tail, batch, announced, faults >>
  <2>1. "done" \in Phases /\ "flushpos" \in Phases
    BY DEF Phases
  <2>2. mode = "reindex"
    BY <1>1 DEF ScanEnd, TypeOK, OneJob, Idle, JobInv, Jobs
  <2>3. QED
    BY <1>1, <2>1, <2>2, GotoFacts DEF ScanEnd, Jobs
<1>3. TypeOK'
  BY <1>1, <1>2 DEF TypeOK
<1>4. GenesisFirst'
  BY <1>1, <1>2 DEF GenesisFirst
<1>5. IndexIsChain'
  BY <1>1, <1>2 DEF IndexIsChain, Committed, HeadValid
<1>6. OneJob'
  BY <1>1, <1>2 DEF OneJob, Quiet, Jobs
<1>7. TailIsEnd'
  BY <1>1, <1>2 DEF TailIsEnd, Writing, OneJob, Quiet, Jobs
<1>8. HeadInv'
  BY <1>1, <1>2 DEF HeadInv, Placed, Flushed, Quiet, Places, Jobs
<1>9. JobInv'
  BY <1>1, <1>2 DEF JobInv, Writing, Unflushed, Flushed, Jobs
<1>10. ScanInv'
  <2>1. Height(NoBlock) = NoHeight
    BY IdleType DEF Height, NoHeight
  <2>2. Scanned(job["bulk"].block) => Scanned(job["bulk"].block)'
    BY <1>2 DEF Scanned, Places
  <2>3. QED
    BY <1>1, <1>2, <2>1, <2>2 DEF ScanInv, Unflushed, Flushed, Placed
<1>11. QED
  BY <1>3, <1>4, <1>5, <1>6, <1>7, <1>8, <1>9, <1>10 DEF IndexInv

\* IndexTxs keeps the invariant.
LEMMA IndexTxsStep ==
  ASSUME Calm, IndexInv, NEW j \in Jobs, IndexTxs(j)
  PROVE  IndexInv'
<1>1. /\ TypeOK /\ GenesisFirst /\ IndexIsChain /\ OneJob /\ TailIsEnd
      /\ HeadInv /\ JobInv /\ ScanInv
  BY DEF IndexInv
<1>2. /\ \A i \in Jobs \ {j} : job'[i] = job[i] /\ batch'[i] = batch[i] /\ Quiet(i)
      /\ job' \in [Jobs -> JobRecords]
      /\ job[j].pc = "index" /\ mode # "down"
      /\ job[j].block \in Blocks /\ job[j].block # NoBlock /\ Height(job[j].block) \in Nat
      /\ job'[j].pc = IF mode = "reindex" THEN "place" ELSE "len"
      /\ job'[j].off = IF mode = "reindex" THEN job[j].off ELSE tail
      /\ job'[j].block = job[j].block /\ job'[j].ok = job[j].ok
      /\ \A i \in Jobs : batch'[i].ops = batch[i].ops
      /\ batch'[j].height = Height(job[j].block)
      /\ index' = [index EXCEPT !.bonds = index'.bonds] /\ index'.bonds \in SUBSET Payloads
      /\ index'.pos = index.pos /\ index'.height = index.height
      /\ DOMAIN batch' = Jobs
      /\ \A i \in Jobs :
           /\ batch'[i] \in [ops : {batch'[i].ops}, height : Nat,
                             map : {batch'[i].map}, supply : Int]
           /\ IsMap(batch'[i].ops, Nat, Nat)
           /\ IsMap(batch'[i].map, Payloads, Nat)
      /\ UNCHANGED << log, mode, head, tail, announced, faults >>
  <2> DEFINE b == job[j].block
             p == Payload(b)
             n == Put(batch[j].map, p,
                      1 + IF p \in DOMAIN batch[j].map THEN batch[j].map[p] ELSE index.bal[p])
             h == IF Height(b) > batch[j].height THEN Height(b) ELSE batch[j].height
             ph == IF mode = "reindex" THEN "place" ELSE "len"
             o == IF mode = "reindex" THEN job[j].off ELSE tail
             s == batch[j].supply + Minted(p)
  <2>1. /\ job[j] \in JobRecords /\ job \in [Jobs -> JobRecords]
        /\ b \in Blocks /\ job[j].off \in Nat /\ tail \in Nat
        /\ job[j].pc = "index"
    BY <1>1 DEF TypeOK, JobRecords, IndexTxs
  <2>2. mode # "down" /\ \A i \in Jobs \ {j} : Quiet(i)
    BY <1>1, <2>1 DEF TypeOK, OneJob, Idle, Jobs, Quiet
  <2>3. b # NoBlock /\ Height(b) \in Nat
    <3>1. mode = "up" => Len(b) = Len(head) + 1
      BY <1>1, <2>1 DEF JobInv
    <3>2. mode = "reindex" => b # NoBlock
      BY <1>1, <2>1, <2>2 DEF ScanInv, OneJob, Quiet, Jobs
    <3>3. mode \in {"reindex", "up"} /\ head \in Blocks
      BY <1>1, <2>2 DEF TypeOK
    <3>4. b # NoBlock
      BY <3>1, <3>2, <3>3, IdleType DEF Blocks
    <3>5. QED
      BY <2>1, <3>4 DEF Blocks, NoBlock, Height
  <2>4. p \in Payloads
    BY <2>1, <2>3 DEF Payload, Blocks, NoBlock
  <2>5. batch[j].height = 0 \/ batch[j].height <= Height(b)
    <3>1. mode = "up" => batch[j].height = 0 \/ batch[j].height <= Height(head)
      BY <1>1, <2>1 DEF JobInv
    <3>2. mode = "up" => Height(head) <= Height(b)
      BY <1>1, <2>1 DEF JobInv, TypeOK, Height, Blocks
    <3>3. mode = "reindex" => batch[j].height = 0 \/ batch[j].height <= Height(b)
      BY <1>1, <2>1, <2>2 DEF ScanInv, OneJob, Quiet, Jobs
    <3>4. mode \in {"reindex", "up"} /\ batch[j].height \in Nat /\ Height(head) \in Int
      BY <1>1, <2>2 DEF TypeOK, Height, Blocks
    <3>5. QED
      BY <2>3, <3>1, <3>2, <3>3, <3>4
  <2>6. h = Height(b) /\ h \in Nat
    BY <1>1, <2>3, <2>5 DEF TypeOK
  <2>7. IsMap(n, Payloads, Nat)
    <3>1. (1 + IF p \in DOMAIN batch[j].map THEN batch[j].map[p] ELSE index.bal[p]) \in Nat
      BY <1>1, <2>4 DEF TypeOK, IsMap
    <3>2. QED
      BY <1>1, <2>4, <3>1, MapFacts DEF TypeOK
  <2>8. /\ batch' = [batch EXCEPT ![j].map = n, ![j].supply = s, ![j].height = h]
        /\ job' = [job EXCEPT ![j].pc = ph, ![j].off = o]
        /\ index' = [index EXCEPT !.bonds =
                       IF p \in Bonding THEN index.bonds \cup {p} ELSE index.bonds]
        /\ UNCHANGED << log, mode, head, tail, announced, faults >>
    BY <1>1, <2>1 DEF IndexTxs, TypeOK, JobRecords
  <2>9. ph \in Phases /\ o \in Nat
    BY <2>1 DEF Phases
  <2>10. /\ index' = [index EXCEPT !.bonds = index'.bonds] /\ index'.bonds \in SUBSET Payloads
         /\ index'.pos = index.pos /\ index'.height = index.height
    BY <1>1, <2>4, <2>8 DEF TypeOK
  <2>11. IsMap(batch[j].ops, Nat, Nat) /\ s \in Int
    <3>1. IsMap(batch[j].ops, Nat, Nat) /\ batch[j].supply \in Int /\ Minted(p) \in Int
      BY <1>1, BatchRecord, MintedIsInt
    <3>2. QED
      BY <3>1
  <2> HIDE DEF n, h, ph, o, s
  <2>12. batch' = [batch EXCEPT ![j] =
           [ops |-> batch[j].ops, height |-> h, map |-> n, supply |-> s]]
    <3>1. batch[j] \in [ops : {batch[j].ops}, height : Nat, map : {batch[j].map},
                        supply : Int]
      BY <1>1 DEF TypeOK
    <3>2. batch' = [batch EXCEPT ![j] =
            [[[batch[j] EXCEPT !.map = n] EXCEPT !.supply = s] EXCEPT !.height = h]]
      BY <1>1, <2>8 DEF TypeOK
    <3>3. s \in Int /\ h \in Nat
      BY <2>6, <2>11
    <3>4. [[[batch[j] EXCEPT !.map = n] EXCEPT !.supply = s] EXCEPT !.height = h] =
            [ops |-> batch[j].ops, height |-> h, map |-> n, supply |-> s]
      BY ONLY <3>1, <3>3, ChangedBatch
    <3>5. QED
      BY ONLY <3>2, <3>4
  <2>13. /\ DOMAIN batch' = Jobs
         /\ batch'[j].ops = batch[j].ops /\ batch'[j].height = h
         /\ \A i \in Jobs \ {j} : batch'[i] = batch[i]
         /\ \A i \in Jobs :
              /\ batch'[i] \in [ops : {batch'[i].ops}, height : Nat,
                                map : {batch'[i].map}, supply : Int]
              /\ IsMap(batch'[i].ops, Nat, Nat)
              /\ IsMap(batch'[i].map, Payloads, Nat)
    BY <1>1, <2>6, <2>7, <2>12, <2>11, BatchTypes
  <2>14. [[job[j] EXCEPT !.pc = ph] EXCEPT !.off = o] \in JobRecords
    BY <2>1, <2>9, JobType
  <2>15. job' = [job EXCEPT ![j] = [[job[j] EXCEPT !.pc = ph] EXCEPT !.off = o]]
    BY <2>1, <2>8
  <2>16. /\ job' \in [Jobs -> JobRecords] /\ \A i \in Jobs \ {j} : job'[i] = job[i]
         /\ job'[j] = [[job[j] EXCEPT !.pc = ph] EXCEPT !.off = o]
    BY <2>1, <2>14, <2>15
  <2>17. /\ job'[j].pc = ph /\ job'[j].block = job[j].block
         /\ job'[j].ok = job[j].ok /\ job'[j].off = o
    BY <2>1, <2>16 DEF JobRecords
  <2>18. QED
    BY <2>1, <2>2, <2>3, <2>6, <2>8, <2>10, <2>13, <2>16, <2>17 DEF ph, o
<1>3. TypeOK'
  <2>1. index' \in [pos : {index'.pos}, height : Nat \cup {NoHeight},
                    bal : [Payloads -> Nat], supply : Int,
                    bonds : SUBSET Payloads, seen : SUBSET Payloads]
    BY <1>1, <1>2 DEF TypeOK
  <2>2. QED
    BY <1>1, <1>2, <2>1 DEF TypeOK
<1>4. GenesisFirst'
  BY <1>1, <1>2 DEF GenesisFirst
<1>5. IndexIsChain'
  BY <1>1, <1>2 DEF IndexIsChain, Committed, HeadValid
<1>6. OneJob'
  BY <1>1, <1>2 DEF OneJob, Quiet, Jobs, TypeOK
<1>7. TailIsEnd'
  BY <1>1, <1>2 DEF TailIsEnd, Writing, Quiet, Jobs
<1>8. HeadInv'
  BY <1>1, <1>2 DEF HeadInv, Placed, Flushed, Quiet, Places, Jobs
<1>9. JobInv'
  BY <1>1, <1>2 DEF JobInv, Writing, Unflushed, Flushed, Quiet, Jobs
<1>10. ScanInv'
  <2>1. CASE mode # "reindex"
    BY <1>2, <2>1 DEF ScanInv
  <2>2. CASE mode = "reindex"
    <3>1. j = "bulk"
      BY <1>1, <1>2, <2>2 DEF OneJob, Quiet, Jobs
    <3>2. Scanned(Parent(job["bulk"].block)) => Scanned(Parent(job["bulk"].block))'
      BY <1>2, <3>1 DEF Scanned, Places, Jobs
    <3>3. QED
      BY <1>1, <1>2, <2>2, <3>1, <3>2 DEF ScanInv, Unflushed, Flushed, Placed, Jobs
  <2>3. QED
    BY <2>1, <2>2
<1>11. QED
  BY <1>3, <1>4, <1>5, <1>6, <1>7, <1>8, <1>9, <1>10 DEF IndexInv

\* Place keeps the invariant.
LEMMA PlaceStep ==
  ASSUME Calm, IndexInv, Place
  PROVE  IndexInv'
<1>1. /\ TypeOK /\ GenesisFirst /\ IndexIsChain /\ OneJob /\ TailIsEnd
      /\ HeadInv /\ JobInv /\ ScanInv
  BY DEF IndexInv
<1>2. /\ mode = "reindex" /\ job["bulk"].pc = "place"
      /\ job["bulk"].block \in Blocks /\ job["bulk"].off \in Nat
      /\ job' \in [Jobs -> JobRecords] /\ job'["add"] = job["add"]
      /\ job'["bulk"].pc = "mayflush" /\ job'["bulk"].block = job["bulk"].block
      /\ job'["bulk"].ok = job["bulk"].ok /\ job'["bulk"].off = job["bulk"].off + RecordLen
      /\ Height(job["bulk"].block) \in Nat
      /\ DOMAIN batch' = Jobs /\ batch'["add"] = batch["add"]
      /\ batch'["bulk"].ops = Put(batch["bulk"].ops, Height(job["bulk"].block), job["bulk"].off)
      /\ batch'["bulk"].height = batch["bulk"].height
      /\ batch' = [batch EXCEPT !["bulk"].ops =
                     Put(batch["bulk"].ops, Height(job["bulk"].block), job["bulk"].off)]
      /\ UNCHANGED << log, index, mode, head, tail, announced, faults >>
  <2> DEFINE o == job["bulk"].off + RecordLen
             m == Put(batch["bulk"].ops, Height(job["bulk"].block), job["bulk"].off)
  <2>1. /\ job["bulk"] \in JobRecords /\ job \in [Jobs -> JobRecords]
        /\ job["bulk"].off \in Nat /\ job["bulk"].block \in Blocks
        /\ "mayflush" \in Phases
    BY <1>1 DEF TypeOK, Jobs, Phases, JobRecords
  <2>2. mode = "reindex" /\ job["bulk"].pc = "place"
    BY <1>1 DEF Place, TypeOK, OneJob, Idle, JobInv, Jobs
  <2>3. Height(job["bulk"].block) \in Nat
    BY <1>1, <2>1, <2>2 DEF ScanInv, Height, Blocks, NoBlock
  <2>4. o \in Nat
    BY <2>1 DEF RecordLen
  <2>5. /\ DOMAIN batch = Jobs
        /\ batch["bulk"] \in [ops : {batch["bulk"].ops}, height : Nat,
                              map : {batch["bulk"].map}, supply : Int]
        /\ batch' = [batch EXCEPT !["bulk"].ops = m]
        /\ job' = [job EXCEPT !["bulk"].pc = "mayflush", !["bulk"].off = o]
        /\ UNCHANGED << log, index, mode, head, tail, announced, faults >>
    BY <1>1, <2>1 DEF Place, TypeOK, Jobs, JobRecords
  <2> HIDE DEF o
  <2>6. [[job["bulk"] EXCEPT !.pc = "mayflush"] EXCEPT !.off = o] \in JobRecords
    BY <2>1, <2>4, JobType
  <2>7. job' = [job EXCEPT !["bulk"] = [[job["bulk"] EXCEPT !.pc = "mayflush"] EXCEPT !.off = o]]
    BY <2>1, <2>5
  <2>8. /\ job' \in [Jobs -> JobRecords] /\ job'["add"] = job["add"]
        /\ job'["bulk"] = [[job["bulk"] EXCEPT !.pc = "mayflush"] EXCEPT !.off = o]
    BY <2>1, <2>6, <2>7 DEF Jobs
  <2>9. /\ job'["bulk"].pc = "mayflush" /\ job'["bulk"].block = job["bulk"].block
        /\ job'["bulk"].ok = job["bulk"].ok /\ job'["bulk"].off = o
    BY <2>1, <2>8 DEF JobRecords
  <2>10. QED
    BY <2>1, <2>2, <2>3, <2>5, <2>8, <2>9 DEF o, Jobs
<1>3. TypeOK'
  <2>1. IsMap(batch'["bulk"].ops, Nat, Nat)
    BY <1>1, <1>2, MapFacts DEF TypeOK, Jobs
  <2>2. QED
    BY <1>1, <1>2, <2>1 DEF TypeOK, Jobs
<1>4. GenesisFirst'
  BY <1>1, <1>2 DEF GenesisFirst
<1>5. IndexIsChain'
  BY <1>1, <1>2 DEF IndexIsChain, Committed, HeadValid
<1>6. OneJob'
  BY <1>1, <1>2 DEF OneJob, Quiet, Jobs
<1>7. TailIsEnd'
  BY <1>1, <1>2 DEF TailIsEnd, Writing, OneJob, Quiet, Jobs
<1>8. HeadInv'
  BY <1>1, <1>2 DEF HeadInv, Placed, Flushed, Quiet, Places, Jobs
<1>9. JobInv'
  BY <1>1, <1>2 DEF JobInv, Writing, Unflushed, Flushed, Jobs
<1>10. ScanInv'
  <2> DEFINE r == job["bulk"]
             b == r.block
  <2>1. /\ b # NoBlock /\ r.off = RecordLen * Height(b) /\ Stored(log, r.off, b)
        /\ Scanned(Parent(b)) /\ r.ok /\ index.height = NoHeight
        /\ batch["bulk"].height = Height(b)
    BY <1>1, <1>2 DEF ScanInv, Flushed
  <2>2. /\ Len(b) \in Nat /\ Len(b) > 0 /\ Height(b) = Len(b) - 1
        /\ SubSeq(b, 1, Len(b)) = b /\ Height(Parent(b)) = Height(b) - 1
        /\ \A h \in 0..(Len(b) - 2) : SubSeq(b, 1, h + 1) = SubSeq(Parent(b), 1, h + 1)
    <3>1. Len(b) \in Nat /\ Len(b) > 0
      BY <1>2, <2>1 DEF Blocks, NoBlock
    <3>2. /\ SubSeq(b, 1, Len(b)) = b /\ Len(Parent(b)) = Len(b) - 1
          /\ \A h \in 0..(Len(b) - 2) : SubSeq(b, 1, h + 1) = SubSeq(Parent(b), 1, h + 1)
      BY <1>2, <3>1, PrefixFacts
    <3>3. QED
      BY <3>1, <3>2 DEF Height
  <2>3. ASSUME NEW h \in 0..Height(b)
        PROVE  /\ h \in DOMAIN Places("bulk")'
               /\ Places("bulk")'[h] = RecordLen * h
               /\ Stored(log, RecordLen * h, SubSeq(b, 1, h + 1))
    <3>1. CASE h = Height(b)
      <4>1. h + 1 = Len(b)
        BY <2>2, <3>1
      <4>2. Stored(log, RecordLen * h, SubSeq(b, 1, h + 1))
        BY <2>1, <2>2, <3>1, <4>1
      <4>3. QED
        BY <1>2, <2>1, <3>1, <4>2 DEF Places, Put, Over
    <3>2. CASE h # Height(b)
      <4>1. h \in 0..Height(Parent(b)) /\ h \in 0..(Len(b) - 2)
        BY <2>2, <3>2
      <4>2. /\ h \in DOMAIN Places("bulk") /\ Places("bulk")[h] = RecordLen * h
            /\ Stored(log, RecordLen * h, SubSeq(b, 1, h + 1))
        BY <2>1, <2>2, <4>1 DEF Scanned
      <4>3. QED
        BY <1>2, <3>2, <4>2 DEF Places, Put, Over
    <3>3. QED
      BY <3>1, <3>2
  <2>4. Scanned(job["bulk"].block)'
    BY <1>2, <2>3 DEF Scanned
  <2>5. job'["bulk"].off = RecordLen * Len(b)
    BY <1>2, <2>1, <2>2 DEF RecordLen
  <2>6. QED
    BY <1>2, <2>1, <2>4, <2>5 DEF ScanInv, Unflushed, Flushed, Placed
<1>11. QED
  BY <1>3, <1>4, <1>5, <1>6, <1>7, <1>8, <1>9, <1>10 DEF IndexInv

\* WritePart keeps the invariant.
LEMMA WritePartStep ==
  ASSUME Calm, IndexInv, NEW j \in Jobs, WritePart(j)
  PROVE  IndexInv'
<1>1. /\ TypeOK /\ GenesisFirst /\ IndexIsChain /\ OneJob /\ TailIsEnd
      /\ HeadInv /\ JobInv /\ ScanInv
  BY DEF IndexInv
<1>2. /\ mode = "up" /\ \A i \in Jobs \ {j} : Quiet(i) /\ job'[i] = job[i]
      /\ job[j].pc \in {"len", "body"} /\ job[j].block \in Blocks
      /\ log \in Seq(Pieces) /\ Piece(job[j].block, job[j].pc) \in Pieces
      /\ log' = Append(log, Piece(job[j].block, job[j].pc)) /\ log' \in Seq(Pieces)
      /\ Len(log') = Len(log) + 1
      /\ job' \in [Jobs -> JobRecords]
      /\ job'[j].pc = IF job[j].pc = "len" THEN "body" ELSE "crc"
      /\ job'[j].block = job[j].block /\ job'[j].off = job[j].off /\ job'[j].ok = job[j].ok
      /\ UNCHANGED << index, mode, head, tail, batch, announced, faults >>
  <2>1. "body" \in Phases /\ "crc" \in Phases
    BY DEF Phases
  <2>2. mode = "up" /\ \A i \in Jobs \ {j} : Quiet(i)
    BY <1>1 DEF WritePart, TypeOK, OneJob, Idle, Jobs, ScanInv, Unflushed, Flushed, Quiet
  <2>3. /\ job[j].block \in Blocks /\ log \in Seq(Pieces) /\ job[j].pc \in {"len", "body"}
    BY <1>1 DEF TypeOK, JobRecords, WritePart
  <2>4. Piece(job[j].block, job[j].pc) \in Pieces
    BY <2>3 DEF Piece, Pieces, Parts
  <2>5. /\ log' = Append(log, Piece(job[j].block, job[j].pc))
        /\ log' \in Seq(Pieces) /\ Len(log') = Len(log) + 1
    BY <2>3, <2>4 DEF WritePart
  <2>6. /\ job' \in [Jobs -> JobRecords] /\ \A i \in Jobs \ {j} : job'[i] = job[i]
        /\ job'[j].pc = IF job[j].pc = "len" THEN "body" ELSE "crc"
        /\ job'[j].block = job[j].block /\ job'[j].off = job[j].off /\ job'[j].ok = job[j].ok
    BY <1>1, <2>1, GotoFacts DEF WritePart
  <2>7. QED
    BY <2>2, <2>3, <2>4, <2>5, <2>6 DEF WritePart
<1>3. TypeOK'
  BY <1>1, <1>2 DEF TypeOK
<1>4. GenesisFirst'
  <2>1. CASE Len(log) > 0
    BY <1>1, <1>2, <2>1 DEF GenesisFirst
  <2>2. CASE Len(log) = 0
    <3>1. head = NoBlock
      <4>1. /\ Chained(log, Places(j), head) /\ head \in Blocks
            /\ IsMap(batch[j].ops, Nat, Nat) /\ IsMap(index.pos, Nat, Nat)
        BY <1>1, <1>2 DEF HeadInv, TypeOK
      <4>2. IsMap(Places(j), Nat, Nat)
        BY <4>1, MapFacts DEF Places
      <4>3. ASSUME head # NoBlock PROVE FALSE
        <5>1. Len(head) > 0
          BY <4>1, <4>3 DEF Blocks, NoBlock
        <5>2. Height(head) \in DOMAIN Places(j) /\ Stored(log, Places(j)[Height(head)], head)
          BY <4>1, <5>1, TopOfChain
        <5>3. QED
          BY <2>2, <4>2, <5>2 DEF Stored, Readable, RecordLen, IsMap
      <4>4. QED
        BY <4>3
    <3>2. Len(job[j].block) = 1
      BY <1>1, <1>2, <3>1, IdleType DEF JobInv, Writing
    <3>3. log'[1] = Piece(job[j].block, job[j].pc)
      BY <1>2, <2>2
    <3>4. QED
      BY <3>2, <3>3 DEF GenesisFirst, Piece
  <2>3. QED
    BY <1>2, <2>1, <2>2
<1>5. IndexIsChain'
  BY <1>1, <1>2, AppendKeepsIndex
<1>6. OneJob'
  BY <1>1, <1>2 DEF OneJob, Quiet, Jobs
<1>7. TailIsEnd'
  <2>1. /\ tail \in Nat /\ Len(log) \in Nat /\ job'[j].off = tail
        /\ job[j].pc = "len" => Len(log) = tail
        /\ job[j].pc = "body" => Len(log) = tail + 1 /\ log[tail + 1] = Piece(job[j].block, "len")
    BY <1>1, <1>2 DEF TailIsEnd, TypeOK, Writing, Quiet, Jobs
  <2>2. /\ job[j].pc = "len" => log'[tail + 1] = Piece(job[j].block, "len")
        /\ job[j].pc = "body" => /\ log'[tail + 1] = Piece(job[j].block, "len")
                                 /\ log'[tail + 2] = Piece(job[j].block, "body")
    BY <1>2, <2>1
  <2>3. QED
    BY <1>2, <2>1, <2>2 DEF TailIsEnd, Quiet, Writing
<1>8. HeadInv'
  <2>1. /\ Chained(log, Places(j), head) /\ head \in Blocks
        /\ IsMap(batch[j].ops, Nat, Nat) /\ IsMap(index.pos, Nat, Nat)
    BY <1>1, <1>2 DEF HeadInv, TypeOK
  <2>2. IsMap(Places(j), Nat, Nat)
    BY <2>1, MapFacts DEF Places
  <2>3. Chained(log', Places(j), head)
    BY <1>2, <2>1, <2>2, ChainedAppend
  <2>4. Chained(log', Places(j)', head)
    BY <1>2, <2>3 DEF Places
  <2>5. \A i \in Jobs \ {j} : ~(\A k \in Jobs \ {i} : job'[k].pc = "idle")
    BY <1>2
  <2>6. QED
    BY <1>1, <1>2, <2>4, <2>5 DEF HeadInv, Placed, Flushed, Quiet
<1>9. JobInv'
  BY <1>1, <1>2 DEF JobInv, Writing, Unflushed, Flushed, Jobs
<1>10. ScanInv'
  BY <1>1, <1>2 DEF ScanInv, Scanned, Places, Unflushed, Flushed, Placed, Jobs
<1>11. QED
  BY <1>3, <1>4, <1>5, <1>6, <1>7, <1>8, <1>9, <1>10 DEF IndexInv

\* WriteCrc keeps the invariant.
LEMMA WriteCrcStep ==
  ASSUME Calm, IndexInv, NEW j \in Jobs, WriteCrc(j)
  PROVE  IndexInv'
<1>1. /\ TypeOK /\ GenesisFirst /\ IndexIsChain /\ OneJob /\ TailIsEnd
      /\ HeadInv /\ JobInv /\ ScanInv
  BY DEF IndexInv
<1>2. /\ mode = "up" /\ \A i \in Jobs \ {j} : Quiet(i) /\ job'[i] = job[i] /\ batch'[i] = batch[i]
      /\ job[j].pc = "crc" /\ job[j].block \in Blocks /\ job[j].off = tail
      /\ log \in Seq(Pieces) /\ Piece(job[j].block, "crc") \in Pieces
      /\ log' = Append(log, Piece(job[j].block, "crc")) /\ log' \in Seq(Pieces)
      /\ Len(log') = Len(log) + 1
      /\ head' = job[j].block /\ tail' = tail + RecordLen
      /\ Len(log) = tail + 2 /\ tail \in Nat
      /\ log[tail + 1] = Piece(job[j].block, "len")
      /\ log[tail + 2] = Piece(job[j].block, "body")
      /\ Height(job[j].block) = Height(head) + 1 /\ Height(job[j].block) \in Nat
      /\ Len(job[j].block) > 0 /\ head \in Blocks /\ Height(head) \in Int
      /\ Parent(job[j].block) = head
      /\ job' \in [Jobs -> JobRecords]
      /\ job'[j].pc = "mayflush"
      /\ DOMAIN batch' = Jobs
      /\ batch'[j].ops = Put(batch[j].ops, Height(job[j].block), tail)
      /\ IsMap(batch'[j].ops, Nat, Nat)
      /\ batch' = [batch EXCEPT ![j].ops = batch'[j].ops]
      /\ batch'[j].height = batch[j].height
      /\ UNCHANGED << index, mode, announced, faults >>
  <2>1. "mayflush" \in Phases
    BY DEF Phases
  <2>2. mode = "up" /\ \A i \in Jobs \ {j} : Quiet(i)
    BY <1>1 DEF WriteCrc, TypeOK, OneJob, Idle, Jobs, ScanInv, Unflushed, Flushed, Quiet
  <2>3. /\ job[j].block \in Blocks /\ log \in Seq(Pieces) /\ job[j].pc = "crc"
        /\ head \in Blocks /\ tail \in Nat
    BY <1>1 DEF TypeOK, JobRecords, WriteCrc
  <2>4. Piece(job[j].block, "crc") \in Pieces
    BY <2>3 DEF Piece, Pieces, Parts
  <2>5. /\ log' = Append(log, Piece(job[j].block, "crc"))
        /\ log' \in Seq(Pieces) /\ Len(log') = Len(log) + 1
    BY <2>3, <2>4 DEF WriteCrc
  <2>6. /\ job' \in [Jobs -> JobRecords] /\ \A i \in Jobs \ {j} : job'[i] = job[i]
        /\ job'[j].pc = "mayflush"
    BY <1>1, <2>1, GotoFacts DEF WriteCrc
  <2>7. /\ job[j].off = tail /\ Len(log) = tail + 2
        /\ log[tail + 1] = Piece(job[j].block, "len")
        /\ log[tail + 2] = Piece(job[j].block, "body")
    BY <1>1, <2>2, <2>3 DEF TailIsEnd, Writing
  <2>8. /\ Parent(job[j].block) = head /\ Len(job[j].block) = Len(head) + 1
    BY <1>1, <2>2, <2>3 DEF JobInv, Writing
  <2>9. /\ Height(job[j].block) = Height(head) + 1 /\ Height(job[j].block) \in Nat
        /\ Len(job[j].block) > 0 /\ Height(head) \in Int
    BY <2>3, <2>8 DEF Height, Blocks
  <2>10. /\ batch' = [batch EXCEPT ![j].ops = Put(batch[j].ops, Height(job[j].block), tail)]
         /\ IsMap(Put(batch[j].ops, Height(job[j].block), tail), Nat, Nat)
    BY <1>1, <2>3, <2>7, <2>9, MapFacts DEF WriteCrc, TypeOK
  <2>11. /\ DOMAIN batch' = Jobs /\ \A i \in Jobs \ {j} : batch'[i] = batch[i]
         /\ batch'[j].ops = Put(batch[j].ops, Height(job[j].block), tail)
         /\ batch'[j].height = batch[j].height
    BY <1>1, <2>10 DEF TypeOK
  <2>12. QED
    BY <2>2, <2>3, <2>4, <2>5, <2>6, <2>7, <2>8, <2>9, <2>10, <2>11 DEF WriteCrc
<1>3. TypeOK'
  <2>1. \A i \in Jobs :
          /\ batch'[i] \in [ops : {batch'[i].ops}, height : Nat,
                            map : {batch'[i].map}, supply : Int]
          /\ IsMap(batch'[i].ops, Nat, Nat)
          /\ IsMap(batch'[i].map, Payloads, Nat)
    BY <1>1, <1>2 DEF TypeOK
  <2>2. tail' \in Nat
    BY <1>2 DEF RecordLen
  <2>3. QED
    BY <1>1, <1>2, <2>1, <2>2 DEF TypeOK
<1>4. GenesisFirst'
  BY <1>1, <1>2 DEF GenesisFirst
<1>5. IndexIsChain'
  BY <1>1, <1>2, AppendKeepsIndex
<1>6. OneJob'
  BY <1>1, <1>2 DEF OneJob, Quiet, Jobs
<1>7. TailIsEnd'
  BY <1>2, SMTT(30) DEF TailIsEnd, Writing, Quiet, RecordLen
<1>8. HeadInv'
  <2>1. /\ Chained(log, Places(j), head) /\ IsMap(index.pos, Nat, Nat)
        /\ IsMap(batch[j].ops, Nat, Nat)
    BY <1>1, <1>2 DEF HeadInv, TypeOK
  <2>2. IsMap(Places(j), Nat, Nat)
    BY <2>1, MapFacts DEF Places
  <2>3. Chained(log', Places(j), head)
    BY <1>2, <2>1, <2>2, ChainedAppend
  <2>4. Stored(log', tail, job[j].block)
    BY <1>2 DEF Stored, Readable, BlockAt, RecordLen, Piece
  <2>5. /\ Height(job[j].block) \in DOMAIN Places(j)'
        /\ Places(j)'[Height(job[j].block)] = tail
        /\ \A h \in 0..Height(head) : h \in DOMAIN Places(j) =>
             h \in DOMAIN Places(j)' /\ Places(j)'[h] = Places(j)[h]
    BY <1>2 DEF Places, Over, Put
  <2>6. Chained(log', Places(j)', job[j].block)
    BY <1>2, <2>3, <2>4, <2>5, ChainedExtend
  <2>7. \A i \in Jobs \ {j} : ~(\A k \in Jobs \ {i} : job'[k].pc = "idle")
    BY <1>2
  <2>8. index.height \in Int /\ index.height <= Height(head)
    BY <1>1, <1>2 DEF TypeOK, NoHeight, HeadInv
  <2>9. \A h \in DOMAIN batch'[j].ops : h > index.height
    BY <1>1, <1>2, <2>8 DEF HeadInv, Put
  <2>10. \A i \in Jobs \ {j} : job'[i].pc = "idle" /\ \A h \in DOMAIN batch'[i].ops : h > index.height
    BY <1>1, <1>2 DEF HeadInv, Quiet
  <2>11. index.height <= Height(head')
    BY <1>2, <2>8
  <2>12. QED
    BY <1>2, <2>6, <2>7, <2>9, <2>10, <2>11 DEF HeadInv, Placed, Flushed, Quiet
<1>9. JobInv'
  <2>1. job[j].block # NoBlock
    BY <1>2, IdleType
  <2>2. batch[j].height = Height(job[j].block)
    BY <1>1, <1>2 DEF JobInv, Writing
  <2>3. \A i \in Jobs \ {j} : job'[i].pc = "idle" /\ (batch'[i].height = 0 \/ batch'[i].height <= Height(head'))
    <3>1. \A i \in Jobs \ {j} : batch[i].height \in Nat /\ (batch[i].height = 0 \/ batch[i].height <= Height(head))
      BY <1>1, <1>2 DEF JobInv, TypeOK, Quiet
    <3>2. QED
      BY <1>2, <3>1 DEF Quiet
  <2>4. QED
    BY <1>2, <2>1, <2>2, <2>3 DEF JobInv, Writing, Unflushed, Flushed
<1>10. ScanInv'
  BY <1>1, <1>2 DEF ScanInv, Scanned, Places, Unflushed, Flushed, Placed, Jobs
<1>11. QED
  BY <1>3, <1>4, <1>5, <1>6, <1>7, <1>8, <1>9, <1>10 DEF IndexInv

\* MayFlush keeps the invariant.
LEMMA MayFlushStep ==
  ASSUME Calm, IndexInv, NEW j \in Jobs, MayFlush(j)
  PROVE  IndexInv'
<1>1. /\ TypeOK /\ GenesisFirst /\ IndexIsChain /\ OneJob /\ TailIsEnd
      /\ HeadInv /\ JobInv /\ ScanInv
  BY DEF IndexInv
<1>2. /\ mode # "down" /\ \A i \in Jobs \ {j} : Quiet(i) /\ job'[i] = job[i]
      /\ mode = "reindex" => j = "bulk"
      /\ job[j].pc = "mayflush"
      /\ job' \in [Jobs -> JobRecords]
      /\ job'[j].pc = IF j = "add" THEN "flushpos"
                      ELSE IF mode = "reindex" THEN "scan" ELSE "fetch"
      /\ job'[j].block = job[j].block
      /\ job'[j].off = job[j].off /\ job'[j].ok = job[j].ok
      /\ \/ WritePositions(j)
         \/ UNCHANGED << index, batch >>
      /\ UNCHANGED << log, mode, head, tail, announced, faults >>
  <2>1. "flushpos" \in Phases /\ "scan" \in Phases /\ "fetch" \in Phases
    BY DEF Phases
  <2>2. /\ job' \in [Jobs -> JobRecords] /\ \A i \in Jobs \ {j} : job'[i] = job[i]
        /\ job'[j].pc = IF j = "add" THEN "flushpos"
                        ELSE IF mode = "reindex" THEN "scan" ELSE "fetch"
        /\ job'[j].block = job[j].block
        /\ job'[j].off = job[j].off /\ job'[j].ok = job[j].ok
    BY <1>1, <2>1, GotoFacts DEF MayFlush
  <2>3. /\ mode # "down" /\ \A i \in Jobs \ {j} : Quiet(i)
        /\ mode = "reindex" => j = "bulk"
    BY <1>1 DEF MayFlush, TypeOK, OneJob, Idle, Jobs, Quiet
  <2>4. job[j].pc = "mayflush" /\ UNCHANGED << log, mode, head, tail, announced, faults >>
    BY DEF MayFlush
  <2>5. WritePositions(j) \/ UNCHANGED << index, batch >>
    BY DEF MayFlush
  <2>6. QED
    BY <2>2, <2>3, <2>4, <2>5
<1>3. \/ UNCHANGED << index, batch >>
      \/ /\ DOMAIN batch' = Jobs /\ batch'[j].ops = NoMap
         /\ \A i \in Jobs \ {j} : batch'[i] = batch[i]
         /\ batch' = [batch EXCEPT ![j].ops = NoMap]
         /\ index' = [index EXCEPT !.pos = Places(j)]
  BY <1>1, <1>2 DEF WritePositions, TypeOK, Places
<1>4. /\ index'.height = index.height
      /\ \A i \in Jobs : batch'[i].height = batch[i].height
      /\ \A i \in Jobs : batch'[i].ops = NoMap \/ batch'[i].ops = batch[i].ops
      /\ \A i \in Jobs \ {j} : batch'[i] = batch[i]
      /\ index'.pos = index.pos \/ index'.pos = Places(j)
  <2>1. CASE UNCHANGED << index, batch >>
    BY <2>1
  <2>2. CASE ~UNCHANGED << index, batch >>
    <3>1. index'.height = index.height /\ index'.pos = Places(j)
      BY <1>1, <1>3, <2>2 DEF TypeOK
    <3>2. batch'[j].height = batch[j].height /\ batch'[j].ops = NoMap
      BY <1>1, <1>3, <2>2 DEF TypeOK
    <3>3. \A i \in Jobs \ {j} : batch'[i] = batch[i]
      BY <1>3, <2>2
    <3>4. QED
      BY <3>1, <3>2, <3>3
  <2>3. QED
    BY <2>1, <2>2
<1>5. TypeOK'
  <2>1. CASE UNCHANGED << index, batch >>
    BY <1>1, <1>2, <2>1 DEF TypeOK
  <2>2. CASE ~UNCHANGED << index, batch >>
    <3>1. ASSUME NEW i \in Jobs
          PROVE  /\ batch'[i] \in [ops : {batch'[i].ops}, height : Nat,
                                   map : {batch'[i].map}, supply : Int]
                 /\ IsMap(batch'[i].ops, Nat, Nat)
                 /\ IsMap(batch'[i].map, Payloads, Nat)
      <4>1. CASE i = j
        <5>1. batch'[j] = [batch[j] EXCEPT !.ops = NoMap]
          BY <1>1, <1>3, <2>2 DEF TypeOK
        <5>2. IsMap(NoMap, Nat, Nat) /\ IsMap(batch[j].map, Payloads, Nat)
          BY <1>1, EmptyTypes DEF TypeOK
        <5>3. QED
          BY <1>1, <4>1, <5>1, <5>2 DEF TypeOK
      <4>2. CASE i # j
        BY <1>1, <1>3, <2>2, <4>2 DEF TypeOK
      <4>3. QED
        BY <4>1, <4>2
    <3>2. index' = [index EXCEPT !.pos = Places(j)] /\ DOMAIN batch' = Jobs
      BY <1>3, <2>2
    <3>3. IsMap(Places(j), Nat, Nat)
      BY <1>1, MapFacts DEF TypeOK, Places
    <3>4. /\ index' \in [pos : {index'.pos}, height : Nat \cup {NoHeight},
                    bal : [Payloads -> Nat], supply : Int,
                    bonds : SUBSET Payloads, seen : SUBSET Payloads]
          /\ index'.pos = Places(j)
      BY <1>1, <3>2 DEF TypeOK
    <3>5. QED
      BY <1>1, <1>2, <3>1, <3>2, <3>3, <3>4 DEF TypeOK
  <2>3. QED
    BY <2>1, <2>2
<1>6. GenesisFirst'
  BY <1>1, <1>2 DEF GenesisFirst
<1>7. IndexIsChain'
  <2>1. CASE mode = "reindex"
    BY <1>1, <1>2, <1>4, <2>1 DEF IndexIsChain, ScanInv, Flushed
  <2>2. CASE mode = "up"
    <3>1. index.height \in Int /\ \A h \in DOMAIN batch[j].ops : h > index.height
      BY <1>1, <2>2 DEF HeadInv, TypeOK, NoHeight
    <3>2. \A h \in 0..index.height : h \in DOMAIN index.pos =>
            h \in DOMAIN index'.pos /\ index'.pos[h] = index.pos[h]
      <4>1. CASE index'.pos = index.pos
        BY <4>1
      <4>2. CASE index'.pos = Places(j)
        <5>1. ASSUME NEW g \in 0..index.height PROVE g \notin DOMAIN batch[j].ops
          BY <3>1
        <5>2. QED
          BY <4>2, <5>1 DEF Places, Over
      <4>3. index'.pos = index.pos \/ index'.pos = Places(j)
        BY <1>4
      <4>4. QED
        BY <4>1, <4>2, <4>3
    <3>3. QED
      BY <1>1, <1>2, <1>4, <3>2, PositionsKept
  <2>3. QED
    BY <1>1, <1>2, <2>1, <2>2 DEF TypeOK
<1>8. OneJob'
  <2>1. mode = "reindex" => job["add"].pc = "idle" /\ batch["add"] = EmptyBatch
    BY <1>1 DEF OneJob, Quiet
  <2>2. /\ mode' = mode /\ head' = head /\ job'[j].pc # "idle" /\ mode # "down"
        /\ \A i \in Jobs \ {j} : job'[i].pc = "idle" /\ batch'[i].ops = NoMap
    BY <1>1, <1>2, <1>4 DEF OneJob, Quiet
  <2>3. mode = "reindex" => j = "bulk" /\ job'["add"].pc = "idle" /\ batch'["add"] = EmptyBatch
    <3>1. ASSUME mode = "reindex" PROVE j = "bulk" /\ "add" \in Jobs \ {j}
      BY <1>2, <3>1 DEF Jobs
    <3>2. \A i \in Jobs \ {j} : job'[i] = job[i] /\ batch'[i] = batch[i]
      BY <1>2, <1>4
    <3>3. QED
      BY <2>1, <3>1, <3>2
  <2>4. mode # "up" => head = NoBlock
    BY <1>1 DEF OneJob
  <2>5. mode \in {"reindex", "up"}
    BY <1>1, <2>2 DEF TypeOK
  <2>6. QED
    BY <2>2, <2>3, <2>4, <2>5 DEF OneJob, Quiet, Jobs
<1>9. TailIsEnd'
  BY <1>1, <1>2 DEF TailIsEnd, Writing, OneJob, Quiet, Jobs
<1>10. HeadInv'
  <2>1. SUFFICES ASSUME mode = "up" PROVE HeadInv'
    BY <1>2 DEF HeadInv
  <2>2. Chained(log, Places(j), head) /\ head \in Blocks
    BY <1>1, <1>2, <2>1 DEF HeadInv, TypeOK
  <2>3. Chained(log, Places(j)', head)
    <3>1. CASE UNCHANGED << index, batch >>
      BY <2>2, <3>1 DEF Places
    <3>2. CASE ~UNCHANGED << index, batch >>
      <4>1. batch'[j].ops = NoMap /\ index'.pos = Places(j)
        BY <1>1, <1>3, <3>2 DEF TypeOK
      <4>2. QED
        BY <2>2, <4>1, OverNoMap DEF Places
    <3>3. QED
      BY <3>1, <3>2
  <2>4. \A i \in Jobs \ {j} : ~(\A k \in Jobs \ {i} : job'[k].pc = "idle")
    BY <1>2
  <2>5. \A i \in Jobs : \A g \in DOMAIN batch'[i].ops : g > index.height
    BY <1>1, <1>4, <2>1, EmptyTypes DEF HeadInv
  <2>6. \A i \in Jobs \ {j} : job'[i].pc = "idle"
    BY <1>2 DEF Quiet
  <2>7. index.height <= Height(head)
    BY <1>1, <2>1 DEF HeadInv
  <2>8. job'[j].pc \notin Placed \cup {"idle"} /\ "idle" \notin Placed
    BY <1>2 DEF Placed, Flushed
  <2>9. QED
    BY <1>2, <1>4, <2>3, <2>4, <2>5, <2>6, <2>7, <2>8 DEF HeadInv, Placed, Quiet
<1>11. JobInv'
  <2>1. CASE mode = "up"
    <3>1. \A i \in Jobs \ {j} :
            job'[i].pc = "idle" /\ (batch'[i].height = 0 \/ batch'[i].height <= Height(head))
      BY <1>1, <1>2, <1>4, <2>1 DEF JobInv, Quiet
    <3>2. head # NoBlock /\ batch'[j].height = Height(head)
      BY <1>1, <1>2, <1>4, <2>1 DEF JobInv, Unflushed
    <3>4. Height(head) \in Int
      BY <1>1 DEF TypeOK, Height, Blocks
    <3>5. QED
      BY <1>2, <2>1, <3>1, <3>2, <3>4 DEF JobInv, Writing, Unflushed, Flushed, Jobs
  <2>2. CASE mode # "up"
    BY <1>2, <2>2 DEF JobInv
  <2>3. QED
    BY <2>1, <2>2
<1>12. ScanInv'
  <2>1. SUFFICES ASSUME mode = "reindex" PROVE ScanInv'
    BY <1>2 DEF ScanInv
  <2>2. j = "bulk"
    BY <1>2, <2>1
  <2>3. \A g : g \in DOMAIN Places("bulk") =>
          g \in DOMAIN Places("bulk")' /\ Places("bulk")'[g] = Places("bulk")[g]
    <3>1. CASE UNCHANGED << index, batch >>
      BY <3>1 DEF Places
    <3>2. CASE ~UNCHANGED << index, batch >>
      <4>1. batch'["bulk"].ops = NoMap /\ index'.pos = Places("bulk")
        BY <1>1, <1>3, <2>2, <3>2 DEF TypeOK
      <4>2. QED
        BY <4>1, EmptyTypes DEF Places, Over
    <3>3. QED
      BY <3>1, <3>2
  <2>4. Scanned(job["bulk"].block)
    BY <1>1, <1>2, <2>1, <2>2 DEF ScanInv
  <2>5. Scanned(job["bulk"].block)'
    BY <1>2, <2>2, <2>3, <2>4 DEF Scanned
  <2>6. /\ job["bulk"].ok /\ index.height = NoHeight
        /\ job["bulk"].off = RecordLen * Len(job["bulk"].block)
        /\ job["bulk"].block # NoBlock
        /\ batch["bulk"].height = Height(job["bulk"].block)
    BY <1>1, <1>2, <2>1, <2>2 DEF ScanInv, Unflushed, Flushed
  <2>7. Height(job["bulk"].block) \in Int
    BY <1>1, <2>6 DEF TypeOK, Jobs
  <2>8. /\ job'["bulk"].pc = "scan" /\ job'["bulk"].block = job["bulk"].block
        /\ job'["bulk"].off = job["bulk"].off /\ job'["bulk"].ok = job["bulk"].ok
        /\ index'.height = index.height /\ batch'["bulk"].height = batch["bulk"].height
    BY <1>2, <1>4, <2>1, <2>2 DEF Jobs
  <2>9. QED
    BY <2>5, <2>6, <2>7, <2>8 DEF ScanInv, Unflushed, Flushed, Placed
<1>13. QED
  BY <1>5, <1>6, <1>7, <1>8, <1>9, <1>10, <1>11, <1>12 DEF IndexInv

\* FlushPos keeps the invariant.
LEMMA FlushPosStep ==
  ASSUME Calm, IndexInv, NEW j \in Jobs, FlushPos(j)
  PROVE  IndexInv'
<1>1. /\ TypeOK /\ GenesisFirst /\ IndexIsChain /\ OneJob /\ TailIsEnd
      /\ HeadInv /\ JobInv /\ ScanInv
  BY DEF IndexInv
<1>2. /\ mode # "down" /\ \A i \in Jobs \ {j} : Quiet(i) /\ job'[i] = job[i]
      /\ mode = "reindex" => j = "bulk"
      /\ job[j].pc = "flushpos"
      /\ job' \in [Jobs -> JobRecords]
      /\ job'[j].pc = "flushbal" /\ job'[j].block = job[j].block
      /\ job'[j].off = job[j].off /\ job'[j].ok = job[j].ok
      /\ DOMAIN batch' = Jobs /\ batch'[j].ops = NoMap
      /\ \A i \in Jobs \ {j} : batch'[i] = batch[i]
      /\ \A i \in Jobs : batch'[i].height = batch[i].height
      /\ batch' = [batch EXCEPT ![j].ops = NoMap]
      /\ index' = [index EXCEPT !.pos = Places(j)]
      /\ index'.pos = Places(j) /\ index'.height = index.height
      /\ IsMap(Places(j), Nat, Nat)
      /\ UNCHANGED << log, mode, head, tail, announced, faults >>
  <2>1. NextPhase("flushpos") = "flushbal" /\ "flushbal" \in Phases
    BY DEF NextPhase, Phases
  <2>2. /\ job' \in [Jobs -> JobRecords] /\ \A i \in Jobs \ {j} : job'[i] = job[i]
        /\ job'[j].pc = "flushbal" /\ job'[j].block = job[j].block
        /\ job'[j].off = job[j].off /\ job'[j].ok = job[j].ok
    BY <1>1, <2>1, GotoFacts DEF FlushPos
  <2>3. /\ mode # "down" /\ \A i \in Jobs \ {j} : Quiet(i)
        /\ mode = "reindex" => j = "bulk"
    BY <1>1 DEF FlushPos, TypeOK, OneJob, Idle, Jobs, Quiet
  <2>4. /\ DOMAIN batch' = Jobs /\ batch'[j].ops = NoMap
        /\ \A i \in Jobs \ {j} : batch'[i] = batch[i]
        /\ \A i \in Jobs : batch'[i].height = batch[i].height
        /\ batch' = [batch EXCEPT ![j].ops = NoMap]
        /\ index' = [index EXCEPT !.pos = Places(j)]
        /\ index'.pos = Places(j) /\ index'.height = index.height
        /\ IsMap(Places(j), Nat, Nat)
    BY <1>1, MapFacts DEF FlushPos, WritePositions, TypeOK, Places
  <2>9. job[j].pc = "flushpos" /\ UNCHANGED << log, mode, head, tail, announced, faults >>
    BY DEF FlushPos
  <2>10. QED
    BY <2>4, <2>2, <2>3, <2>9
<1>3. TypeOK'
  <2>1. ASSUME NEW i \in Jobs
        PROVE
          /\ batch'[i] \in [ops : {batch'[i].ops}, height : Nat,
                            map : {batch'[i].map}, supply : Int]
          /\ IsMap(batch'[i].ops, Nat, Nat)
          /\ IsMap(batch'[i].map, Payloads, Nat)
    <3>1. CASE i = j
      <4>1. batch'[j] = [batch[j] EXCEPT !.ops = NoMap]
        BY <1>1, <1>2 DEF TypeOK
      <4>2. IsMap(NoMap, Nat, Nat) /\ IsMap(batch[j].map, Payloads, Nat)
        BY <1>1, EmptyTypes DEF TypeOK
      <4>3. QED
        BY <1>1, <3>1, <4>1, <4>2 DEF TypeOK
    <3>2. CASE i # j
      BY <1>1, <1>2, <3>2 DEF TypeOK
    <3>3. QED
      BY <3>1, <3>2
  <2>2. index' \in [pos : {index'.pos}, height : Nat \cup {NoHeight},
                    bal : [Payloads -> Nat], supply : Int,
                    bonds : SUBSET Payloads, seen : SUBSET Payloads]
    BY <1>1, <1>2 DEF TypeOK
  <2>3. QED
    BY <1>1, <1>2, <2>1, <2>2 DEF TypeOK
<1>4. GenesisFirst'
  BY <1>1, <1>2 DEF GenesisFirst
<1>5. IndexIsChain'
  <2>1. CASE mode = "reindex"
    BY <1>1, <1>2, <2>1 DEF IndexIsChain, ScanInv, Flushed
  <2>2. CASE mode = "up"
    <3>1. index.height \in Int /\ \A h \in DOMAIN batch[j].ops : h > index.height
      BY <1>1, <2>2 DEF HeadInv, TypeOK, NoHeight
    <3>2. \A h \in 0..index.height : h \in DOMAIN index.pos =>
            h \in DOMAIN index'.pos /\ index'.pos[h] = index.pos[h]
      BY <1>2, <3>1 DEF Places, Over
    <3>3. QED
      BY <1>1, <1>2, <3>2, PositionsKept
  <2>3. QED
    BY <1>1, <1>2, <2>1, <2>2 DEF TypeOK
<1>6. OneJob'
  BY <1>1, <1>2 DEF OneJob, Quiet, Jobs
<1>7. TailIsEnd'
  BY <1>1, <1>2 DEF TailIsEnd, Writing, OneJob, Quiet, Jobs
<1>8. HeadInv'
  <2>1. SUFFICES ASSUME mode = "up" PROVE HeadInv'
    BY <1>2 DEF HeadInv
  <2>2. Chained(log, Places(j), head) /\ head \in Blocks
    BY <1>1, <1>2, <2>1 DEF HeadInv, TypeOK
  <2>3. Chained(log, Places(j)', head)
    BY <1>2, <2>2, OverNoMap DEF Places
  <2>4. \A i \in Jobs \ {j} : ~(\A k \in Jobs \ {i} : job'[k].pc = "idle")
    BY <1>2
  <2>5. DOMAIN batch'[j].ops = {}
    BY <1>2, EmptyTypes
  <2>6. QED
    BY <1>1, <1>2, <2>1, <2>3, <2>4, <2>5 DEF HeadInv, Placed, Flushed, Quiet
<1>9. JobInv'
  BY <1>1, <1>2 DEF JobInv, Writing, Unflushed, Flushed, Jobs
<1>10. ScanInv'
  <2>1. SUFFICES ASSUME mode = "reindex" PROVE ScanInv'
    BY <1>2 DEF ScanInv
  <2>2. j = "bulk"
    BY <1>2, <2>1
  <2>3. \A h : h \in DOMAIN Places("bulk") =>
          h \in DOMAIN Places("bulk")' /\ Places("bulk")'[h] = Places("bulk")[h]
    BY <1>2, <2>2, EmptyTypes DEF Places, Over
  <2>4. Scanned(job["bulk"].block)
    BY <1>1, <1>2, <2>1, <2>2 DEF ScanInv
  <2>5. Scanned(job["bulk"].block)'
    BY <1>2, <2>2, <2>3, <2>4 DEF Scanned
  <2>6. QED
    BY <1>1, <1>2, <2>1, <2>2, <2>5 DEF ScanInv, Unflushed, Flushed, Placed
<1>11. QED
  BY <1>3, <1>4, <1>5, <1>6, <1>7, <1>8, <1>9, <1>10 DEF IndexInv

\* FlushBal keeps the invariant.
LEMMA FlushBalStep ==
  ASSUME Calm, IndexInv, NEW j \in Jobs, FlushBal(j)
  PROVE  IndexInv'
<1>1. /\ TypeOK /\ GenesisFirst /\ IndexIsChain /\ OneJob /\ TailIsEnd
      /\ HeadInv /\ JobInv /\ ScanInv
  BY DEF IndexInv
<1>2. /\ mode # "down" /\ \A i \in Jobs \ {j} : Quiet(i) /\ job'[i] = job[i]
      /\ mode = "reindex" => j = "bulk"
      /\ job[j].pc = "flushbal"
      /\ job' \in [Jobs -> JobRecords]
      /\ job'[j].pc = "flushheight" /\ job'[j].block = job[j].block
      /\ job'[j].off = job[j].off /\ job'[j].ok = job[j].ok
      /\ index' = [index EXCEPT !.bal = Over(batch[j].map, index.bal)]
      /\ index'.pos = index.pos /\ index'.height = index.height
      /\ UNCHANGED << log, mode, head, tail, batch, announced, faults >>
  <2>1. NextPhase("flushbal") = "flushheight" /\ "flushheight" \in Phases
    BY DEF NextPhase, Phases
  <2>2. /\ job' \in [Jobs -> JobRecords] /\ \A i \in Jobs \ {j} : job'[i] = job[i]
        /\ job'[j].pc = "flushheight" /\ job'[j].block = job[j].block
        /\ job'[j].off = job[j].off /\ job'[j].ok = job[j].ok
    BY <1>1, <2>1, GotoFacts DEF FlushBal
  <2>3. /\ mode # "down" /\ \A i \in Jobs \ {j} : Quiet(i)
        /\ mode = "reindex" => j = "bulk"
    BY <1>1 DEF FlushBal, TypeOK, OneJob, Idle, Jobs, Quiet
  <2>4. /\ index' = [index EXCEPT !.bal = Over(batch[j].map, index.bal)]
        /\ index'.pos = index.pos /\ index'.height = index.height
    BY <1>1 DEF FlushBal, TypeOK
  <2>9. job[j].pc = "flushbal" /\ UNCHANGED << log, mode, head, tail, batch, announced, faults >>
    BY DEF FlushBal
  <2>10. QED
    BY <2>4, <2>2, <2>3, <2>9
<1>3. TypeOK'
  <2>1. Over(batch[j].map, index.bal) \in [Payloads -> Nat]
    BY <1>1, MapFacts DEF TypeOK
  <2>2. index' \in [pos : {index'.pos}, height : Nat \cup {NoHeight},
                    bal : [Payloads -> Nat], supply : Int,
                    bonds : SUBSET Payloads, seen : SUBSET Payloads]
    BY <1>1, <1>2, <2>1 DEF TypeOK
  <2>3. QED
    BY <1>1, <1>2, <2>2 DEF TypeOK
<1>4. GenesisFirst'
  BY <1>1, <1>2 DEF GenesisFirst
<1>5. IndexIsChain'
  BY <1>1, <1>2 DEF IndexIsChain, Committed, HeadValid
<1>6. OneJob'
  BY <1>1, <1>2 DEF OneJob, Quiet, Jobs
<1>7. TailIsEnd'
  BY <1>1, <1>2 DEF TailIsEnd, Writing, OneJob, Quiet, Jobs
<1>8. HeadInv'
  BY <1>1, <1>2 DEF HeadInv, Placed, Flushed, Quiet, Places, Jobs
<1>9. JobInv'
  BY <1>1, <1>2 DEF JobInv, Writing, Unflushed, Flushed, Jobs
<1>10. ScanInv'
  BY <1>1, <1>2 DEF ScanInv, Scanned, Places, Unflushed, Flushed, Placed, Jobs
<1>11. QED
  BY <1>3, <1>4, <1>5, <1>6, <1>7, <1>8, <1>9, <1>10 DEF IndexInv

\* FlushHeight keeps the invariant.
LEMMA FlushHeightStep ==
  ASSUME Calm, IndexInv, NEW j \in Jobs, FlushHeight(j)
  PROVE  IndexInv'
<1>1. /\ TypeOK /\ GenesisFirst /\ IndexIsChain /\ OneJob /\ TailIsEnd
      /\ HeadInv /\ JobInv /\ ScanInv
  BY DEF IndexInv
<1>2. /\ mode # "down" /\ \A i \in Jobs \ {j} : Quiet(i) /\ job'[i] = job[i]
      /\ mode = "reindex" => j = "bulk"
      /\ job[j].pc = "flushheight"
      /\ job' \in [Jobs -> JobRecords]
      /\ job'[j].pc = "readsupply" /\ job'[j].block = job[j].block
      /\ job'[j].off = job[j].off /\ job'[j].ok = job[j].ok
      /\ index' = [index EXCEPT !.height = batch[j].height]
      /\ index'.pos = index.pos /\ index'.height = batch[j].height
      /\ UNCHANGED << log, mode, head, tail, batch, announced, faults >>
  <2>1. NextPhase("flushheight") = "readsupply" /\ "readsupply" \in Phases
    BY DEF NextPhase, Phases
  <2>2. /\ job' \in [Jobs -> JobRecords] /\ \A i \in Jobs \ {j} : job'[i] = job[i]
        /\ job'[j].pc = "readsupply" /\ job'[j].block = job[j].block
        /\ job'[j].off = job[j].off /\ job'[j].ok = job[j].ok
    BY <1>1, <2>1, GotoFacts DEF FlushHeight
  <2>3. /\ mode # "down" /\ \A i \in Jobs \ {j} : Quiet(i)
        /\ mode = "reindex" => j = "bulk"
    BY <1>1 DEF FlushHeight, TypeOK, OneJob, Idle, Jobs, Quiet
  <2>4. /\ index' = [index EXCEPT !.height = batch[j].height]
        /\ index'.pos = index.pos /\ index'.height = batch[j].height
    BY <1>1 DEF FlushHeight, TypeOK
  <2>9. job[j].pc = "flushheight" /\ UNCHANGED << log, mode, head, tail, batch, announced, faults >>
    BY DEF FlushHeight
  <2>10. QED
    BY <2>4, <2>2, <2>3, <2>9
<1>3. TypeOK'
  <2>1. index' \in [pos : {index'.pos}, height : Nat \cup {NoHeight},
                    bal : [Payloads -> Nat], supply : Int,
                    bonds : SUBSET Payloads, seen : SUBSET Payloads]
    BY <1>1, <1>2 DEF TypeOK
  <2>2. QED
    BY <1>1, <1>2, <2>1 DEF TypeOK
<1>4. GenesisFirst'
  BY <1>1, <1>2 DEF GenesisFirst
<1>5. IndexIsChain'
  <2>1. CASE mode = "reindex"
    <3>1. /\ j = "bulk" /\ job[j].block # NoBlock /\ Scanned(job[j].block)
          /\ batch[j].height = Height(job[j].block) /\ batch[j].ops = NoMap
          /\ job[j].block \in Blocks
      BY <1>1, <1>2, <2>1 DEF ScanInv, Unflushed, Placed, TypeOK, JobRecords
    <3>2. Chained(log, Places(j), job[j].block)
      BY <3>1 DEF Scanned, Chained
    <3>3. Chained(log, index.pos, job[j].block)
      BY <3>1, <3>2, OverNoMap DEF Places
    <3>4. QED
      BY <1>2, <3>1, <3>3, IndexMoved
  <2>2. CASE mode = "up"
    <3>1. /\ head # NoBlock /\ Chained(log, Places(j), head)
          /\ batch[j].height = Height(head) /\ batch[j].ops = NoMap
          /\ head \in Blocks
      BY <1>1, <1>2, <2>2 DEF HeadInv, JobInv, Unflushed, Placed, TypeOK
    <3>2. Chained(log, index.pos, head)
      BY <3>1, OverNoMap DEF Places
    <3>3. QED
      BY <1>2, <3>1, <3>2, IndexMoved
  <2>3. QED
    BY <1>1, <1>2, <2>1, <2>2 DEF TypeOK
<1>6. OneJob'
  BY <1>1, <1>2 DEF OneJob, Quiet, Jobs
<1>7. TailIsEnd'
  BY <1>1, <1>2 DEF TailIsEnd, Writing, OneJob, Quiet, Jobs
<1>8. HeadInv'
  <2>1. SUFFICES ASSUME mode = "up" PROVE HeadInv'
    BY <1>2 DEF HeadInv
  <2>2. /\ Chained(log, Places(j), head) /\ batch[j].height = Height(head)
        /\ \A i \in Jobs : batch[i].ops = NoMap
    BY <1>1, <1>2, <2>1 DEF HeadInv, JobInv, OneJob, Quiet, Unflushed, Placed
  <2>3. Chained(log, Places(j)', head)
    BY <1>2, <2>2 DEF Places
  <2>4. \A i \in Jobs \ {j} : ~(\A k \in Jobs \ {i} : job'[k].pc = "idle")
    BY <1>2
  <2>5. batch[j].height \in Int
    BY <1>1 DEF TypeOK
  <2>6. QED
    BY <1>2, <2>2, <2>3, <2>4, <2>5, EmptyTypes DEF HeadInv, Placed, Flushed, Quiet
<1>9. JobInv'
  BY <1>1, <1>2 DEF JobInv, Writing, Unflushed, Flushed, Jobs
<1>10. ScanInv'
  <2>1. SUFFICES ASSUME mode = "reindex" PROVE ScanInv'
    BY <1>2 DEF ScanInv
  <2>2. j = "bulk"
    BY <1>2, <2>1
  <2>3. Scanned(job["bulk"].block) /\ batch["bulk"].height = Height(job["bulk"].block)
    BY <1>1, <1>2, <2>1, <2>2 DEF ScanInv, Unflushed
  <2>4. Scanned(job["bulk"].block)'
    BY <1>2, <2>2, <2>3 DEF Scanned, Places
  <2>5. Height(job["bulk"].block) \in Int
    BY <1>1, <2>3 DEF TypeOK, Jobs
  <2>6. QED
    BY <1>1, <1>2, <2>1, <2>2, <2>3, <2>4, <2>5 DEF ScanInv, Unflushed, Flushed, Placed
<1>11. QED
  BY <1>3, <1>4, <1>5, <1>6, <1>7, <1>8, <1>9, <1>10 DEF IndexInv

\* ReadSupply keeps the invariant.
LEMMA ReadSupplyStep ==
  ASSUME Calm, IndexInv, NEW j \in Jobs, ReadSupply(j)
  PROVE  IndexInv'
<1>1. /\ TypeOK /\ GenesisFirst /\ IndexIsChain /\ OneJob /\ TailIsEnd
      /\ HeadInv /\ JobInv /\ ScanInv
  BY DEF IndexInv
<1>2. /\ mode # "down" /\ \A i \in Jobs \ {j} : Quiet(i) /\ job'[i] = job[i]
      /\ mode = "reindex" => j = "bulk"
      /\ job[j].pc = "readsupply"
      /\ job' \in [Jobs -> JobRecords]
      /\ job'[j].pc = "writesupply" /\ job'[j].block = job[j].block
      /\ job'[j].off = job[j].off /\ job'[j].ok = job[j].ok
      /\ UNCHANGED << log, index, mode, head, tail, batch, announced, faults >>
  <2>1. NextPhase("readsupply") = "writesupply" /\ "writesupply" \in Phases
    BY DEF NextPhase, Phases
  <2>2. /\ job[j] \in JobRecords /\ job \in [Jobs -> JobRecords] /\ index.supply \in Int
    BY <1>1 DEF TypeOK
  <2>3. [[job[j] EXCEPT !.pc = "writesupply"] EXCEPT !.old = index.supply] \in JobRecords
    BY <2>1, <2>2, JobType
  <2>4. job' = [job EXCEPT ![j] = [[job[j] EXCEPT !.pc = "writesupply"] EXCEPT !.old = index.supply]]
    BY <2>1, <2>2 DEF ReadSupply
  <2>5. /\ job' \in [Jobs -> JobRecords] /\ \A i \in Jobs \ {j} : job'[i] = job[i]
        /\ job'[j] = [[job[j] EXCEPT !.pc = "writesupply"] EXCEPT !.old = index.supply]
    BY <2>2, <2>3, <2>4
  <2>6. /\ job'[j].pc = "writesupply" /\ job'[j].block = job[j].block
        /\ job'[j].off = job[j].off /\ job'[j].ok = job[j].ok
    BY <2>2, <2>5 DEF JobRecords
  <2>7. /\ mode # "down" /\ \A i \in Jobs \ {j} : Quiet(i)
        /\ mode = "reindex" => j = "bulk"
    BY <1>1 DEF ReadSupply, TypeOK, OneJob, Idle, Jobs, Quiet
  <2>8. QED
    BY <2>5, <2>6, <2>7 DEF ReadSupply
<1>3. TypeOK'
  BY <1>1, <1>2 DEF TypeOK
<1>4. GenesisFirst'
  BY <1>1, <1>2 DEF GenesisFirst
<1>5. IndexIsChain'
  BY <1>1, <1>2 DEF IndexIsChain, Committed, HeadValid
<1>6. OneJob'
  BY <1>1, <1>2 DEF OneJob, Quiet, Jobs
<1>7. TailIsEnd'
  BY <1>1, <1>2 DEF TailIsEnd, Writing, OneJob, Quiet, Jobs
<1>8. HeadInv'
  BY <1>1, <1>2 DEF HeadInv, Placed, Flushed, Quiet, Places, Jobs
<1>9. JobInv'
  BY <1>1, <1>2 DEF JobInv, Writing, Unflushed, Flushed, Jobs
<1>10. ScanInv'
  BY <1>1, <1>2 DEF ScanInv, Scanned, Places, Unflushed, Flushed, Placed, Jobs
<1>11. QED
  BY <1>3, <1>4, <1>5, <1>6, <1>7, <1>8, <1>9, <1>10 DEF IndexInv

\* WriteSupply keeps the invariant.
LEMMA WriteSupplyStep ==
  ASSUME Calm, IndexInv, NEW j \in Jobs, WriteSupply(j)
  PROVE  IndexInv'
<1>1. /\ TypeOK /\ GenesisFirst /\ IndexIsChain /\ OneJob /\ TailIsEnd
      /\ HeadInv /\ JobInv /\ ScanInv
  BY DEF IndexInv
<1>2. /\ mode # "down" /\ \A i \in Jobs \ {j} : Quiet(i) /\ job'[i] = job[i]
      /\ mode = "reindex" => j = "bulk"
      /\ job[j].pc = "writesupply"
      /\ job' \in [Jobs -> JobRecords]
      /\ job'[j].pc = "done" /\ job'[j].block = job[j].block
      /\ job'[j].off = job[j].off /\ job'[j].ok = job[j].ok
      /\ index' = [index EXCEPT !.supply = index'.supply] /\ index'.supply \in Int
      /\ index'.pos = index.pos /\ index'.height = index.height
      /\ DOMAIN batch' = Jobs
      /\ \A i \in Jobs : batch'[i].height = batch[i].height /\ batch'[i].ops = batch[i].ops
      /\ \A i \in Jobs \ {j} : batch'[i] = batch[i]
      /\ \A i \in Jobs :
           /\ batch'[i] \in [ops : {batch'[i].ops}, height : Nat,
                             map : {batch'[i].map}, supply : Int]
           /\ IsMap(batch'[i].ops, Nat, Nat)
           /\ IsMap(batch'[i].map, Payloads, Nat)
      /\ UNCHANGED << log, mode, head, tail, announced, faults >>
  <2>1. NextPhase("writesupply") = "done" /\ "done" \in Phases
    BY DEF NextPhase, Phases
  <2>2. /\ job' \in [Jobs -> JobRecords] /\ \A i \in Jobs \ {j} : job'[i] = job[i]
        /\ job'[j].pc = "done" /\ job'[j].block = job[j].block
        /\ job'[j].off = job[j].off /\ job'[j].ok = job[j].ok
    BY <1>1, <2>1, GotoFacts DEF WriteSupply
  <2>3. /\ mode # "down" /\ \A i \in Jobs \ {j} : Quiet(i)
        /\ mode = "reindex" => j = "bulk"
    BY <1>1 DEF WriteSupply, TypeOK, OneJob, Idle, Jobs, Quiet
  <2>4. /\ index' = [index EXCEPT !.supply = index'.supply] /\ index'.supply \in Int
        /\ index'.pos = index.pos /\ index'.height = index.height
        /\ DOMAIN batch' = Jobs
        /\ \A i \in Jobs : batch'[i].height = batch[i].height /\ batch'[i].ops = batch[i].ops
        /\ \A i \in Jobs \ {j} : batch'[i] = batch[i]
        /\ \A i \in Jobs :
             /\ batch'[i] \in [ops : {batch'[i].ops}, height : Nat,
                               map : {batch'[i].map}, supply : Int]
             /\ IsMap(batch'[i].ops, Nat, Nat)
             /\ IsMap(batch'[i].map, Payloads, Nat)
    <3>1. /\ job[j].old \in Int /\ batch[j].supply \in Int
      BY <1>1 DEF TypeOK, JobRecords
    <3>2. job[j].old + batch[j].supply \in Int
      BY <3>1
    <3>3. /\ index' = [index EXCEPT !.supply = job[j].old + batch[j].supply]
          /\ batch' = [batch EXCEPT ![j].supply = 0, ![j].map = NoMap]
      BY DEF WriteSupply
    <3>4. batch'[j] = [[batch[j] EXCEPT !.supply = 0] EXCEPT !.map = NoMap]
      BY <1>1, <3>3 DEF TypeOK
    <3>5. /\ DOMAIN batch' = Jobs /\ batch'[j].height = batch[j].height
          /\ batch'[j].ops = batch[j].ops /\ \A i \in Jobs \ {j} : batch'[i] = batch[i]
          /\ \A i \in Jobs :
               /\ batch'[i] \in [ops : {batch'[i].ops}, height : Nat,
                                 map : {batch'[i].map}, supply : Int]
               /\ IsMap(batch'[i].ops, Nat, Nat)
               /\ IsMap(batch'[i].map, Payloads, Nat)
      <4>1. DOMAIN batch' = Jobs /\ \A i \in Jobs \ {j} : batch'[i] = batch[i]
        BY <1>1, <3>3 DEF TypeOK
      <4>2. /\ batch'[j] \in [ops : {batch[j].ops}, height : Nat, map : {NoMap}, supply : Int]
            /\ batch'[j].ops = batch[j].ops /\ batch'[j].map = NoMap
            /\ batch'[j].height = batch[j].height
        <5>1. /\ batch[j] \in [ops : {batch[j].ops}, height : Nat,
                             map : {batch[j].map}, supply : Int]
          BY <1>1 DEF TypeOK
        <5>2. QED
          BY <3>4, <5>1, ClearedBatch
      <4>3. /\ IsMap(NoMap, Payloads, Nat) /\ IsMap(batch[j].ops, Nat, Nat)
        BY <1>1, EmptyTypes DEF TypeOK
      <4>4. ASSUME NEW i \in Jobs
            PROVE  /\ batch'[i] \in [ops : {batch'[i].ops}, height : Nat,
                                     map : {batch'[i].map}, supply : Int]
                   /\ IsMap(batch'[i].ops, Nat, Nat)
                   /\ IsMap(batch'[i].map, Payloads, Nat)
        <5>1. CASE i = j
          BY <4>2, <4>3, <5>1
        <5>2. CASE i # j
          BY <1>1, <4>1, <5>2 DEF TypeOK
        <5>3. QED
          BY <5>1, <5>2
      <4>5. QED
        BY <4>1, <4>2, <4>4
    <3>6. QED
      BY <1>1, <3>2, <3>3, <3>5 DEF TypeOK
  <2>9. job[j].pc = "writesupply" /\ UNCHANGED << log, mode, head, tail, announced, faults >>
    BY DEF WriteSupply
  <2>10. QED
    BY <2>4, <2>2, <2>3, <2>9
<1>3. TypeOK'
  <2>1. index' \in [pos : {index'.pos}, height : Nat \cup {NoHeight},
                    bal : [Payloads -> Nat], supply : Int,
                    bonds : SUBSET Payloads, seen : SUBSET Payloads]
    BY <1>1, <1>2 DEF TypeOK
  <2>2. QED
    BY <1>1, <1>2, <2>1 DEF TypeOK
<1>4. GenesisFirst'
  BY <1>1, <1>2 DEF GenesisFirst
<1>5. IndexIsChain'
  BY <1>1, <1>2 DEF IndexIsChain, Committed, HeadValid
<1>6. OneJob'
  BY <1>1, <1>2 DEF OneJob, Quiet, Jobs
<1>7. TailIsEnd'
  BY <1>1, <1>2 DEF TailIsEnd, Writing, OneJob, Quiet, Jobs
<1>8. HeadInv'
  BY <1>1, <1>2 DEF HeadInv, Placed, Flushed, Quiet, Places, Jobs
<1>9. JobInv'
  BY <1>1, <1>2 DEF JobInv, Writing, Unflushed, Flushed, Jobs
<1>10. ScanInv'
  BY <1>1, <1>2 DEF ScanInv, Scanned, Places, Unflushed, Flushed, Placed, Jobs
<1>11. QED
  BY <1>3, <1>4, <1>5, <1>6, <1>7, <1>8, <1>9, <1>10 DEF IndexInv

\* EndAdd keeps the invariant.
LEMMA EndAddStep ==
  ASSUME Calm, IndexInv, EndAdd
  PROVE  IndexInv'
<1>1. /\ TypeOK /\ GenesisFirst /\ IndexIsChain /\ OneJob /\ TailIsEnd
      /\ HeadInv /\ JobInv /\ ScanInv
  BY DEF IndexInv
<1>2. /\ mode = "up" /\ job["add"].pc = "done" /\ job["bulk"].pc = "idle"
      /\ job' \in [Jobs -> JobRecords] /\ job'["bulk"] = job["bulk"]
      /\ job'["add"].pc = "idle" /\ announced' \in Blocks
      /\ batch["add"].ops = NoMap /\ batch["bulk"].ops = NoMap
      /\ head \in Blocks /\ Chained(log, index.pos, head)
      /\ index.height = Height(head) /\ batch["add"].height = Height(head)
      /\ UNCHANGED << log, index, mode, head, tail, batch, faults >>
  <2>1. mode = "up" /\ job["add"].pc = "done" /\ job["bulk"].pc = "idle"
    BY <1>1 DEF EndAdd, OneJob, Quiet, Jobs, TypeOK
  <2>2. /\ job' \in [Jobs -> JobRecords] /\ job'["bulk"] = job["bulk"]
        /\ job'["add"] = Idle /\ announced' \in Blocks
    BY <1>1, IdleType DEF EndAdd, TypeOK, Jobs, JobRecords
  <2>3. batch["add"].ops = NoMap /\ batch["bulk"].ops = NoMap
    BY <1>1, <2>1 DEF HeadInv, OneJob, Placed, Flushed, Jobs, Quiet
  <2>4. head \in Blocks /\ Chained(log, Places("add"), head)
    BY <1>1, <2>1 DEF HeadInv, TypeOK, Jobs, Quiet
  <2>5. Chained(log, index.pos, head)
    BY <2>3, <2>4, OverNoMap DEF Places
  <2>6. index.height = Height(head) /\ batch["add"].height = Height(head)
    BY <1>1, <2>1 DEF HeadInv, JobInv, Flushed, Jobs
  <2>7. job'["add"].pc = "idle"
    BY <2>2 DEF Idle
  <2>8. QED
    BY <2>1, <2>2, <2>3, <2>4, <2>5, <2>6, <2>7 DEF EndAdd
<1>3. TypeOK'
  BY <1>1, <1>2 DEF TypeOK
<1>4. GenesisFirst'
  BY <1>1, <1>2 DEF GenesisFirst
<1>5. IndexIsChain'
  BY <1>1, <1>2 DEF IndexIsChain, Committed, HeadValid
<1>6. OneJob'
  BY <1>1, <1>2 DEF OneJob, Quiet, Jobs
<1>7. TailIsEnd'
  BY <1>1, <1>2 DEF TailIsEnd, Writing, OneJob, Quiet, Jobs
<1>8. HeadInv'
  <2>1. \A i \in Jobs : Chained(log, Places(i), head) /\ DOMAIN batch[i].ops = {}
    BY <1>2, OverNoMap, EmptyTypes DEF Places, Jobs
  <2>2. Height(head) \in Int
    BY <1>2 DEF Height, Blocks
  <2>3. \A i \in Jobs : Places(i)' = Places(i) /\ batch'[i].ops = NoMap
    BY <1>2 DEF Places, Jobs
  <2>4. QED
    BY <1>2, <2>1, <2>2, <2>3 DEF HeadInv, Jobs
<1>9. JobInv'
  <2>1. Height(head) \in Int
    BY <1>2 DEF Height, Blocks
  <2>2. batch["bulk"].height = 0 \/ batch["bulk"].height <= Height(head)
    BY <1>1, <1>2 DEF JobInv, Jobs
  <2>3. QED
    BY <1>2, <2>1, <2>2 DEF JobInv, Writing, Unflushed, Flushed, Jobs
<1>10. ScanInv'
  BY <1>2 DEF ScanInv
<1>11. QED
  BY <1>3, <1>4, <1>5, <1>6, <1>7, <1>8, <1>9, <1>10 DEF IndexInv

\* EndSyncHeadless keeps the invariant.
LEMMA EndSyncHeadlessStep ==
  ASSUME Calm, IndexInv, EndSyncHeadless
  PROVE  IndexInv'
  BY ForgetInv DEF EndSyncHeadless, IndexInv, TypeOK

\* EndBulk keeps the invariant.
LEMMA EndBulkStep ==
  ASSUME Calm, IndexInv, EndBulk
  PROVE  IndexInv'
<1>1. /\ TypeOK /\ GenesisFirst /\ IndexIsChain /\ OneJob /\ TailIsEnd
      /\ HeadInv /\ JobInv /\ ScanInv
  BY DEF IndexInv
<1>2. /\ mode' = "up" /\ mode \in {"reindex", "up"}
      /\ job["bulk"].pc = "done" /\ job["add"].pc = "idle"
      /\ job' \in [Jobs -> JobRecords] /\ job'["add"] = job["add"]
      /\ job'["bulk"].pc = "idle"
      /\ batch["add"].ops = NoMap /\ batch["bulk"].ops = NoMap
      /\ head' \in Blocks /\ Height(head') = index.height
      /\ Chained(log, index.pos, head')
      /\ batch["bulk"].height = 0 \/ batch["bulk"].height <= index.height
      /\ batch["add"].height = 0 \/ batch["add"].height <= index.height
      /\ UNCHANGED << log, index, tail, batch, announced, faults >>
  <2>1. /\ mode \in {"reindex", "up"} /\ job["bulk"].pc = "done" /\ job["add"].pc = "idle"
    BY <1>1 DEF EndBulk, OneJob, Quiet, Jobs, TypeOK, Idle
  <2>2. /\ job' \in [Jobs -> JobRecords] /\ job'["add"] = job["add"]
        /\ job'["bulk"] = Idle /\ job'["bulk"].pc = "idle"
    BY <1>1, IdleType DEF EndBulk, TypeOK, Jobs, Idle
  <2>3. batch["add"].ops = NoMap /\ batch["bulk"].ops = NoMap
    BY <1>1, <2>1 DEF HeadInv, ScanInv, OneJob, Placed, Flushed, Jobs, Quiet
  <2>4. head \in Blocks /\ index.height \in Nat \cup {NoHeight} /\ Height(NoBlock) = NoHeight
    BY <1>1, IdleType DEF TypeOK, Height, NoHeight
  <2>5. /\ Committed \in Blocks /\ Height(Committed) = index.height
        /\ Chained(log, index.pos, Committed)
    BY <1>1, CommittedFacts
  <2>6. index.height # NoHeight => index.height \in DOMAIN index.pos /\ HeadValid
    BY <1>1 DEF IndexIsChain, HeadValid
  <2>7. CASE mode = "up"
    <3>1. /\ Chained(log, Places("bulk"), head) /\ head # NoBlock
          /\ index.height = Height(head) /\ batch["bulk"].height = Height(head)
          /\ batch["add"].height = 0 \/ batch["add"].height <= Height(head)
      BY <1>1, <2>1, <2>7 DEF HeadInv, JobInv, Flushed, Jobs, Quiet
    <3>2. Chained(log, index.pos, head)
      BY <2>3, <2>4, <3>1, OverNoMap DEF Places
    <3>3. index.height # NoHeight
      BY <2>4, <3>1 DEF Height, Blocks, NoBlock, NoHeight
    <3>4. head' = Committed \/ head' = head
      BY <2>6, <3>3 DEF EndBulk, Reloaded
    <3>5. head' \in Blocks /\ Height(head') = index.height /\ Chained(log, index.pos, head')
      BY <2>4, <2>5, <3>1, <3>2, <3>4
    <3>6. index.height \in Int
      BY <2>4 DEF NoHeight
    <3>7. /\ batch["bulk"].height = 0 \/ batch["bulk"].height <= index.height
          /\ batch["add"].height = 0 \/ batch["add"].height <= index.height
      BY <3>1, <3>6
    <3>8. QED
      BY <2>1, <2>2, <2>3, <3>5, <3>7 DEF EndBulk
  <2>8. CASE mode = "reindex"
    <3>1. /\ job["bulk"].ok /\ head = NoBlock /\ batch["add"].height = 0
          /\ index.height = Height(job["bulk"].block)
          /\ batch["bulk"].height = 0 \/ batch["bulk"].height <= Height(job["bulk"].block)
      BY <1>1, <2>1, <2>8, EmptyTypes DEF ScanInv, OneJob, Flushed
    <3>2. head' = Committed \/ (head' = NoBlock /\ index.height = NoHeight)
      BY <2>6, <3>1 DEF EndBulk, Reloaded
    <3>3. Chained(log, index.pos, NoBlock)
      BY IdleType DEF Chained, Height
    <3>4. head' \in Blocks /\ Height(head') = index.height /\ Chained(log, index.pos, head')
      BY <2>4, <2>5, <3>2, <3>3, IdleType
    <3>5. QED
      BY <2>1, <2>2, <2>3, <3>1, <3>4 DEF EndBulk
  <2>9. QED
    BY <2>1, <2>7, <2>8
<1>3. TypeOK'
  BY <1>1, <1>2 DEF TypeOK
<1>4. GenesisFirst'
  BY <1>1, <1>2 DEF GenesisFirst
<1>5. IndexIsChain'
  BY <1>1, <1>2 DEF IndexIsChain, Committed, HeadValid
<1>6. OneJob'
  BY <1>1, <1>2 DEF OneJob, Quiet, Jobs
<1>7. TailIsEnd'
  BY <1>1, <1>2 DEF TailIsEnd, Writing, OneJob, Quiet, Jobs
<1>8. HeadInv'
  <2>1. \A i \in Jobs : Chained(log, Places(i), head') /\ DOMAIN batch[i].ops = {}
    BY <1>2, OverNoMap, EmptyTypes DEF Places, Jobs
  <2>2. Height(head') \in Int
    BY <1>2 DEF Height, Blocks
  <2>3. \A i \in Jobs : Places(i)' = Places(i) /\ batch'[i].ops = NoMap
    BY <1>2 DEF Places, Jobs
  <2>4. QED
    BY <1>2, <2>1, <2>2, <2>3 DEF HeadInv, Jobs
<1>9. JobInv'
  BY <1>2 DEF JobInv, Writing, Unflushed, Flushed, Jobs
<1>10. ScanInv'
  BY <1>2 DEF ScanInv
<1>11. QED
  BY <1>3, <1>4, <1>5, <1>6, <1>7, <1>8, <1>9, <1>10 DEF IndexInv

-----------------------------------------------------------------------------
(* The theorems                                                            *)

\* The invariant holds at first.
LEMMA InitInv ==
  ASSUME Init
  PROVE  IndexInv
<1>1. TypeOK
  BY IdleType, EmptyTypes DEF Init, TypeOK, EmptyIndex, NoBlock
<1>2. IndexIsChain /\ GenesisFirst
  BY DEF Init, IndexIsChain, GenesisFirst, EmptyIndex
<1>3. OneJob
  BY EmptyTypes DEF Init, OneJob, Quiet, Jobs, Idle
<1>4. TailIsEnd /\ HeadInv /\ JobInv /\ ScanInv
  BY DEF Init, TailIsEnd, HeadInv, JobInv, ScanInv
<1>5. QED
  BY <1>1, <1>2, <1>3, <1>4 DEF IndexInv

\* A step of the environment or of the job that works keeps the invariant.
LEMMA NextInv ==
  ASSUME Calm, IndexInv, [Next]_vars
  PROVE  IndexInv'
<1>1. CASE Start \/ StartReindex \/ Stop \/ Crash
  BY <1>1, StartStep, StartReindexStep, StopStep, CrashStep
<1>2. CASE Add
  <2>1. Founding \subseteq Payloads
    BY PayloadAssumption
  <2>2. QED
    BY <1>2, <2>1, CreateGenesisStep, BeginAddStep, RejectBlockStep DEF Add
<1>3. CASE Sync
  BY <1>3, BeginSyncStep, FetchBlockStep, EndFetchStep DEF Sync
<1>4. CASE Scan
  BY <1>4, ScanRecordStep, ScanTrimStep, ScanFailsStep, ScanEndStep, PlaceStep DEF Scan
<1>5. CASE EndAdd \/ EndBulk \/ EndSyncHeadless
  BY <1>5, EndAddStep, EndBulkStep, EndSyncHeadlessStep
<1>6. ASSUME NEW j \in Jobs, IndexBlock(j)
      PROVE  IndexInv'
  <2>1. ~WriteFails(j)
    BY DEF WriteFails, Calm
  <2>2. QED
    BY <1>6, <2>1, IndexTxsStep, WritePartStep, WriteCrcStep, MayFlushStep DEF IndexBlock
<1>7. ASSUME NEW j \in Jobs, Flush(j)
      PROVE  IndexInv'
  BY <1>7, FlushPosStep, FlushBalStep, FlushHeightStep, ReadSupplyStep, WriteSupplyStep DEF Flush
<1>8. CASE UNCHANGED vars
  <2>1. UNCHANGED << log, index, mode, head, tail, job, batch, announced, faults >>
    BY <1>8 DEF vars
  <2>2. QED
    BY <2>1 DEF IndexInv, TypeOK, GenesisFirst, IndexIsChain, HeadValid, Committed, OneJob,
                Quiet, TailIsEnd, HeadInv, Places, JobInv, ScanInv, Scanned
<1>9. QED
  BY <1>1, <1>2, <1>3, <1>4, <1>5, <1>6, <1>7, <1>8 DEF Next

\* Whatever payloads there are, however many blocks a batch holds, and at
\* whichever step the process dies or is told to re-index: the log, the index,
\* the head and the job that writes stay as IndexInv relates them.
THEOREM IndexInvariant == Calm => (Spec => []IndexInv)
<1> SUFFICES ASSUME Calm PROVE Spec => []IndexInv
  OBVIOUS
<1>1. Init => IndexInv
  BY InitInv
<1>2. IndexInv /\ [Next]_vars => IndexInv'
  BY NextInv
<1>3. QED
  BY <1>1, <1>2, PTL DEF Spec

\* The index of a calm node names a linked chain of whole records up to its
\* chain height, at every moment and so also after every crash.
THEOREM IndexIsChainHolds == Calm => (Spec => []IndexIsChain)
<1> SUFFICES ASSUME Calm PROVE Spec => []IndexIsChain
  OBVIOUS
<1>1. IndexInv => IndexIsChain
  BY DEF IndexInv
<1>2. Spec => []IndexInv
  BY IndexInvariant
<1>3. QED
  BY <1>1, <1>2, PTL

\* The log, the index, the jobs and the batches of a calm node keep their types.
THEOREM TypeCorrect == Calm => (Spec => []TypeOK)
<1> SUFFICES ASSUME Calm PROVE Spec => []TypeOK
  OBVIOUS
<1>1. IndexInv => TypeOK
  BY DEF IndexInv
<1>2. Spec => []IndexInv
  BY IndexInvariant
<1>3. QED
  BY <1>1, <1>2, PTL
=============================================================================
