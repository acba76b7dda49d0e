------------------------------ MODULE ChainLog ------------------------------
(***************************************************************************)
(* The block log of ChainStore (src/src/lib/blockchain/chain_store.ts) and *)
(* the blocks in it, as far as the index and the chain depend on them.     *)
(*                                                                         *)
(* A block is the sequence of the payloads (the transactions) from the     *)
(* genesis block to itself: the hash of its predecessor, which the code    *)
(* compares, determines everything before it.  NoBlock is "no head".       *)
(*                                                                         *)
(* A record is three appends, the length, the encoded block and the        *)
(* checksum.  A piece is what one append leaves in the file, and offsets   *)
(* count pieces from zero.  A record whose three pieces do not belong      *)
(* together fails the length or the checksum test of readBlock; two        *)
(* different pieces are taken never to have the same checksum.             *)
(***************************************************************************)
EXTENDS Integers, Sequences, FiniteSets, SequencesExt

CONSTANT Payloads     \* what blocks carry

NoBlock == << >>
Height(b) == Len(b) - 1
Parent(b) == SubSeq(b, 1, Len(b) - 1)
Payload(b) == b[Len(b)]

Blocks == Seq(Payloads)

\* How often a chain pays out payload p, when it is replayed from genesis.
Count(chain, p) == Cardinality({i \in 1..Len(chain) : chain[i] = p})

\* Finite maps, as functions: m with x mapped to y, and m on top of n.  (TLC's
\* :> and @@ by another name, which the provers can expand.)
Put(m, x, y) ==
  [z \in DOMAIN m \cup {x} |-> IF z = x THEN y ELSE m[z]]
Over(m, n) ==
  [z \in DOMAIN m \cup DOMAIN n |-> IF z \in DOMAIN m THEN m[z] ELSE n[z]]

-----------------------------------------------------------------------------
Parts == {"len", "body", "crc"}
RecordLen == 3

Piece(b, part) == [block |-> b, part |-> part]
Pieces == [block : Blocks, part : Parts]

\* readBlock at an offset succeeds.
Readable(log, o) ==
  /\ o + RecordLen <= Len(log)
  /\ LET b == log[o + 1].block
     IN  /\ log[o + 1] = Piece(b, "len")
         /\ log[o + 2] = Piece(b, "body")
         /\ log[o + 3] = Piece(b, "crc")

BlockAt(log, o) == log[o + 1].block

\* The record of block b starts at offset o.
Stored(log, o, b) == Readable(log, o) /\ BlockAt(log, o) = b

\* f gives an offset to every height of the chain that ends in b, and the
\* blocks of that chain are stored there.
Chained(log, f, b) ==
  \A h \in 0..Height(b) :
    h \in DOMAIN f /\ Stored(log, f[h], SubSeq(b, 1, h + 1))

\* The records that chop() meets: it reads one after the other from offset 0.
RecordsOfHeight(log, h) ==
  {o \in 0..Len(log) :
     o % RecordLen = 0 /\ Readable(log, o) /\ Height(BlockAt(log, o)) = h}

FirstOfHeight(log, h) ==
  CHOOSE o \in RecordsOfHeight(log, h) :
    \A q \in RecordsOfHeight(log, h) : o <= q

\* Where chop(h) truncates: behind the first record that has the height.
ChopPoint(log, h) == FirstOfHeight(log, h) + RecordLen
=============================================================================
