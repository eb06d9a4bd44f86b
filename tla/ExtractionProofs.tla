-------------------------- MODULE ExtractionProofs --------------------------
(***************************************************************************)
(* Whatever the input and the limits, each of the four parsers keeps the   *)
(* types, holds the limits, walks as BlockStream promises, loses nothing,  *)
(* and refuses nothing that is valid and within the limits.                *)
(*                                                                         *)
(* A step of a parser is one of three: it returns, it walks on, or it walks*)
(* on and adds a block.  What every format has in common is shown once, of *)
(* these three; what is shown of each format is that it takes no other.    *)
(* Of the content, a step crosses the segment that stands at the position, *)
(* or stays; of a valid input, what the parser asks for next is there.     *)
(***************************************************************************)
EXTENDS Extraction, DataLemmas

BlockType ==
    [offset : 0..data.len, len : 0..data.len, literals : Nat, uncompressed : SUBSET Nat]

\* Where the next block begins at the least.
Frontier == IF format = "snappy" THEN start ELSE pos \div Scale

InOrder ==
    /\ phase = "header" /\ format \in {"lz4", "snappy"} => pos = 0 /\ start = 0
    /\ \A i \in DOMAIN blocks : blocks[i].offset <= Frontier

\* What bounds the number of blocks: of Snappy each chunk adds one at most, the
\* end of the stream one more; of Zstd the last block of a frame is always let in.
Counted ==
    /\ format \in {"lz4", "gzip"} => Len(blocks) <= MaxBlocks[format]
    /\ format = "snappy" =>
          /\ count < MaxChunks
          /\ Len(blocks) <= count \/ (phase = "chunks" /\ pos >= data.len /\ pending = 0 /\ Len(blocks) <= count + 1)
    /\ format = "zstd" =>
          /\ count <= MaxFrames
          /\ Len(blocks) <= MaxBlocks["zstd"] + count
          /\ phase \notin {"header", "checksum"} => Len(blocks) < MaxBlocks["zstd"] + count

IInv == TypeOK /\ LimitsHeld /\ InOrder /\ Counted

-----------------------------------------------------------------------------
(* The three kinds of step.                                                *)

Returns ==
    /\ status = "running" /\ status' \in {"ok", "error"}
    /\ UNCHANGED <<format, data, phase, pos, blocks, total, count, pending, start>>

Walks ==
    /\ status = "running"
    /\ UNCHANGED <<format, data, status>>
    /\ phase' \in Phases
    /\ pos' \in pos..(Scale * data.len)
    /\ start' \in start..pos'
    /\ count' \in Nat /\ pending' \in Nat
    /\ phase' = "header" => format \notin {"lz4", "snappy"}

Passes == Walks /\ UNCHANGED <<blocks, total>>

Adds(b) ==
    /\ Walks
    /\ b \in BlockType /\ Cardinality(b.uncompressed) <= 1
    /\ Frontier <= b.offset /\ b.offset <= Frontier' /\ b.offset + b.len <= CeilDiv(pos', Scale)
    /\ Len(blocks) < MaxBlockCount
    /\ blocks' = Append(blocks, b)
    /\ total' = total + b.literals
    /\ WithinTotal(total')
    /\ format \in {"lz4", "zstd"} => WithinRatio(total')

StepOK == (Returns \/ Passes \/ \E b : Adds(b)) /\ Counted'

-----------------------------------------------------------------------------
(* The input.                                                              *)

LEMMA SomeNat == ASSUME NEW S, S \subseteq Nat, S # {} PROVE (CHOOSE n \in S : TRUE) \in S
OBVIOUS

LEMMA LimitTypes ==
  /\ MaxTotalLiterals \in Nat /\ MaxRatio \in Nat /\ RatioFloor \in Nat
  /\ FlushAt \in Nat /\ MaxChunks \in Nat /\ MaxChunks > 0 /\ MaxFrames \in Nat /\ MaxSkips \in Nat
  /\ MaxBlockCount \in Nat /\ MaxBlockSize["lz4"] \in Nat /\ MaxBlockSize["snappy"] \in Nat
  /\ MaxBlockSize["zstd"] \in Nat /\ MaxBlockSize["gzip"] \in Nat
  /\ MaxBlocks["lz4"] \in 0..MaxBlockCount /\ MaxBlocks["gzip"] \in 0..MaxBlockCount
  /\ MaxChunks \in 0..MaxBlockCount /\ MaxBlocks["zstd"] \in Nat
  /\ MaxBlocks["zstd"] + MaxFrames \in 0..MaxBlockCount
BY StreamConstants, SnappyConstants, ZstdConstants, PromiseConstants DEF Formats

LEMMA DataTypes ==
  ASSUME TypeOK
  PROVE  /\ data.len \in Nat /\ data.len <= MaxLen
         /\ \A kind, p : \A s \in SegsAt(kind, p) : s.kind = kind /\ s.at = p /\ SegOK(s)
<1>1. format \in Formats /\ data \in Inputs[format]
  BY DEF TypeOK
<1>2. data.len \in Nat /\ data.len <= MaxLen /\ \A i \in DOMAIN data.segs : SegOK(data.segs[i])
  BY <1>1, InputTypes, PromiseConstants
<1>3. QED
  BY <1>2 DEF SegsAt

LEMMA StateTypes ==
  ASSUME TypeOK
  PROVE  /\ status = "running" => status \in {"running", "ok", "error"}
         /\ pos \in Nat /\ start \in Nat /\ start <= pos /\ total \in Nat /\ count \in Nat /\ pending \in Nat
         /\ blocks \in Seq(BlockType) /\ Len(blocks) \in Nat
         /\ phase \in Phases /\ format \in Formats
         /\ format # "gzip" => Scale = 1 /\ Scale * data.len = data.len /\ pos <= data.len
         /\ format = "gzip" => Scale = 8 /\ Scale * data.len = 8 * data.len /\ pos <= 8 * data.len
<1>1. data.len \in Nat /\ Scale \in {1, 8}
  BY DataTypes DEF Scale
<1>2. Scale * data.len = (IF format = "gzip" THEN 8 * data.len ELSE data.len)
  BY <1>1 DEF Scale
<1>3. pos \in 0..(Scale * data.len) /\ start \in 0..pos /\ Scale * data.len \in Nat
  BY <1>1, <1>2 DEF TypeOK
<1>4. pos \in Nat /\ pos <= Scale * data.len /\ start \in Nat /\ start <= pos
  BY <1>3
<1>5. blocks \in Seq(BlockType)
  BY DEF TypeOK, BlockType
<1>6. QED
  BY <1>1, <1>2, <1>4, <1>5 DEF TypeOK, Scale

LEMMA BlockTypes ==
  ASSUME TypeOK, NEW i \in DOMAIN blocks
  PROVE  blocks[i] \in BlockType /\ blocks[i].offset \in Nat /\ blocks[i].len \in Nat /\ blocks[i].literals \in Nat
<1>1. blocks[i] \in BlockType
  BY StateTypes
<1>2. QED
  BY <1>1 DEF BlockType

LEMMA CeilOne == ASSUME NEW n \in Nat PROVE CeilDiv(n, 1) = n /\ n \div 1 = n
BY DEF CeilDiv

LEMMA CeilEight ==
  ASSUME NEW n \in Nat
  PROVE  CeilDiv(n, 8) \in Nat /\ n <= 8 * CeilDiv(n, 8) /\ 8 * CeilDiv(n, 8) < n + 8
BY DEF CeilDiv

LEMMA ScaledDown ==
  ASSUME NEW s \in {1, 8}, NEW p \in Nat, NEW q \in Nat, p <= q
  PROVE  p \div s \in Nat /\ q \div s \in Nat /\ p \div s <= q \div s
<1>1. CASE s = 1
  BY <1>1, CeilOne
<1>2. CASE s = 8
  BY <1>2
<1>3. QED
  BY <1>1, <1>2

\* A parser that returns: it is in no phase it was not in.
LEMMA ReturnOK == ASSUME IInv, status = "running", Fail \/ Succeed PROVE StepOK
<1>1. Returns
  BY DEF Fail, Succeed, Returns
<1>2. Counted'
  BY <1>1 DEF Returns, IInv, Counted
<1>3. QED
  BY <1>1, <1>2 DEF StepOK

-----------------------------------------------------------------------------
(* Steps, by what there is to show of positions and numbers.               *)

LEMMA AtMostOne == Cardinality({}) <= 1 /\ \A n : Cardinality({n}) <= 1
<1>1. ASSUME NEW n PROVE Cardinality({n}) <= 1
  <2>1. Cardinality({n}) = 1
    BY FS_Singleton
  <2>2. QED
    BY <2>1
<1>2. Cardinality({}) = 0
  BY FS_EmptySet
<1>3. QED
  BY <1>1, <1>2

LEMMA WalkOK ==
  ASSUME TypeOK, status = "running", UNCHANGED <<format, data, status>>,
         phase' \in Phases \ {"header"} \/ (phase' = "header" /\ format \notin {"lz4", "snappy"}),
         pos' \in Nat, pos <= pos', pos' <= Scale * data.len,
         start' \in Nat, start <= start', start' <= pos', count' \in Nat, pending' \in Nat
  PROVE  Walks
<1>1. pos' \in pos..(Scale * data.len) /\ start' \in start..pos'
  BY StateTypes, DataTypes
<1>2. QED
  BY <1>1 DEF Walks, Phases

\* A step that adds a block.
LEMMA AddOK ==
  ASSUME TypeOK, Walks,
         NEW offset \in Nat, NEW len \in Nat, NEW literals \in Nat, NEW uncompressed \in SUBSET Nat,
         blocks' = Append(blocks, Block(offset, len, literals, uncompressed)), total' = total + literals,
         Cardinality(uncompressed) <= 1,
         Frontier <= offset, offset <= Frontier', offset + len <= CeilDiv(pos', Scale), offset + len <= data.len,
         Len(blocks) < MaxBlockCount,
         total + literals <= MaxTotalLiterals,
         format \in {"lz4", "zstd"} => WithinRatio(total + literals)
  PROVE  \E b : Adds(b)
<1> DEFINE b == Block(offset, len, literals, uncompressed)
<1>1. /\ b.offset = offset /\ b.len = len /\ b.literals = literals /\ b.uncompressed = uncompressed
      /\ b \in BlockType
  BY DataTypes DEF Block, BlockType
<1>2. WithinTotal(total')
  BY DEF WithinTotal
<1>3. blocks' = Append(blocks, b)
  OBVIOUS
<1>4. format \in {"lz4", "zstd"} => WithinRatio(total')
  OBVIOUS
<1> HIDE DEF b
<1>5. Adds(b)
  BY <1>1, <1>2, <1>3, <1>4 DEF Adds
<1>6. QED
  BY <1>5

-----------------------------------------------------------------------------
(* LZ4.                                                                    *)

LEMMA Lz4HeaderOK == ASSUME IInv, Lz4Header PROVE StepOK
<1> USE DEF IInv
<1>1. CASE Fail
  BY <1>1, ReturnOK DEF Lz4Header, Running
<1>2. ASSUME UNCHANGED <<format, data, status, blocks, total, count, pending, start>>,
             phase' = "blocks", pos' \in pos..data.len
      PROVE  StepOK
  <2>1. format = "lz4" /\ status = "running"
    BY DEF Lz4Header, Running
  <2>2. Passes
    BY <1>2, <2>1, StateTypes DEF Passes, Walks, Phases
  <2>3. Counted'
    BY <1>2, <2>1 DEF Counted
  <2>4. QED
    BY <2>2, <2>3 DEF StepOK
<1>3. pos = 0 /\ data.len \in Nat
  BY DataTypes DEF Lz4Header, Running, InOrder
<1>4. \A h \in SegsAt("lz4_frame", 0) : Lz4HeaderEnd(h) \in Nat
  BY DEF Lz4HeaderEnd
<1>5. QED
  BY <1>1, <1>2, <1>3, <1>4 DEF Lz4Header

LEMMA Lz4BlockOK ==
  ASSUME IInv, Running("lz4"), phase = "blocks", Len(blocks) < MaxBlocks["lz4"], pos + 4 <= data.len,
         NEW h \in Lz4HeadersAt(pos), h.size > 0, Lz4Block(h)
  PROVE  StepOK
<1> DEFINE n == IF h.raw THEN h.size ELSE CHOOSE m \in h.lits : TRUE
<1>1. format = "lz4" /\ status = "running" /\ Scale = 1 /\ TypeOK
  BY DEF Running, Scale, IInv
<1>2. h.size \in Nat /\ h.lits \subseteq Nat
  BY <1>1, DataTypes, InputTypes DEF Lz4HeadersAt, SegOK
<1>3. /\ data.len \in Nat /\ pos \in Nat /\ start \in Nat /\ start <= pos /\ pos <= data.len
      /\ total \in Nat /\ count \in Nat /\ pending \in Nat /\ Len(blocks) \in Nat /\ Scale * data.len = data.len
  BY <1>1, DataTypes, StateTypes
<1>4. CASE Fail
  BY <1>1, <1>4, ReturnOK
<1>5. CASE ~Fail
  <2>1. /\ pos + 4 + h.size <= data.len /\ (h.raw \/ h.lits # {})
        /\ WithinTotal(total + n) /\ WithinRatio(total + n)
        /\ blocks' = Append(blocks, Block(pos, h.size, (total + n) - total, {}))
        /\ total' = total + n /\ pos' = pos + 4 + h.size
        /\ UNCHANGED <<format, data, status, phase, count, pending, start>>
    <3>1. ~(pos + 4 + h.size > data.len) => pos + 4 + h.size <= data.len
      BY <1>2, <1>3
    <3>2. QED
      BY <1>5, <3>1 DEF Lz4Block
  <2>2. n \in Nat
    BY <1>2, <2>1, SomeNat
  <2> HIDE DEF n
  <2>3. (total + n) - total = n /\ total + n <= MaxTotalLiterals /\ pos' \in Nat
    BY <1>2, <1>3, <2>1, <2>2, SMTT(30) DEF WithinTotal
  <2>4. Frontier = pos /\ Frontier' = pos' /\ CeilDiv(pos', Scale) = pos'
    BY <1>1, <1>3, <2>1, <2>3, CeilOne DEF Frontier, Scale
  <2>5. Len(blocks) < MaxBlockCount
    BY <1>3, LimitTypes
  <2>6. \E b : Adds(b)
    <3>1. Walks
      BY <1>1, <1>2, <1>3, <2>1, <2>3, WalkOK DEF Phases
    <3>2. /\ blocks' = Append(blocks, Block(pos, h.size, n, {})) /\ total' = total + n
          /\ Frontier <= pos /\ pos <= Frontier' /\ pos + h.size <= CeilDiv(pos', Scale) /\ pos + h.size <= data.len
      BY <1>2, <1>3, <2>1, <2>3, <2>4, SMTT(30)
    <3>3. {} \in SUBSET Nat /\ Cardinality({}) <= 1 /\ (format \in {"lz4", "zstd"} => WithinRatio(total + n))
      BY <2>1, AtMostOne
    <3>4. QED
      BY <1>1, <1>2, <1>3, <2>2, <2>3, <2>5, <3>1, <3>2, <3>3, AddOK, Zenon
  <2>7. Counted'
    <3>1. Len(blocks') = Len(blocks) + 1
      BY <1>1, <2>1, StateTypes
    <3>2. QED
      BY <1>1, <1>3, <2>1, <3>1, LimitTypes, SMTT(30) DEF Counted
  <2>8. QED
    BY <2>6, <2>7 DEF StepOK
<1>6. QED
  BY <1>4, <1>5

LEMMA Lz4OK == ASSUME IInv, Lz4Next PROVE StepOK
<1>1. CASE Lz4Header
  BY <1>1, Lz4HeaderOK
<1>2. CASE Lz4Blocks
  <2>1. Running("lz4") /\ phase = "blocks" /\ status = "running"
    BY <1>2 DEF Lz4Blocks, Running
  <2>2. CASE Fail \/ Succeed
    BY <2>1, <2>2, ReturnOK
  <2>3. CASE ~(Fail \/ Succeed)
    BY <1>2, <2>1, <2>3, Lz4BlockOK DEF Lz4Blocks
  <2>4. QED
    BY <2>2, <2>3
<1>3. QED
  BY <1>1, <1>2 DEF Lz4Next

-----------------------------------------------------------------------------
(* Snappy.                                                                 *)

LEMMA SnappyTypes ==
  ASSUME TypeOK, Running("snappy")
  PROVE  /\ format = "snappy" /\ status = "running" /\ Scale = 1 /\ Scale * data.len = data.len
         /\ data.len \in Nat /\ pos \in Nat /\ start \in Nat /\ start <= pos /\ pos <= data.len
         /\ total \in Nat /\ count \in Nat /\ pending \in Nat /\ Len(blocks) \in Nat
BY StateTypes, DataTypes DEF Running

LEMMA SnappyStartOK == ASSUME IInv, SnappyStart PROVE StepOK
<1>1. TypeOK /\ Running("snappy")
  BY DEF SnappyStart, IInv
<1>2. CASE Fail
  BY <1>1, <1>2, ReturnOK DEF Running
<1>3. CASE ~Fail
  <2>1. PICK past \in {0, 10} :
           /\ past <= data.len /\ pos' = past /\ start' = past
           /\ phase' = "chunks" /\ UNCHANGED <<format, data, status, blocks, total, count, pending>>
    BY <1>1, <1>3, SnappyTypes DEF SnappyStart
  <2>2. pos = 0 /\ start = 0
    BY <1>1 DEF IInv, InOrder, SnappyStart, Running
  <2>3. Passes
    BY <1>1, <2>1, <2>2, SnappyTypes, WalkOK DEF Phases, Passes
  <2>4. Len(blocks) <= count /\ count < MaxChunks
    BY <1>1, SnappyTypes DEF IInv, Counted, SnappyStart
  <2>5. Counted'
    BY <1>1, <2>1, <2>4, SnappyTypes DEF Counted
  <2>6. QED
    BY <2>3, <2>5 DEF StepOK
<1>4. QED
  BY <1>2, <1>3

LEMMA ChunkAdds ==
  ASSUME NEW c, SegOK(c), c.kind = "chunk", ChunkLiterals(c) # {}
  PROVE  (CHOOSE n \in ChunkLiterals(c) : TRUE) \in Nat
<1>1. c.len \in Nat /\ c.lits \subseteq Nat /\ c.type \in {"identifier", "compressed", "raw", "padding", "reserved"}
  BY DEF SegOK
<1>2. ChunkLiterals(c) \subseteq Nat
  <2>1. CASE c.type = "raw"
    <3>1. ChunkLiterals(c) = IF c.len <= 4 THEN {} ELSE {c.len - 4}
      BY <2>1 DEF ChunkLiterals
    <3>2. c.len > 4 => c.len - 4 \in Nat
      BY <1>1
    <3>3. QED
      BY <1>1, <3>1, <3>2
  <2>2. CASE c.type = "compressed"
    BY <1>1, <2>2 DEF ChunkLiterals
  <2>3. CASE c.type \in {"padding", "identifier"}
    BY <2>3 DEF ChunkLiterals
  <2>4. CASE c.type = "reserved"
    BY <2>4 DEF ChunkLiterals
  <2>5. QED
    BY <1>1, <2>1, <2>2, <2>3, <2>4
<1>3. QED
  BY <1>2, SomeNat

\* A block is flushed.
LEMMA FlushOK ==
  ASSUME TypeOK, Running("snappy"), phase = "chunks", Counted, Len(blocks) <= count,
         NEW literals \in Nat, total + literals <= MaxTotalLiterals,
         NEW end \in Nat, start <= end, end <= pos', pos <= pos', pos' \in Nat, pos' <= data.len,
         Flush(literals, end), UNCHANGED <<format, data, status, phase>>, count' \in Nat
  PROVE  \E b : Adds(b)
<1>1. /\ blocks' = Append(blocks, Block(start, end - start, literals, {literals}))
      /\ total' = total + literals /\ pending' = 0 /\ start' = end
  BY DEF Flush
<1>2. Frontier = start /\ Frontier' = end /\ CeilDiv(pos', Scale) = pos'
  BY <1>1, SnappyTypes, CeilOne DEF Frontier
<1>3. end - start \in Nat /\ start + (end - start) = end
  BY SnappyTypes
<1>4. Len(blocks) < MaxBlockCount
  BY SnappyTypes, LimitTypes DEF Counted
<1>5. Walks
  BY <1>1, SnappyTypes, WalkOK DEF Phases
<1>6. {literals} \in SUBSET Nat /\ Cardinality({literals}) <= 1
  BY AtMostOne
<1> DEFINE len == end - start
<1>7. len \in Nat /\ start + len <= pos' /\ start + len <= data.len
  BY <1>3, SnappyTypes, SMTT(30)
<1>8. blocks' = Append(blocks, Block(start, len, literals, {literals})) /\ total' = total + literals
  BY <1>1
<1>9. /\ Frontier <= start /\ start <= Frontier' /\ start + len <= CeilDiv(pos', Scale)
      /\ start \in Nat /\ (format \in {"lz4", "zstd"} => WithinRatio(total + literals))
  BY <1>2, <1>3, <1>7, SnappyTypes
<1> HIDE DEF len
<1>10. QED
  BY <1>4, <1>5, <1>6, <1>7, <1>8, <1>9, AddOK, Zenon

LEMMA SnappyChunkOK == ASSUME IInv, SnappyChunk PROVE StepOK
<1>1. TypeOK /\ Running("snappy") /\ Counted /\ phase = "chunks" /\ pos < data.len
  BY DEF SnappyChunk, IInv
<1>2. Len(blocks) <= count
  BY <1>1, SnappyTypes DEF Counted
<1>3. CASE Fail
  BY <1>1, <1>3, ReturnOK DEF Running
<1>4. CASE ~Fail
  <2> DEFINE add(c) == CHOOSE n \in ChunkLiterals(c) : TRUE
  <2>1. PICK c \in SegsAt("chunk", pos) :
           /\ ~(count + 1 >= MaxChunks) /\ ~(pos + 4 + c.len > data.len) /\ ChunkLiterals(c) # {}
           /\ ~(pending + add(c) > FlushAt /\ ~WithinTotal(total + (pending + add(c))))
           /\ IF pending + add(c) > FlushAt
              THEN Flush(pending + add(c), pos + 4)
              ELSE pending' = pending + add(c) /\ UNCHANGED <<blocks, total, start>>
           /\ count' = count + 1 /\ pos' = pos + 4 + c.len /\ UNCHANGED <<format, data, status, phase>>
    BY <1>4 DEF SnappyChunk
  <2>2. c.len \in Nat /\ add(c) \in Nat
    BY <1>1, <2>1, DataTypes, ChunkAdds DEF SegOK
  <2> DEFINE gathered == pending + add(c)
  <2>3. gathered \in Nat /\ pos' \in Nat /\ pos + 4 <= pos' /\ pos' <= data.len /\ count' \in Nat /\ count' < MaxChunks
    <3> HIDE DEF add
    <3>1. /\ data.len \in Nat /\ pos \in Nat /\ pending \in Nat /\ count \in Nat /\ MaxChunks \in Nat
          /\ c.len \in Nat /\ add(c) \in Nat
      BY <1>1, <2>2, SnappyTypes, LimitTypes
    <3>2. /\ ~(count + 1 >= MaxChunks) /\ ~(pos + 4 + c.len > data.len)
          /\ count' = count + 1 /\ pos' = pos + 4 + c.len
      BY <2>1
    <3>3. pos + 4 + c.len <= data.len /\ count + 1 < MaxChunks
      BY <3>1, <3>2
    <3>4. QED
      BY <3>1, <3>2, <3>3
  <2> HIDE DEF add
  <2>4. CASE gathered > FlushAt
    <3>1. Flush(gathered, pos + 4) /\ total + gathered <= MaxTotalLiterals
      BY <2>1, <2>4 DEF WithinTotal
    <3>2. \E b : Adds(b)
      <4> DEFINE end == pos + 4
      <4>1. end \in Nat /\ start <= end /\ end <= pos' /\ pos <= pos'
        BY <1>1, <2>3, SnappyTypes
      <4> HIDE DEF end, gathered
      <4>2. Flush(gathered, end)
        BY <3>1 DEF end
      <4>3. QED
        BY <1>1, <1>2, <2>1, <2>3, <3>1, <4>1, <4>2, FlushOK
    <3>3. Len(blocks') = Len(blocks) + 1
      BY <1>1, <3>1, StateTypes DEF Flush
    <3>4. Counted'
      BY <1>1, <1>2, <2>1, <2>3, <3>3, SnappyTypes DEF Counted
    <3>5. QED
      BY <3>2, <3>4 DEF StepOK
  <2>5. CASE ~(gathered > FlushAt)
    <3>1. pending' = gathered /\ UNCHANGED <<blocks, total, start>>
      BY <2>1, <2>5
    <3> HIDE DEF gathered
    <3>2. Passes
      BY <1>1, <2>1, <2>3, <3>1, SnappyTypes, WalkOK DEF Phases, Passes
    <3>3. Counted'
      BY <1>1, <1>2, <2>1, <2>3, <3>1, SnappyTypes DEF Counted
    <3>4. QED
      BY <3>2, <3>3 DEF StepOK
  <2>6. QED
    BY <2>4, <2>5
<1>5. QED
  BY <1>3, <1>4

LEMMA SnappyEndOK == ASSUME IInv, SnappyEnd PROVE StepOK
<1>1. TypeOK /\ Running("snappy") /\ Counted /\ phase = "chunks" /\ pos >= data.len
  BY DEF SnappyEnd, IInv
<1>2. CASE Fail \/ Succeed
  BY <1>1, <1>2, ReturnOK DEF Running
<1>3. CASE ~(Fail \/ Succeed)
  <2>1. /\ pending > 0 /\ WithinTotal(total + pending) /\ Flush(pending, pos)
        /\ UNCHANGED <<format, data, status, phase, pos, count>>
    BY <1>3 DEF SnappyEnd
  <2>2. Len(blocks) <= count
    BY <1>1, <2>1, SnappyTypes DEF Counted
  <2>3. \E b : Adds(b)
    BY <1>1, <2>1, <2>2, SnappyTypes, FlushOK DEF WithinTotal
  <2>4. Len(blocks') = Len(blocks) + 1 /\ pending' = 0
    BY <1>1, <2>1, StateTypes DEF Flush
  <2>5. Counted'
    BY <1>1, <2>1, <2>2, <2>4, SnappyTypes DEF Counted
  <2>6. QED
    BY <2>3, <2>5 DEF StepOK
<1>4. QED
  BY <1>2, <1>3

-----------------------------------------------------------------------------
(* Zstd.                                                                   *)

LEMMA ZstdTypes ==
  ASSUME TypeOK, Running("zstd")
  PROVE  /\ format = "zstd" /\ status = "running" /\ Scale = 1 /\ Scale * data.len = data.len
         /\ data.len \in Nat /\ pos \in Nat /\ start \in Nat /\ start <= pos /\ pos <= data.len
         /\ total \in Nat /\ count \in Nat /\ pending \in Nat /\ Len(blocks) \in Nat
BY StateTypes, DataTypes DEF Running

LEMMA ZstdFrameOK == ASSUME IInv, ZstdFrame PROVE StepOK
<1>1. TypeOK /\ Running("zstd") /\ Counted /\ phase = "header"
  BY DEF ZstdFrame, IInv
<1>2. CASE Fail \/ Succeed
  BY <1>1, <1>2, ReturnOK DEF Running
<1>3. CASE ~(Fail \/ Succeed)
  <2>1. /\ ~(count + 1 > MaxFrames)
        /\ count' = count + 1 /\ start' = pos /\ pending' = 0 /\ phase' = "magic"
        /\ UNCHANGED <<format, data, status, pos, blocks, total>>
    BY <1>3 DEF ZstdFrame
  <2>2. Passes
    BY <1>1, <2>1, ZstdTypes, WalkOK DEF Phases, Passes
  <2>3. Counted'
    <3>1. /\ count \in Nat /\ Len(blocks) \in Nat /\ MaxFrames \in Nat /\ MaxBlocks["zstd"] \in Nat
          /\ Len(blocks) <= MaxBlocks["zstd"] + count /\ format = "zstd"
      BY <1>1, ZstdTypes, LimitTypes DEF Counted
    <3>2. /\ format' = "zstd" /\ count' = count + 1 /\ blocks' = blocks
          /\ count' <= MaxFrames /\ Len(blocks') < MaxBlocks["zstd"] + count'
      BY <2>1, <3>1
    <3>3. QED
      BY <3>1, <3>2 DEF Counted
  <2>4. QED
    BY <2>2, <2>3 DEF StepOK
<1>4. QED
  BY <1>2, <1>3

LEMMA ZstdMagicOK == ASSUME IInv, ZstdMagic PROVE StepOK
<1>1. TypeOK /\ Running("zstd") /\ Counted /\ phase = "magic"
  BY DEF ZstdMagic, IInv
<1>2. CASE Fail \/ Succeed
  BY <1>1, <1>2, ReturnOK DEF Running
<1>3. ASSUME NEW h \in SegsAt("zstd_frame", pos), ~(pos + h.bytes > data.len), pos' = pos + h.bytes,
             phase' \in {"checked_blocks", "blocks"},
             UNCHANGED <<format, data, status, blocks, total, count, pending, start>>
      PROVE  StepOK
  <2>1. h.bytes \in Nat
    BY <1>1, DataTypes DEF SegOK
  <2>2. pos' \in Nat /\ pos <= pos' /\ pos' <= data.len
    BY <1>1, <1>3, <2>1, ZstdTypes
  <2>3. Passes
    BY <1>1, <1>3, <2>2, ZstdTypes, WalkOK DEF Phases, Passes
  <2>4. Counted'
    BY <1>1, <1>3, ZstdTypes DEF Counted
  <2>5. QED
    BY <2>3, <2>4 DEF StepOK
<1>4. ASSUME NEW h \in SegsAt("skippable", pos), ~(pos + 8 + h.size > data.len), pos' = pos + 8 + h.size,
             pending' = pending + 1,
             UNCHANGED <<format, data, status, phase, blocks, total, count, start>>
      PROVE  StepOK
  <2>1. h.size \in Nat
    BY <1>1, DataTypes DEF SegOK
  <2>2. pos' \in Nat /\ pos <= pos' /\ pos' <= data.len /\ pending' \in Nat
    BY <1>1, <1>4, <2>1, ZstdTypes, SMTT(30)
  <2>3. Passes
    BY <1>1, <1>4, <2>2, ZstdTypes, WalkOK DEF Phases, Passes
  <2>4. Counted'
    BY <1>1, <1>4, ZstdTypes DEF Counted
  <2>5. QED
    BY <2>3, <2>4 DEF StepOK
<1>5. QED
  BY <1>2, <1>3, <1>4 DEF ZstdMagic

LEMMA ZstdBlockOK ==
  ASSUME IInv, Running("zstd"), phase \in {"blocks", "checked_blocks"},
         NEW h \in SegsAt("zstd_block", pos), ZstdBlock(h)
  PROVE  StepOK
<1> DEFINE n == CHOOSE m \in BlockLiterals(h) : TRUE
           l == StreamSize(h)
<1>1. TypeOK /\ Counted
  BY DEF IInv
<1>2. CASE Fail
  BY <1>2, ReturnOK DEF Running
<1>3. CASE ~Fail
  <2>1. /\ ~(pos + 3 + l > data.len) /\ BlockLiterals(h) # {}
        /\ WithinTotal(total + n) /\ WithinRatio(total + n)
        /\ h.last \/ ~(Len(blocks) + 1 >= MaxBlocks["zstd"])
        /\ blocks' = Append(blocks, Block(pos, l + 3, (total + n) - total, {h.size}))
        /\ total' = total + n
        /\ pos' = pos + 3 + l
        /\ phase' = IF ~h.last THEN phase ELSE IF phase = "checked_blocks" THEN "checksum" ELSE "header"
        /\ UNCHANGED <<format, data, status, count, pending, start>>
    BY <1>3 DEF ZstdBlock
  <2>2. h.size \in Nat /\ h.lits \subseteq Nat /\ h.type \in {"raw", "rle", "compressed", "reserved"}
    BY <1>1, DataTypes DEF SegOK
  <2>3. n \in Nat
    <3>1. BlockLiterals(h) \subseteq Nat
      BY <2>2 DEF BlockLiterals
    <3>2. QED
      BY <2>1, <3>1, SomeNat
  <2>4. l \in Nat
    BY <2>2 DEF StreamSize
  <2> HIDE DEF n, l
  <2>5. (total + n) - total = n /\ total + n <= MaxTotalLiterals
    BY <1>1, <2>1, <2>3, ZstdTypes DEF WithinTotal
  <2>6. /\ pos' \in Nat /\ pos <= pos' /\ pos' = pos + (l + 3) /\ pos' <= data.len /\ l + 3 \in Nat
        /\ phase' \in {"blocks", "checked_blocks", "checksum", "header"}
    <3>1. /\ pos \in Nat /\ data.len \in Nat /\ l \in Nat
          /\ ~(pos + 3 + l > data.len) /\ pos' = pos + 3 + l
      BY <1>1, <2>1, <2>4, ZstdTypes
    <3>2. phase' \in {"blocks", "checked_blocks", "checksum", "header"}
      BY <2>1
    <3>3. QED
      BY <3>1, <3>2
  <2>7. Walks
    BY <1>1, <2>1, <2>6, ZstdTypes, WalkOK, SMTT(30) DEF Phases
  <2>8. Frontier = pos /\ Frontier' = pos' /\ CeilDiv(pos', Scale) = pos'
    BY <1>1, <2>1, <2>6, ZstdTypes, CeilOne DEF Frontier, Scale
  <2>9. Len(blocks) < MaxBlockCount
    BY <1>1, ZstdTypes, LimitTypes, SMTT(30) DEF Counted
  <2>10. /\ {h.size} \in SUBSET Nat /\ Cardinality({h.size}) <= 1
         /\ blocks' = Append(blocks, Block(pos, l + 3, n, {h.size}))
         /\ Frontier <= pos /\ pos <= Frontier' /\ pos + (l + 3) <= CeilDiv(pos', Scale) /\ pos + (l + 3) <= data.len
         /\ (format \in {"lz4", "zstd"} => WithinRatio(total + n)) /\ pos \in Nat
    <3>1. {h.size} \in SUBSET Nat /\ Cardinality({h.size}) <= 1
      BY <2>2, AtMostOne
    <3>2. blocks' = Append(blocks, Block(pos, l + 3, n, {h.size})) /\ WithinRatio(total + n)
      BY <2>1, <2>5
    <3>3. /\ Frontier <= pos /\ pos <= Frontier' /\ pos + (l + 3) <= CeilDiv(pos', Scale) /\ pos + (l + 3) <= data.len
          /\ pos \in Nat
      BY <1>1, <2>6, <2>8, ZstdTypes
    <3>4. QED
      BY <3>1, <3>2, <3>3
  <2>11. \E b : Adds(b)
    BY <1>1, <2>1, <2>3, <2>5, <2>6, <2>7, <2>9, <2>10, AddOK, Zenon
  <2>12. Len(blocks') = Len(blocks) + 1
    BY <1>1, <2>1, StateTypes
  <2>13. Counted'
    <3>1. /\ count \in Nat /\ Len(blocks) \in Nat /\ MaxBlocks["zstd"] \in Nat /\ format = "zstd"
          /\ count <= MaxFrames /\ Len(blocks) < MaxBlocks["zstd"] + count
      BY <1>1, ZstdTypes, LimitTypes DEF Counted
    <3>2. format' = "zstd" /\ count' = count /\ Len(blocks') <= MaxBlocks["zstd"] + count
      BY <2>1, <2>12, <3>1
    <3>3. ASSUME phase' \notin {"header", "checksum"} PROVE Len(blocks') < MaxBlocks["zstd"] + count
      <4>1. ~(Len(blocks) + 1 >= MaxBlocks["zstd"])
        BY <2>1, <3>3
      <4>2. QED
        BY <2>12, <3>1, <4>1
    <3>4. QED
      BY <3>1, <3>2, <3>3 DEF Counted
  <2>14. QED
    BY <2>11, <2>13 DEF StepOK
<1>4. QED
  BY <1>2, <1>3

LEMMA ZstdChecksumOK == ASSUME IInv, ZstdChecksum PROVE StepOK
<1>1. TypeOK /\ Running("zstd") /\ Counted /\ phase = "checksum"
  BY DEF ZstdChecksum, IInv
<1>2. CASE Fail
  BY <1>1, <1>2, ReturnOK DEF Running
<1>3. CASE ~Fail
  <2>1. /\ ~(pos + 4 > data.len) /\ pos' = pos + 4 /\ phase' = "header"
        /\ UNCHANGED <<format, data, status, blocks, total, count, pending, start>>
    BY <1>3 DEF ZstdChecksum
  <2>2. Passes
    BY <1>1, <2>1, ZstdTypes, WalkOK DEF Phases, Passes
  <2>3. Counted'
    BY <1>1, <2>1, ZstdTypes DEF Counted
  <2>4. QED
    BY <2>2, <2>3 DEF StepOK
<1>4. QED
  BY <1>2, <1>3

LEMMA ZstdOK == ASSUME IInv, ZstdNext PROVE StepOK
<1>1. CASE ZstdBlocks
  <2>1. Running("zstd") /\ phase \in {"blocks", "checked_blocks"} /\ status = "running"
    BY <1>1 DEF ZstdBlocks, Running
  <2>2. CASE Fail
    BY <2>1, <2>2, ReturnOK
  <2>3. CASE ~Fail
    BY <1>1, <2>1, <2>3, ZstdBlockOK DEF ZstdBlocks
  <2>4. QED
    BY <2>2, <2>3
<1>2. QED
  BY <1>1, ZstdFrameOK, ZstdMagicOK, ZstdChecksumOK DEF ZstdNext

-----------------------------------------------------------------------------
(* Gzip: positions are in bits.                                            *)

LEMMA GzipTypes ==
  ASSUME TypeOK, Running("gzip")
  PROVE  /\ format = "gzip" /\ status = "running" /\ Scale = 8 /\ Scale * data.len = 8 * data.len
         /\ data.len \in Nat /\ pos \in Nat /\ start \in Nat /\ start <= pos /\ pos <= 8 * data.len
         /\ total \in Nat /\ count \in Nat /\ pending \in Nat /\ Len(blocks) \in Nat
BY StateTypes, DataTypes DEF Running

LEMMA GzipHeaderOK == ASSUME IInv, GzipHeader PROVE StepOK
<1>1. TypeOK /\ Running("gzip") /\ Counted /\ phase = "header"
  BY DEF GzipHeader, IInv
<1>2. CASE Fail \/ Succeed
  BY <1>1, <1>2, ReturnOK DEF Running
<1>3. CASE ~(Fail \/ Succeed)
  <2>1. PICK h \in SegsAt("gzip_header", pos) :
           /\ ~(pos + 8 * h.bytes > 8 * data.len) /\ pos' = pos + 8 * h.bytes
           /\ phase' = "blocks" /\ pending' = 0 /\ UNCHANGED <<format, data, status, blocks, total, count, start>>
    BY <1>3 DEF GzipHeader
  <2>2. h.bytes \in Nat
    BY <1>1, DataTypes DEF SegOK
  <2>3. pos' \in Nat /\ pos <= pos' /\ pos' <= 8 * data.len
    BY <1>1, <2>1, <2>2, GzipTypes, SMTT(30)
  <2>4. Passes
    BY <1>1, <2>1, <2>3, GzipTypes, WalkOK DEF Phases, Passes
  <2>5. Counted'
    BY <1>1, <2>1, GzipTypes DEF Counted
  <2>6. QED
    BY <2>4, <2>5 DEF StepOK
<1>4. QED
  BY <1>2, <1>3

\* The bytes a DEFLATE block reaches into are in what has been walked over.
LEMMA BytesOf ==
  ASSUME NEW p \in Nat, NEW n \in Nat
  PROVE  /\ p \div 8 \in Nat /\ UsedBytes(n) \in Nat
         /\ p \div 8 <= (p + n) \div 8 /\ p \div 8 + UsedBytes(n) <= CeilDiv(p + n, 8)
BY DEF UsedBytes, CeilDiv

LEMMA CeilWithin == ASSUME NEW n \in Nat, NEW m \in Nat, n <= 8 * m PROVE CeilDiv(n, 8) <= m
BY DEF CeilDiv

LEMMA DeflateOK ==
  ASSUME IInv, Running("gzip"), phase = "blocks", Len(blocks) < MaxBlocks["gzip"],
         NEW h \in SegsAt("deflate", pos), Deflate(h)
  PROVE  StepOK
<1> DEFINE n == CHOOSE m \in h.lits : TRUE
           l == UsedBytes(h.bits)
           o == pos \div 8
<1>1. TypeOK /\ Counted
  BY DEF IInv
<1>2. CASE Fail
  BY <1>2, ReturnOK DEF Running
<1>3. CASE ~Fail
  <2>1. /\ ~(pos + h.bits > 8 * data.len) /\ h.lits # {} /\ WithinTotal(total + n)
        /\ blocks' = Append(blocks, Block(o, l, (total + n) - total, {}))
        /\ total' = total + n /\ pos' = pos + h.bits
        /\ pending' = IF h.matches THEN 1 ELSE pending
        /\ phase' = IF h.final THEN "trailer" ELSE "blocks"
        /\ UNCHANGED <<format, data, status, count, start>>
    BY <1>3 DEF Deflate
  <2>2. h.bits \in Nat /\ h.lits \subseteq Nat
    BY <1>1, DataTypes DEF SegOK
  <2>3. n \in Nat
    BY <2>1, <2>2, SomeNat
  <2> HIDE DEF n
  <2>4. (total + n) - total = n /\ total + n <= MaxTotalLiterals
    BY <1>1, <2>1, <2>3, GzipTypes DEF WithinTotal
  <2>5. /\ pos' \in Nat /\ pos <= pos' /\ pos' = pos + h.bits /\ pos' <= 8 * data.len
        /\ phase' \in {"blocks", "trailer"} /\ pending' \in Nat
    <3>1. /\ pos \in Nat /\ data.len \in Nat /\ h.bits \in Nat
          /\ ~(pos + h.bits > 8 * data.len) /\ pos' = pos + h.bits
      BY <1>1, <2>1, <2>2, GzipTypes
    <3>2. phase' \in {"blocks", "trailer"} /\ pending' \in Nat
      BY <1>1, <2>1, GzipTypes
    <3>3. QED
      BY <3>1, <3>2
  <2>6. o \in Nat /\ l \in Nat /\ o <= pos' \div 8 /\ o + l <= CeilDiv(pos', 8)
    BY <1>1, <2>2, <2>5, BytesOf, GzipTypes
  <2>7. CeilDiv(pos', 8) <= data.len /\ CeilDiv(pos', 8) \in Nat
    BY <1>1, <2>5, CeilWithin, CeilEight, GzipTypes
  <2>8. Frontier = o /\ Frontier' = pos' \div 8 /\ CeilDiv(pos', Scale) = CeilDiv(pos', 8) /\ pos' \div 8 \in Nat
    BY <1>1, <2>1, <2>5, GzipTypes, SMTT(30) DEF Frontier, Scale
  <2> HIDE DEF l, o
  <2>9. Walks
    BY <1>1, <2>1, <2>5, GzipTypes, WalkOK DEF Phases
  <2>10. Len(blocks) < MaxBlockCount
    BY <1>1, GzipTypes, LimitTypes, SMTT(30)
  <2>11. /\ {} \in SUBSET Nat /\ Cardinality({}) <= 1
         /\ blocks' = Append(blocks, Block(o, l, n, {}))
         /\ Frontier <= o /\ o <= Frontier' /\ o + l <= CeilDiv(pos', Scale) /\ o + l <= data.len
         /\ (format \in {"lz4", "zstd"} => WithinRatio(total + n))
    BY <1>1, <2>1, <2>4, <2>6, <2>7, <2>8, AtMostOne, GzipTypes, SMTT(30)
  <2>12. \E b : Adds(b)
    BY <1>1, <2>1, <2>3, <2>4, <2>6, <2>9, <2>10, <2>11, AddOK, Zenon
  <2>13. Len(blocks') = Len(blocks) + 1
    BY <1>1, <2>1, StateTypes
  <2>14. Counted'
    BY <1>1, <2>1, <2>13, GzipTypes, LimitTypes, SMTT(30) DEF Counted
  <2>15. QED
    BY <2>12, <2>14 DEF StepOK
<1>4. QED
  BY <1>2, <1>3

LEMMA GzipTrailerOK == ASSUME IInv, GzipTrailer PROVE StepOK
<1>1. TypeOK /\ Running("gzip") /\ Counted /\ phase = "trailer"
  BY DEF GzipTrailer, IInv
<1>2. CASE Fail
  BY <1>1, <1>2, ReturnOK DEF Running
<1>3. CASE ~Fail
  <2>1. /\ CeilDiv(pos, 8) + 8 <= data.len /\ pos' = 8 * (CeilDiv(pos, 8) + 8)
        /\ count' = count + 1 /\ phase' = "header"
        /\ UNCHANGED <<format, data, status, blocks, total, pending, start>>
    BY <1>3 DEF GzipTrailer, TrailerFits
  <2>2. pos' \in Nat /\ pos <= pos' /\ pos' <= 8 * data.len
    <3> DEFINE c == CeilDiv(pos, 8)
    <3>1. /\ pos \in Nat /\ data.len \in Nat /\ c \in Nat /\ pos <= 8 * c
          /\ c + 8 <= data.len /\ pos' = 8 * (c + 8)
      BY <1>1, <2>1, CeilEight, GzipTypes
    <3> HIDE DEF c
    <3>2. QED
      BY <3>1
  <2>3. Passes
    BY <1>1, <2>1, <2>2, GzipTypes, WalkOK DEF Phases, Passes
  <2>4. Counted'
    BY <1>1, <2>1, GzipTypes DEF Counted
  <2>5. QED
    BY <2>3, <2>4 DEF StepOK
<1>4. QED
  BY <1>2, <1>3

LEMMA GzipOK == ASSUME IInv, GzipNext PROVE StepOK
<1>1. CASE GzipDeflate
  <2>1. Running("gzip") /\ phase = "blocks" /\ status = "running"
    BY <1>1 DEF GzipDeflate, Running
  <2>2. CASE Fail
    BY <2>1, <2>2, ReturnOK
  <2>3. CASE ~Fail
    BY <1>1, <2>1, <2>3, DeflateOK DEF GzipDeflate
  <2>4. QED
    BY <2>2, <2>3
<1>2. QED
  BY <1>1, GzipHeaderOK, GzipTrailerOK DEF GzipNext

-----------------------------------------------------------------------------
(* Every step is of one of the three kinds.                                *)

LEMMA NextOK == ASSUME IInv, Next PROVE StepOK
<1>1. CASE SnappyNext
  BY <1>1, SnappyStartOK, SnappyChunkOK, SnappyEndOK DEF SnappyNext
<1>2. QED
  BY <1>1, Lz4OK, ZstdOK, GzipOK DEF Next

-----------------------------------------------------------------------------
(* The invariant.                                                          *)

LEMMA InitIInv == Init => IInv
<1> SUFFICES ASSUME Init PROVE IInv
  OBVIOUS
<1>1. /\ format \in Formats /\ data \in Inputs[format] /\ data.len \in Nat
      /\ status = "running" /\ phase = "header" /\ pos = 0 /\ blocks = <<>>
      /\ total = 0 /\ count = 0 /\ pending = 0 /\ start = 0
  BY InputTypes DEF Init
<1>2. Scale * data.len \in Nat
  BY <1>1 DEF Scale
<1>3. TypeOK
  BY <1>1, <1>2 DEF TypeOK, Phases
<1>4. LimitsHeld
  <2>1. Delivered = 0
    BY <1>1, SumSeqEmpty DEF Delivered
  <2>2. data.len * MaxRatio \in Nat
    BY <1>1, LimitTypes, SMTT(30)
  <2>3. WithinRatio(0)
    BY <2>2, LimitTypes DEF WithinRatio, LargestOf
  <2>4. QED
    BY <1>1, <2>1, <2>3, LimitTypes DEF LimitsHeld
<1>5. InOrder
  BY <1>1 DEF InOrder
<1>6. Counted
  BY <1>1, LimitTypes DEF Counted
<1>7. QED
  BY <1>3, <1>4, <1>5, <1>6 DEF IInv

LEMMA DeliveredAppend ==
  ASSUME TypeOK, NEW b \in BlockType, blocks' = Append(blocks, b)
  PROVE  Delivered' = Delivered + b.literals /\ Delivered \in Nat
<1> DEFINE q == [i \in DOMAIN blocks |-> blocks[i].literals]
           r == [i \in DOMAIN blocks' |-> blocks'[i].literals]
<1>1. blocks \in Seq(BlockType) /\ b.literals \in Nat
  BY StateTypes DEF BlockType
<1>2. /\ DOMAIN blocks = 1..Len(blocks) /\ Len(blocks) \in Nat
      /\ \A i \in 1..Len(blocks) : blocks[i] \in BlockType
      /\ DOMAIN blocks' = 1..(Len(blocks) + 1) /\ blocks'[Len(blocks) + 1] = b
      /\ \A i \in 1..Len(blocks) : blocks'[i] = blocks[i]
  BY <1>1
<1>3. \A i \in 1..Len(blocks) : blocks[i].literals \in Nat
  BY <1>2 DEF BlockType
<1>4. q \in Seq(Nat) /\ Len(q) = Len(blocks)
  BY <1>2, <1>3, IsASeq
<1>5. r = Append(q, b.literals)
  BY <1>1, <1>2, <1>4
<1> HIDE DEF q, r
<1>6. SumFunction(r) = SumFunction(q) + b.literals /\ SumFunction(q) \in Nat
  BY <1>1, <1>4, <1>5, SumAppend, SumSeqType
<1>7. QED
  BY <1>6 DEF q, r, Delivered

LEMMA AddsInv ==
  ASSUME IInv, NEW b, Adds(b)
  PROVE  TypeOK' /\ LimitsHeld' /\ InOrder'
<1>1. TypeOK /\ Walks /\ b \in BlockType /\ blocks' = Append(blocks, b)
  BY DEF IInv, Adds
<1>2. UNCHANGED <<format, data, status>> /\ data' = data /\ format' = format
  BY <1>1 DEF Walks
<1>3. blocks \in Seq(BlockType) /\ Len(blocks) \in Nat /\ DOMAIN blocks = 1..Len(blocks)
  BY <1>1, StateTypes
<1>4. /\ blocks' \in Seq(BlockType) /\ DOMAIN blocks' = 1..(Len(blocks) + 1)
      /\ blocks'[Len(blocks) + 1] = b /\ \A i \in 1..Len(blocks) : blocks'[i] = blocks[i]
  BY <1>1, <1>3
<1>5. total' = total + b.literals /\ total' \in Nat
  BY <1>1, StateTypes DEF Adds, BlockType
<1>6. TypeOK'
  <2>1. \A i \in DOMAIN blocks' : Cardinality(blocks'[i].uncompressed) <= 1
    BY <1>1, <1>3, <1>4 DEF Adds, TypeOK
  <2>2. BlockType' = BlockType /\ Scale' = Scale
    BY <1>2 DEF BlockType, Scale
  <2>3. blocks' \in Seq(BlockType')
    BY <1>4, <2>2
  <2>4. format' \in Formats /\ data' \in Inputs[format'] /\ status' \in {"running", "ok", "error"}
    BY <1>1, <1>2 DEF TypeOK
  <2>5. phase' \in Phases /\ pos' \in 0..(Scale' * data'.len) /\ start' \in 0..pos' /\ count' \in Nat /\ pending' \in Nat
    <3>1. Scale * data.len \in Nat /\ pos \in Nat /\ start \in Nat
      BY <1>1, StateTypes, DataTypes
    <3>2. QED
      BY <1>1, <1>2, <2>2, <3>1 DEF Walks
  <2>6. QED
    BY <1>5, <2>1, <2>3, <2>4, <2>5 DEF TypeOK, BlockType
<1>7. LimitsHeld'
  <2>1. Delivered' = total'
    BY <1>1, <1>5, DeliveredAppend DEF IInv, LimitsHeld
  <2>2. total' <= MaxTotalLiterals
    BY DEF Adds, WithinTotal
  <2>3. format' \in {"lz4", "zstd"} => WithinRatio(total')
    BY <1>2 DEF Adds
  <2>4. QED
    BY <1>2, <2>1, <2>2, <2>3 DEF LimitsHeld, WithinRatio
<1>8. InOrder'
  <2>1. Frontier <= b.offset /\ b.offset <= Frontier' /\ b.offset \in Nat
    BY <1>1 DEF Adds, BlockType
  <2>2. Frontier \in Nat /\ Frontier' \in Nat
    <3>1. pos \in Nat /\ start \in Nat /\ Scale \in {1, 8}
      BY <1>1, StateTypes DEF Scale
    <3>2. Scale' = Scale
      BY <1>2 DEF Scale
    <3>3. pos' \in pos..(Scale * data.len) /\ start' \in start..pos'
      BY <1>1 DEF Walks
    <3>4. pos' \in Nat /\ start' \in Nat /\ pos <= pos'
      BY <1>1, <3>1, <3>3, StateTypes, DataTypes
    <3>5. pos \div Scale \in Nat /\ pos' \div Scale \in Nat
      BY <3>1, <3>4, ScaledDown
    <3>6. QED
      BY <3>1, <3>2, <3>4, <3>5 DEF Frontier
  <2>3. ASSUME NEW i \in DOMAIN blocks' PROVE blocks'[i].offset <= Frontier'
    <3>1. CASE i = Len(blocks) + 1
      BY <1>4, <2>1, <3>1
    <3>2. CASE i \in 1..Len(blocks)
      <4>1. blocks'[i].offset \in Nat /\ blocks'[i].offset <= Frontier
        BY <1>1, <1>3, <1>4, <3>2, BlockTypes DEF IInv, InOrder
      <4>2. QED
        BY <2>1, <2>2, <4>1
    <3>3. QED
      BY <1>3, <1>4, <3>1, <3>2
  <2>4. ~(phase' = "header" /\ format' \in {"lz4", "snappy"})
    BY <1>1, <1>2 DEF Walks
  <2>5. QED
    BY <2>3, <2>4 DEF InOrder
<1>9. QED
  BY <1>6, <1>7, <1>8

LEMMA PassesInv ==
  ASSUME IInv, Passes
  PROVE  TypeOK' /\ LimitsHeld' /\ InOrder'
<1>1. TypeOK /\ Walks /\ UNCHANGED <<format, data, status, blocks, total>>
  BY DEF IInv, Passes, Walks
<1>2. Scale' = Scale /\ BlockType' = BlockType
  BY <1>1 DEF Scale, BlockType
<1>3. Scale * data.len \in Nat /\ pos \in Nat /\ start \in Nat /\ Scale \in {1, 8}
  BY <1>1, StateTypes, DataTypes DEF Scale
<1>4. phase' \in Phases /\ pos' \in pos..(Scale * data.len) /\ start' \in start..pos' /\ count' \in Nat /\ pending' \in Nat
  BY <1>1 DEF Walks
<1>5. pos' \in 0..(Scale * data.len) /\ start' \in 0..pos'
  BY <1>3, <1>4
<1>6. TypeOK'
  BY <1>1, <1>2, <1>4, <1>5 DEF TypeOK
<1>7. LimitsHeld'
  BY <1>1 DEF IInv, LimitsHeld, Delivered, WithinRatio
<1>8. InOrder'
  <2>1. Frontier \in Nat /\ Frontier' \in Nat /\ Frontier <= Frontier'
    <3>1. pos' \in Nat /\ start' \in Nat /\ pos <= pos' /\ start <= start'
      BY <1>3, <1>4
    <3>2. pos \div Scale \in Nat /\ pos' \div Scale \in Nat /\ pos \div Scale <= pos' \div Scale
      BY <1>3, <3>1, ScaledDown
    <3>3. QED
      BY <1>1, <1>2, <1>3, <3>1, <3>2 DEF Frontier
  <2>2. ASSUME NEW i \in DOMAIN blocks PROVE blocks[i].offset <= Frontier'
    <3>1. blocks[i].offset \in Nat /\ blocks[i].offset <= Frontier
      BY <1>1, BlockTypes DEF IInv, InOrder
    <3>2. QED
      BY <2>1, <3>1
  <2>3. ~(phase' = "header" /\ format' \in {"lz4", "snappy"})
    BY <1>1 DEF Walks
  <2>4. QED
    BY <1>1, <2>2, <2>3 DEF InOrder
<1>9. QED
  BY <1>6, <1>7, <1>8

LEMMA StepIInv == IInv /\ [Next]_vars => IInv'
<1> SUFFICES ASSUME IInv, [Next]_vars PROVE IInv'
  OBVIOUS
<1>1. ASSUME UNCHANGED <<format, data, phase, pos, blocks, total, count, pending, start>>, status' \in {"running", "ok", "error"}
      PROVE  IInv'
  <2>1. Scale' = Scale /\ Frontier' = Frontier
    BY <1>1 DEF Scale, Frontier
  <2>2. TypeOK'
    BY <1>1, <2>1 DEF IInv, TypeOK
  <2>3. LimitsHeld'
    BY <1>1 DEF IInv, LimitsHeld, Delivered, WithinRatio
  <2>4. InOrder'
    BY <1>1, <2>1 DEF IInv, InOrder
  <2>5. Counted'
    BY <1>1 DEF IInv, Counted
  <2>6. QED
    BY <2>2, <2>3, <2>4, <2>5 DEF IInv
<1>2. CASE UNCHANGED vars
  BY <1>1, <1>2 DEF vars, IInv, TypeOK
<1>3. CASE Next
  <2>1. StepOK
    BY <1>3, NextOK
  <2>2. CASE Returns
    BY <1>1, <2>2 DEF Returns
  <2>3. CASE Passes
    BY <2>1, <2>3, PassesInv DEF StepOK, IInv
  <2>4. ASSUME NEW b, Adds(b) PROVE IInv'
    BY <2>1, <2>4, AddsInv DEF StepOK, IInv
  <2>5. QED
    BY <2>1, <2>2, <2>3, <2>4 DEF StepOK
<1>4. QED
  BY <1>2, <1>3

\* The inductive invariant: types, limits, the order of blocks, and what bounds
\* their number.
THEOREM Invariance == Spec => []IInv
BY InitIInv, StepIInv, PTL DEF Spec

\* Every variable has its type in every state of every parser: no position
\* runs past the input, and no extent of a block.
THEOREM TypeCorrect == Spec => []TypeOK
<1>1. IInv => TypeOK
  BY DEF IInv
<1>2. QED
  BY <1>1, Invariance, PTL

\* The limits on literals hold whatever the input, and the total they are held
\* by is the number of literals in the blocks.
THEOREM LimitsHeldCorrect == Spec => []LimitsHeld
<1>1. IInv => LimitsHeld
  BY DEF IInv
<1>2. QED
  BY <1>1, Invariance, PTL

-----------------------------------------------------------------------------
(* Every parser keeps the promise of BlockStream.                          *)

\* What is reported of the blocks, and how far has been walked, in bytes.
Extents == [i \in DOMAIN blocks |-> [offset |-> blocks[i].offset, len |-> blocks[i].len]]
Bytes == CeilDiv(pos, Scale)

LEMMA CeilScaled ==
  ASSUME NEW s \in {1, 8}, NEW p \in Nat, NEW q \in Nat, p <= q, NEW n \in Nat, q <= s * n
  PROVE  /\ CeilDiv(p, s) \in Nat /\ CeilDiv(q, s) \in Nat
         /\ CeilDiv(p, s) <= CeilDiv(q, s) /\ CeilDiv(q, s) <= n
<1>1. CASE s = 1
  BY <1>1, CeilOne
<1>2. CASE s = 8
  BY <1>2 DEF CeilDiv
<1>3. QED
  BY <1>1, <1>2

LEMMA ExtentsAppend ==
  ASSUME TypeOK, NEW b \in BlockType, blocks' = Append(blocks, b)
  PROVE  /\ DOMAIN Extents = 1..Len(blocks) /\ Len(Extents) = Len(blocks)
         /\ Extents' = Append(Extents, [offset |-> b.offset, len |-> b.len])
<1> DEFINE extent(c) == [offset |-> c.offset, len |-> c.len]
<1>1. blocks \in Seq(BlockType)
  BY StateTypes
<1>2. /\ Len(blocks) \in Nat /\ DOMAIN blocks = 1..Len(blocks)
      /\ DOMAIN blocks' = 1..(Len(blocks) + 1) /\ blocks'[Len(blocks) + 1] = b
      /\ \A i \in 1..Len(blocks) : blocks'[i] = blocks[i]
  BY <1>1
<1>3. \A i \in 1..Len(blocks) : extent(blocks[i]) \in [offset : Nat, len : Nat]
  BY <1>2, BlockTypes
<1>4. extent(b) \in [offset : Nat, len : Nat]
  BY DataTypes DEF BlockType
<1>5. Extents = [i \in 1..Len(blocks) |-> extent(blocks[i])]
  BY <1>2 DEF Extents
<1>6. Extents' = [i \in 1..(Len(blocks) + 1) |-> extent(blocks'[i])]
  BY <1>2 DEF Extents
<1> HIDE DEF extent
<1>7. Extents \in Seq([offset : Nat, len : Nat]) /\ Len(Extents) = Len(blocks) /\ DOMAIN Extents = 1..Len(blocks)
  BY <1>2, <1>3, <1>5, IsASeq
<1>8. Extents' = Append(Extents, extent(b))
  <2> DEFINE r == Append(Extents, extent(b))
  <2>1. /\ r \in Seq([offset : Nat, len : Nat]) /\ DOMAIN r = 1..(Len(blocks) + 1)
        /\ r[Len(blocks) + 1] = extent(b) /\ \A i \in 1..Len(blocks) : r[i] = Extents[i]
    BY <1>4, <1>7, Appended, SMTT(30)
  <2> HIDE DEF r
  <2>2. \A i \in 1..Len(blocks) : Extents[i] = extent(blocks[i])
    BY <1>5
  <2>3. ASSUME NEW i \in 1..(Len(blocks) + 1) PROVE extent(blocks'[i]) = r[i]
    <3>1. CASE i = Len(blocks) + 1
      BY <3>1, <1>2, <2>1
    <3>2. CASE i \in 1..Len(blocks)
      <4>1. blocks'[i] = blocks[i] /\ r[i] = Extents[i] /\ Extents[i] = extent(blocks[i])
        BY <3>2, <1>2, <2>1, <2>2
      <4>2. QED
        BY <4>1
    <3>3. QED
      BY <3>1, <3>2, <1>2
  <2>4. r = [i \in 1..(Len(blocks) + 1) |-> r[i]]
    BY <2>1
  <2>5. QED
    BY <1>6, <2>3, <2>4 DEF r
<1>9. QED
  BY <1>7, <1>8 DEF extent

LEMMA PromiseInit == Init => Promise!Init
<1> SUFFICES ASSUME Init PROVE Promise!Init
  OBVIOUS
<1>1. IInv
  BY InitIInv
<1>2. pos = 0 /\ blocks = <<>> /\ status = "running" /\ data.len \in 0..MaxLen
  BY <1>1, DataTypes, PromiseConstants DEF Init, IInv
<1>3. CeilDiv(pos, Scale) = 0
  BY <1>2 DEF CeilDiv, Scale
<1>4. Extents = <<>>
  BY <1>2 DEF Extents
<1>5. QED
  BY <1>2, <1>3, <1>4 DEF Promise!Init, Extents

\* A walk, with or without a block, is a walk there.
LEMMA PromiseWalk ==
  ASSUME IInv, Walks, UNCHANGED <<blocks, total>> \/ \E b : Adds(b)
  PROVE  Promise!Walk
<1>1. TypeOK /\ UNCHANGED <<format, data, status>> /\ status = "running"
  BY DEF IInv, Walks
<1>2. Scale' = Scale /\ Scale \in {1, 8} /\ data.len \in Nat
  BY <1>1, DataTypes DEF Scale
<1>3. pos \in Nat /\ pos' \in Nat /\ pos <= pos' /\ pos' <= Scale * data.len
  <2>1. pos' \in pos..(Scale * data.len) /\ pos \in Nat /\ Scale * data.len \in Nat
    BY <1>1, <1>2, StateTypes, SMTT(30) DEF Walks
  <2>2. QED
    BY <2>1
<1>4. /\ Bytes \in Nat /\ Bytes' \in Nat /\ Bytes <= Bytes' /\ Bytes' <= data.len
      /\ Bytes' = CeilDiv(pos', Scale)
  BY <1>2, <1>3, CeilScaled DEF Bytes
<1>5. \/ UNCHANGED Extents
      \/ \E first \in 0..Bytes' : \E last \in first..Bytes' :
            /\ Len(Extents) < MaxBlockCount
            /\ Extents # <<>> => Extents[Len(Extents)].offset <= first
            /\ Extents' = Append(Extents, [offset |-> first, len |-> last - first])
  <2>1. CASE UNCHANGED <<blocks, total>>
    BY <2>1 DEF Extents
  <2>2. ASSUME NEW b, Adds(b)
        PROVE  \E first \in 0..Bytes' : \E last \in first..Bytes' :
                  /\ Len(Extents) < MaxBlockCount
                  /\ Extents # <<>> => Extents[Len(Extents)].offset <= first
                  /\ Extents' = Append(Extents, [offset |-> first, len |-> last - first])
    <3> DEFINE first == b.offset
               last == b.offset + b.len
    <3>1. b \in BlockType /\ blocks' = Append(blocks, b) /\ Len(blocks) < MaxBlockCount
      BY <2>2 DEF Adds
    <3>2. b.offset \in Nat /\ b.len \in Nat
      BY <1>2, <3>1 DEF BlockType
    <3>3. first \in 0..Bytes' /\ last \in first..Bytes' /\ last - first = b.len
      <4>1. b.offset + b.len <= Bytes'
        BY <1>4, <2>2 DEF Adds
      <4>2. QED
        BY <1>4, <3>2, <4>1
    <3>4. blocks \in Seq(BlockType) /\ Len(blocks) \in Nat /\ DOMAIN blocks = 1..Len(blocks)
      BY <1>1, StateTypes
    <3>5. /\ DOMAIN Extents = 1..Len(blocks) /\ Len(Extents) = Len(blocks)
          /\ Extents' = Append(Extents, [offset |-> b.offset, len |-> b.len])
      BY <1>1, <3>1, ExtentsAppend
    <3>6. ASSUME Extents # <<>> PROVE Extents[Len(Extents)].offset <= first
      <4>1. Len(blocks) \in 1..Len(blocks)
        BY <3>4, <3>5, <3>6
      <4>2. Extents[Len(Extents)].offset = blocks[Len(blocks)].offset
        BY <3>4, <3>5, <4>1 DEF Extents
      <4>3. blocks[Len(blocks)].offset \in Nat /\ blocks[Len(blocks)].offset <= Frontier
        BY <1>1, <3>4, <4>1, BlockTypes DEF IInv, InOrder
      <4>4. Frontier <= b.offset /\ Frontier \in Nat
        <5>1. pos \div Scale \in Nat /\ start \in Nat
          BY <1>1, <1>2, <1>3, ScaledDown, StateTypes
        <5>2. QED
          BY <2>2, <5>1 DEF Adds, Frontier
      <4>5. blocks[Len(blocks)].offset <= b.offset
        BY <3>2, <4>3, <4>4
      <4>6. QED
        BY <4>2, <4>5
    <3>7. Extents' = Append(Extents, [offset |-> first, len |-> last - first])
      BY <3>3, <3>5
    <3> HIDE DEF first, last
    <3>8. QED
      BY <3>1, <3>3, <3>5, <3>6, <3>7, Zenon
  <2>3. QED
    BY <2>1, <2>2
<1>6. Bytes' \in Bytes..data.len /\ UNCHANGED <<data.len, status>>
  BY <1>1, <1>2, <1>4
<1>7. QED
  BY <1>1, <1>5, <1>6 DEF Promise!Walk, Extents, Bytes

LEMMA PromiseStep == IInv /\ [Next]_vars => [Promise!Next]_(Promise!vars)
<1> SUFFICES ASSUME IInv, [Next]_vars PROVE [Promise!Next]_(Promise!vars)
  OBVIOUS
<1>1. CASE UNCHANGED vars
  BY <1>1 DEF vars, Promise!vars, Scale
<1>2. CASE Next
  <2>1. StepOK
    BY <1>2, NextOK
  <2>2. CASE Returns
    <3>1. Promise!Stop
      BY <2>2 DEF Returns, Promise!Stop, Scale
    <3>2. QED
      BY <3>1 DEF Promise!Next
  <2>3. CASE Passes
    BY <2>3, PromiseWalk DEF Passes, Promise!Next
  <2>4. ASSUME NEW b, Adds(b) PROVE Promise!Next
    BY <2>4, PromiseWalk DEF Adds, Promise!Next
  <2>5. QED
    BY <2>1, <2>2, <2>3, <2>4 DEF StepOK
<1>3. QED
  BY <1>1, <1>2

\* Every parser, on every input, walks as BlockStream does: front to back,
\* with the extents in order and within what it has walked over, and with a
\* bounded number of blocks, until it returns for good.
THEOREM ImplementsBlockStream == Spec => Promise!Init /\ [][Promise!Next]_(Promise!vars)
BY PromiseInit, PromiseStep, Invariance, PTL DEF Spec

-----------------------------------------------------------------------------
(* Nothing is lost.                                                        *)
(*                                                                         *)
(* What is gathered is at all times the literals of the segments behind the*)
(* position, and the position never stands inside of a segment.            *)

Behind == {s \in Segs : SegEnd(s) <= pos}
Gathered == IF format = "snappy" THEN total + pending ELSE total

Boundary == \A s \in Segs : SegEnd(s) <= pos \/ pos <= s.at
Accounted == Gathered = LiteralsOf(Behind) /\ \A s \in Behind : LiteralsIn(s) \in Nat

\* Up to p, in a frame with the header f, of blocks alone.
InFrame(f, ph, p) ==
    /\ f.kind = "zstd_frame" /\ SegEnd(f) <= p
    /\ IF f.checksum THEN ph = "checked_blocks" ELSE ph = "blocks"
    /\ \A t \in Segs : f.at < t.at /\ t.at < p => t.kind = "zstd_block" /\ ~t.last

\* What stands at the position is what the parser is about to read.
Expected ==
    /\ format # "gzip" => (\E t \in Segs : t.at = pos) \/ (\A t \in Segs : SegEnd(t) <= pos)
    /\ format = "lz4" /\ phase # "header" /\ data.len >= 4 /\ Lz4Framed => pos > 0
    /\ format = "zstd" /\ phase \in {"header", "magic"} => \A t \in Segs : t.at = pos => t.kind \in Heads
    /\ format = "zstd" /\ phase \in {"blocks", "checked_blocks"} => \E f \in Segs : InFrame(f, phase, pos)
    /\ format = "zstd" /\ phase = "checksum" => \A t \in Segs : t.at = pos => t.kind = "zstd_checksum"
    /\ format = "gzip" /\ phase = "trailer" => \A t \in Segs : pos <= t.at => 8 * CeilDiv(pos, 8) <= t.at

\* What NothingLost says of a result.
Complete ==
    /\ total = LiteralsOf({s \in Segs : Present(s)})
    /\ \A s \in Segs : s.at + 4 * Scale <= Scale * data.len /\ SegLiterals(s) # {0} => Present(s)

Content == InStep => Boundary /\ Accounted /\ Expected

\* The two kinds of step: over a segment, and on the spot.
Crosses(h) ==
    /\ h \in Segs /\ pos <= h.at /\ \A t \in Segs : pos <= t.at => h.at <= t.at
    /\ UNCHANGED <<format, data>> /\ pos' = SegEnd(h)
    /\ LiteralsIn(h) \in Nat /\ Gathered' = Gathered + LiteralsIn(h)

Stays == UNCHANGED <<format, data, pos>> /\ Gathered' = Gathered

ContentOK ==
    /\ Stays \/ \E h : Crosses(h)
    /\ Expected'
    /\ status' = "ok" => Complete /\ UNCHANGED <<blocks, total>>

-----------------------------------------------------------------------------
(* The layout.                                                             *)

LEMMA SegEnds ==
  ASSUME NEW f \in Formats, NEW s, SegOK(s), s.kind \in KindsOf(f)
  PROVE  s.at \in Nat /\ SegEnd(s) \in Nat /\ s.at < SegEnd(s)
<1>1. s.at \in Nat
  BY DEF SegOK
<1> DEFINE r == SegEnd(s) - s.at
<1>2. CASE s.kind = "lz4_frame"
  BY <1>1, <1>2 DEF SegEnd
<1>3. CASE s.kind \in {"lz4_block", "skippable", "zstd_block"}
  BY <1>1, <1>3 DEF SegEnd, SegOK
<1>4. CASE s.kind = "chunk"
  BY <1>1, <1>4 DEF SegEnd, SegOK
<1>5. CASE s.kind \in {"zstd_frame", "junk", "gzip_header"}
  BY <1>1, <1>5 DEF SegEnd, SegOK
<1>6. CASE s.kind \in {"zstd_checksum", "gzip_trailer"}
  BY <1>1, <1>6 DEF SegEnd
<1>7. CASE s.kind = "deflate"
  BY <1>1, <1>7 DEF SegEnd, SegOK
<1>8. QED
  BY <1>2, <1>3, <1>4, <1>5, <1>6, <1>7 DEF KindsOf, Formats

LEMMA Layout ==
  ASSUME TypeOK
  PROVE  /\ IsFiniteSet(Segs)
         /\ \A s \in Segs : /\ s.kind \in KindsOf(format) /\ SegOK(s)
                            /\ s.at \in Nat /\ SegEnd(s) \in Nat /\ s.at < SegEnd(s)
         /\ \A s, t \in Segs : s = t \/ SegEnd(s) <= t.at \/ SegEnd(t) <= s.at
         /\ format # "gzip" => Gapless(Segs)
         /\ LaidOut(format, Segs)
         /\ data.len > 0 => \E s \in Segs : data.len <= CeilDiv(SegEnd(s), Scale)
         /\ \A kind, p : SegsAt(kind, p) = {s \in Segs : s.kind = kind /\ s.at = p}
<1>1. format \in Formats /\ data \in Inputs[format]
  BY DEF TypeOK
<1>2. \A i \in DOMAIN data.segs : SegOK(data.segs[i])
  BY <1>1, InputTypes
<1>3. /\ IsFiniteSet(Segs) /\ \A s \in Segs : s.kind \in KindsOf(format)
      /\ \A s, t \in Segs : s = t \/ SegEnd(s) <= t.at \/ SegEnd(t) <= s.at
      /\ format # "gzip" => Gapless(Segs)
      /\ LaidOut(format, Segs)
      /\ data.len > 0 => \E s \in Segs : data.len <= CeilDiv(SegEnd(s), Scale)
  BY <1>1, InputLayout DEF Segs, Scale
<1>4. \A s \in Segs : SegOK(s)
  BY <1>2 DEF Segs
<1>5. \A s \in Segs : s.at \in Nat /\ SegEnd(s) \in Nat /\ s.at < SegEnd(s)
  BY <1>1, <1>3, <1>4, SegEnds
<1>6. \A kind, p : SegsAt(kind, p) = {s \in Segs : s.kind = kind /\ s.at = p}
  BY DEF SegsAt, Segs
<1>7. QED
  BY <1>3, <1>4, <1>5, <1>6

LEMMA LongEnough ==
  ASSUME TypeOK, format # "gzip", data.len > 0 PROVE \E s \in Segs : data.len <= SegEnd(s)
<1>1. PICK s \in Segs : data.len <= CeilDiv(SegEnd(s), 1)
  BY Layout DEF Scale
<1>2. CeilDiv(SegEnd(s), 1) = SegEnd(s)
  BY Layout, CeilOne
<1>3. QED
  BY <1>1, <1>2

LEMMA OneMore ==
  ASSUME NEW S, IsFiniteSet(S), NEW h, h \notin S, LiteralsIn(h) \in Nat, \A s \in S : LiteralsIn(s) \in Nat
  PROVE  LiteralsOf(S \cup {h}) = LiteralsOf(S) + LiteralsIn(h)
<1> DEFINE T == S \cup {h}
           f == [s \in T |-> LiteralsIn(s)]
           g == [s \in S |-> LiteralsIn(s)]
<1>1. IsFiniteSet(T)
  BY FS_AddElement
<1>2. T \ {h} = S
  OBVIOUS
<1>3. SumFunctionOnSet(f, T) = f[h] + SumFunctionOnSet(f, S)
  <2>1. (\A s \in T : f[s] \in Nat) /\ h \in T
    OBVIOUS
  <2> HIDE DEF f, T
  <2>2. SumFunctionOnSet(f, T) = f[h] + SumFunctionOnSet(f, T \ {h})
    BY <1>1, <2>1, SumRemove
  <2>3. QED
    BY <1>2, <2>2
<1>4. SumFunctionOnSet(f, S) = SumFunctionOnSet(g, S)
  <2>1. \A s \in S : f[s] = g[s]
    OBVIOUS
  <2> HIDE DEF f, g
  <2>2. QED
    BY <2>1, SumSame
<1>5. LiteralsOf(T) = SumFunctionOnSet(f, T) /\ LiteralsOf(S) = SumFunctionOnSet(g, S)
  BY DEF LiteralsOf, SumFunction
<1>6. f[h] = LiteralsIn(h) /\ SumFunctionOnSet(g, S) \in Nat
  <2>1. f[h] = LiteralsIn(h) /\ \A s \in S : g[s] \in Nat
    OBVIOUS
  <2> HIDE DEF f, g
  <2>2. QED
    BY <2>1, SumType
<1> HIDE DEF f, g
<1>7. LiteralsOf(T) = LiteralsIn(h) + LiteralsOf(S) /\ LiteralsOf(S) \in Nat
  BY <1>3, <1>4, <1>5, <1>6
<1>8. QED
  BY <1>7

LEMMA NoSegments == LiteralsOf({}) = 0
<1> DEFINE f == [s \in {} |-> LiteralsIn(s)]
<1>1. DOMAIN f = {} /\ LiteralsOf({}) = SumFunctionOnSet(f, DOMAIN f)
  BY DEF LiteralsOf, SumFunction
<1> HIDE DEF f
<1>2. QED
  BY <1>1, SumEmpty

LEMMA OnlyOne == ASSUME NEW h, LiteralsIn(h) \in Nat PROVE LiteralsOf({h}) = LiteralsIn(h)
<1>1. LiteralsOf({} \cup {h}) = LiteralsOf({}) + LiteralsIn(h)
  BY OneMore, FS_EmptySet
<1>2. {} \cup {h} = {h}
  OBVIOUS
<1>3. QED
  BY <1>1, <1>2, NoSegments

LEMMA NoMore ==
  ASSUME NEW S, NEW T, IsFiniteSet(T), S \subseteq T, \A s \in S : LiteralsIn(s) \in Nat,
         \A s \in T \ S : LiteralsIn(s) = 0
  PROVE  LiteralsOf(T) = LiteralsOf(S)
<1> DEFINE f == [s \in T |-> LiteralsIn(s)]
           g == [s \in S |-> LiteralsIn(s)]
<1>1. \A s \in S : f[s] = g[s]
  OBVIOUS
<1>2. (\A s \in T : f[s] \in Nat) /\ \A s \in T \ S : f[s] = 0
  OBVIOUS
<1>3. LiteralsOf(T) = SumFunctionOnSet(f, T) /\ LiteralsOf(S) = SumFunctionOnSet(g, S)
  BY DEF LiteralsOf, SumFunction
<1>4. IsFiniteSet(S)
  BY FS_Subset
<1> HIDE DEF f, g
<1>5. SumFunctionOnSet(f, T) = SumFunctionOnSet(f, S)
  BY <1>2, SumZeroes
<1>6. SumFunctionOnSet(f, S) = SumFunctionOnSet(g, S)
  BY <1>1, <1>4, SumSame
<1>7. QED
  BY <1>3, <1>5, <1>6

-----------------------------------------------------------------------------
(* What every step keeps.                                                  *)

LEMMA BehindFinite ==
  ASSUME TypeOK PROVE IsFiniteSet(Behind) /\ pos \in Nat
<1>1. Behind \subseteq Segs
  BY DEF Behind
<1>2. QED
  BY <1>1, Layout, FS_Subset, StateTypes

LEMMA CrossesOne ==
  ASSUME TypeOK, Boundary, NEW h, Crosses(h)
  PROVE  /\ Boundary' /\ h \notin Behind /\ Behind' = Behind \cup {h}
         /\ format # "gzip" => (\E t \in Segs : t.at = pos') \/ (\A t \in Segs : SegEnd(t) <= pos')
<1>1. Segs' = Segs /\ pos' = SegEnd(h) /\ h \in Segs /\ pos <= h.at /\ pos \in Nat
  BY StateTypes DEF Crosses, Segs
<1>2. h.at \in Nat /\ SegEnd(h) \in Nat /\ h.at < SegEnd(h)
  BY <1>1, Layout
<1>3. h \notin Behind
  BY <1>1, <1>2 DEF Behind
<1>4. ASSUME NEW t \in Segs, t # h
      PROVE  /\ SegEnd(t) <= pos <=> SegEnd(t) <= pos'
             /\ SegEnd(t) <= pos' \/ pos' <= t.at
  <2>1. t.at \in Nat /\ SegEnd(t) \in Nat /\ t.at < SegEnd(t) /\ (SegEnd(t) <= h.at \/ SegEnd(h) <= t.at)
    BY <1>1, <1>4, Layout
  <2>2. SegEnd(t) <= pos \/ pos <= t.at
    BY DEF Boundary
  <2>3. pos <= t.at => h.at <= t.at
    BY DEF Crosses
  <2>4. QED
    BY <1>1, <1>2, <2>1, <2>2, <2>3
<1>5. Boundary'
  BY <1>1, <1>2, <1>4 DEF Boundary
<1>6. Behind' = Behind \cup {h}
  <2>1. Behind' = {t \in Segs : SegEnd(t) <= pos'}
    BY <1>1 DEF Behind
  <2>2. QED
    BY <1>1, <1>2, <1>4, <2>1 DEF Behind
<1>7. ASSUME format # "gzip"
      PROVE  (\E t \in Segs : t.at = pos') \/ (\A t \in Segs : SegEnd(t) <= pos')
  BY <1>1, <1>7, Layout DEF Gapless
<1>8. QED
  BY <1>3, <1>5, <1>6, <1>7

LEMMA CrossesKeeps ==
  ASSUME TypeOK, Boundary, Accounted, NEW h, Crosses(h)
  PROVE  Boundary' /\ Accounted'
<1>1. Boundary' /\ h \notin Behind /\ Behind' = Behind \cup {h}
  BY CrossesOne
<1>2. /\ LiteralsIn(h) \in Nat /\ Gathered' = Gathered + LiteralsIn(h)
      /\ Gathered = LiteralsOf(Behind) /\ \A s \in Behind : LiteralsIn(s) \in Nat
  BY DEF Crosses, Accounted
<1>3. LiteralsOf(Behind \cup {h}) = LiteralsOf(Behind) + LiteralsIn(h)
  BY <1>1, <1>2, BehindFinite, OneMore
<1>4. Gathered' = LiteralsOf(Behind')
  BY <1>1, <1>2, <1>3
<1>5. \A s \in Behind' : LiteralsIn(s) \in Nat
  BY <1>1, <1>2
<1>6. QED
  BY <1>1, <1>4, <1>5 DEF Accounted

LEMMA StaysKeeps == ASSUME Boundary, Accounted, Stays PROVE Boundary' /\ Accounted'
<1>1. Segs' = Segs /\ pos' = pos /\ Gathered' = Gathered
  BY DEF Stays, Segs
<1>2. Behind' = Behind
  BY <1>1 DEF Behind
<1>3. QED
  BY <1>1, <1>2 DEF Boundary, Accounted

\* A parser that returns stays where it is; the call is done for when it has
\* read all there is to read.
LEMMA ReturnsContent ==
  ASSUME Expected, Fail \/ (Succeed /\ Complete)
  PROVE  ContentOK
<1>1. /\ UNCHANGED <<format, data, phase, pos, blocks, total, count, pending, start>>
      /\ status' \in {"ok", "error"} /\ (status' = "ok" => Complete)
  BY DEF Fail, Succeed
<1>2. Stays
  BY <1>1 DEF Stays, Gathered
<1>3. Expected'
  BY <1>1 DEF Expected, InFrame, Segs, Lz4Framed, SegsAt
<1>4. QED
  BY <1>1, <1>2, <1>3 DEF ContentOK

\* What is ahead is either not there, to the last of the four bytes it starts
\* with, or holds no literals.
LEMMA AllRead ==
  ASSUME TypeOK, Boundary, Accounted, Gathered = total,
         \A s \in Segs : pos <= s.at =>
             SegLiterals(s) = {0} \/ (~Present(s) /\ s.at + 4 * Scale > Scale * data.len)
  PROVE  Complete
<1> DEFINE there == {s \in Segs : Present(s)}
<1>1. pos <= Scale * data.len /\ pos \in Nat /\ Scale * data.len \in Nat
  BY StateTypes, DataTypes
<1>2. \A s \in Segs : SegEnd(s) \in Nat /\ s.at \in Nat
  BY Layout
<1>3. Behind \subseteq there
  BY <1>1, <1>2 DEF Behind, Present
<1>4. \A s \in there \ Behind : LiteralsIn(s) = 0
  <2>1. ASSUME NEW s \in there \ Behind PROVE LiteralsIn(s) = 0
    <3>1. s \in Segs /\ pos <= s.at /\ Present(s)
      BY DEF Boundary, Behind
    <3>2. SegLiterals(s) = {0}
      BY <3>1
    <3>3. QED
      BY <3>2 DEF LiteralsIn
  <2>2. QED
    BY <2>1
<1>5. IsFiniteSet(there)
  <2>1. there \subseteq Segs
    OBVIOUS
  <2> HIDE DEF there
  <2>2. QED
    BY <2>1, Layout, FS_Subset
<1>6. \A s \in Behind : LiteralsIn(s) \in Nat
  BY DEF Accounted
<1> HIDE DEF there
<1>7. LiteralsOf(there) = LiteralsOf(Behind)
  BY <1>3, <1>4, <1>5, <1>6, NoMore
<1>8. total = LiteralsOf(there)
  BY <1>7 DEF Accounted
<1>9. ASSUME NEW s \in Segs, s.at + 4 * Scale <= Scale * data.len, SegLiterals(s) # {0}
      PROVE  Present(s)
  <2>1. CASE s \in Behind
    BY <2>1, <1>3 DEF there
  <2>2. CASE s \notin Behind
    <3>1. pos <= s.at
      BY <2>2 DEF Boundary, Behind
    <3>2. s.at + 4 * Scale > Scale * data.len
      BY <3>1, <1>9
    <3>3. s.at \in Nat /\ Scale \in {1, 8}
      BY <1>2 DEF Scale
    <3>4. QED
      BY <1>1, <1>9, <3>2, <3>3
  <2>3. QED
    BY <2>1, <2>2
<1>10. QED
  BY <1>8, <1>9 DEF Complete, there

Standing == IInv /\ InStep /\ Boundary /\ Accounted /\ Expected

LEMMA NextThere ==
  ASSUME Standing, Stays \/ \E h : Crosses(h)
  PROVE  (format # "gzip" => (\E t \in Segs : t.at = pos) \/ (\A t \in Segs : SegEnd(t) <= pos))'
<1>1. Segs' = Segs /\ format' = format
  BY DEF Stays, Crosses, Segs
<1>2. CASE Stays
  BY <1>1, <1>2 DEF Stays, Standing, Expected
<1>3. ASSUME NEW h, Crosses(h)
      PROVE  format # "gzip" => (\E t \in Segs : t.at = pos') \/ (\A t \in Segs : SegEnd(t) <= pos')
  BY <1>3, CrossesOne DEF Standing, IInv
<1>4. QED
  BY <1>1, <1>2, <1>3

LEMMA OneNumber == ASSUME NEW s, NEW n, SegLiterals(s) = {n} PROVE LiteralsIn(s) = n
BY DEF LiteralsIn

LEMMA NoLiterals ==
  ASSUME NEW s,
         s.kind \in {"lz4_frame", "zstd_frame", "skippable", "zstd_checksum", "junk", "gzip_header", "gzip_trailer"}
  PROVE  SegLiterals(s) = {0} /\ LiteralsIn(s) = 0
<1>1. SegLiterals(s) = {0}
  BY DEF SegLiterals
<1>2. QED
  BY <1>1, OneNumber

LEMMA SameAt ==
  ASSUME TypeOK, NEW s \in Segs, NEW t \in Segs, s.at = t.at PROVE s = t
<1>1. /\ s.at \in Nat /\ SegEnd(s) \in Nat /\ s.at < SegEnd(s)
      /\ t.at \in Nat /\ SegEnd(t) \in Nat /\ t.at < SegEnd(t)
      /\ s = t \/ SegEnd(s) <= t.at \/ SegEnd(t) <= s.at
  BY Layout
<1>2. QED
  BY <1>1

\* A segment read at the position is crossed.
LEMMA CrossesHere ==
  ASSUME TypeOK, NEW h \in Segs, h.at = pos, UNCHANGED <<format, data>>, pos' = SegEnd(h),
         NEW n \in Nat, LiteralsIn(h) = n, Gathered' = Gathered + n
  PROVE  Crosses(h)
<1>1. pos \in Nat
  BY StateTypes
<1>2. QED
  BY <1>1 DEF Crosses

\* Nothing is ahead of the end of the input.
LEMMA EndReached ==
  ASSUME TypeOK, Boundary, Accounted, Gathered = total, pos >= Scale * data.len
  PROVE  Complete
<1>1. pos \in Nat /\ Scale * data.len \in Nat /\ Scale \in {1, 8}
  BY StateTypes, DataTypes DEF Scale
<1>2. ASSUME NEW s \in Segs, pos <= s.at PROVE ~Present(s) /\ s.at + 4 * Scale > Scale * data.len
  <2>1. s.at \in Nat /\ SegEnd(s) \in Nat /\ s.at < SegEnd(s)
    BY Layout
  <2>2. QED
    BY <1>1, <1>2, <2>1 DEF Present
<1>3. QED
  BY <1>2, AllRead

-----------------------------------------------------------------------------
(* LZ4.                                                                    *)

LEMMA Lz4ContentTypes ==
  ASSUME IInv, Running("lz4")
  PROVE  /\ TypeOK /\ format = "lz4" /\ status = "running" /\ Scale = 1 /\ Scale * data.len = data.len
         /\ pos \in Nat /\ data.len \in Nat /\ total \in Nat
         /\ Gathered = total /\ (format' = format => Gathered' = total')
         /\ phase = "header" => pos = 0
BY StateTypes, DataTypes DEF IInv, Running, Gathered, InOrder

LEMMA Lz4Expected ==
  ASSUME Standing, format = "lz4", Stays \/ \E h : Crosses(h),
         phase' # "header" /\ data.len >= 4 /\ Lz4Framed => pos' > 0
  PROVE  Expected'
<1>1. UNCHANGED <<format, data>>
  BY DEF Stays, Crosses
<1>2. (phase # "header" /\ data.len >= 4 /\ Lz4Framed => pos > 0)'
  BY <1>1 DEF Lz4Framed, SegsAt
<1>3. QED
  BY <1>1, <1>2, NextThere DEF Expected

LEMMA Lz4HeaderContent == ASSUME Standing, Lz4Header PROVE ContentOK
<1>1. Running("lz4") /\ phase = "header" /\ IInv
  BY DEF Lz4Header, Standing
<1>2. CASE Fail
  BY <1>2, ReturnsContent DEF Standing
<1>3. CASE /\ data.len < 4 \/ ~Lz4Framed
           /\ phase' = "blocks" /\ UNCHANGED <<format, data, status, pos, blocks, total, count, pending, start>>
  <2>1. Stays
    BY <1>3 DEF Stays, Gathered
  <2>2. Expected'
    BY <1>1, <1>3, <2>1, Lz4ContentTypes, Lz4Expected
  <2>3. QED
    BY <1>1, <1>3, <2>1, <2>2, Lz4ContentTypes DEF ContentOK
<1>4. ASSUME NEW h \in SegsAt("lz4_frame", 0), pos' = Lz4HeaderEnd(h),
             UNCHANGED <<format, data, status, blocks, total, count, pending, start>>
      PROVE  ContentOK
  <2>1. h \in Segs /\ h.kind = "lz4_frame" /\ h.at = 0 /\ pos = 0
    BY <1>1, Layout, Lz4ContentTypes
  <2>2. pos' = SegEnd(h) /\ pos' \in Nat /\ pos' > 0
    BY <1>4, <2>1 DEF SegEnd, Lz4HeaderEnd, Standing, InStep
  <2>3. LiteralsIn(h) = 0 /\ Gathered' = Gathered + 0
    BY <1>1, <1>4, <2>1, NoLiterals, Lz4ContentTypes
  <2>4. Crosses(h)
    BY <1>1, <1>4, <2>1, <2>2, <2>3, CrossesHere, Lz4ContentTypes
  <2>5. Expected'
    BY <1>1, <2>2, <2>4, Lz4ContentTypes, Lz4Expected
  <2>6. QED
    BY <1>1, <1>4, <2>4, <2>5, Lz4ContentTypes DEF ContentOK
<1>5. QED
  BY <1>2, <1>3, <1>4 DEF Lz4Header

\* In step, a header that is read is the header of a block.
LEMMA Lz4HeaderThere ==
  ASSUME Standing, Running("lz4"), phase = "blocks", pos + 4 <= data.len, NEW h \in Lz4HeadersAt(pos)
  PROVE  h \in Segs /\ h.kind = "lz4_block" /\ h.at = pos /\ SegOK(h)
<1>1. IInv
  BY DEF Standing
<1>2. TypeOK /\ format = "lz4" /\ pos \in Nat /\ data.len \in Nat
  BY <1>1, Lz4ContentTypes
<1>3. PICK s \in Segs : data.len <= SegEnd(s)
  BY <1>2, LongEnough
<1>4. SegEnd(s) \in Nat /\ ~(SegEnd(s) <= pos)
  BY <1>2, <1>3, Layout
<1>5. PICK t \in Segs : t.at = pos
  BY <1>2, <1>4 DEF Standing, Expected
<1>6. t.kind \in {"lz4_frame", "lz4_block"} /\ (t.kind = "lz4_frame" => t.at = 0)
  BY <1>2, Layout DEF KindsOf, LaidOut
<1>7. t.kind # "lz4_frame"
  <2>1. SUFFICES ASSUME t.kind = "lz4_frame" PROVE FALSE
    OBVIOUS
  <2>2. t \in SegsAt("lz4_frame", 0) /\ pos = 0 /\ data.len >= 4
    BY <1>2, <1>5, <1>6, <2>1, Layout
  <2>3. QED
    BY <1>2, <2>2 DEF Standing, Expected, Lz4Framed
<1>8. t \in SegsAt("lz4_block", pos)
  BY <1>2, <1>5, <1>6, <1>7, Layout
<1>9. QED
  BY <1>2, <1>8, Layout DEF Lz4HeadersAt

LEMMA Lz4BlockContent ==
  ASSUME Standing, Running("lz4"), phase = "blocks", pos + 4 <= data.len,
         NEW h \in Lz4HeadersAt(pos), Lz4Block(h)
  PROVE  ContentOK
<1>1. IInv /\ h \in Segs /\ h.kind = "lz4_block" /\ h.at = pos /\ SegOK(h)
  BY Lz4HeaderThere DEF Standing
<1> DEFINE n == IF h.raw THEN h.size ELSE CHOOSE m \in h.lits : TRUE
<1>2. CASE Fail
  BY <1>2, ReturnsContent DEF Standing
<1>3. CASE ~Fail
  <2>1. /\ h.raw \/ h.lits # {}
        /\ total' = total + n /\ pos' = pos + 4 + h.size
        /\ UNCHANGED <<format, data, status, phase, count, pending, start>>
    BY <1>3 DEF Lz4Block
  <2>2. h.size \in Nat /\ h.lits \subseteq Nat
    BY <1>1 DEF SegOK
  <2>3. n \in Nat
    BY <2>1, <2>2, SomeNat
  <2>4. LiteralsIn(h) = n
    <3>1. CASE h.raw
      BY <1>1, <3>1, OneNumber DEF SegLiterals
    <3>2. CASE ~h.raw
      <4>1. SegLiterals(h) = h.lits /\ h.lits # {}
        BY <1>1, <2>1, <3>2 DEF SegLiterals
      <4>2. QED
        BY <3>2, <4>1 DEF LiteralsIn
    <3>3. QED
      BY <3>1, <3>2
  <2> HIDE DEF n
  <2>5. pos' = SegEnd(h) /\ pos' > 0
    BY <1>1, <2>1, <2>2, Lz4ContentTypes DEF SegEnd
  <2>6. Gathered' = Gathered + n
    BY <1>1, <2>1, Lz4ContentTypes
  <2>7. Crosses(h)
    BY <1>1, <2>1, <2>3, <2>4, <2>5, <2>6, CrossesHere, Lz4ContentTypes
  <2>8. Expected'
    BY <1>1, <2>5, <2>7, Lz4ContentTypes, Lz4Expected
  <2>9. QED
    BY <1>1, <2>1, <2>7, <2>8, Lz4ContentTypes DEF ContentOK
<1>4. QED
  BY <1>2, <1>3

LEMMA Lz4BlocksContent == ASSUME Standing, Lz4Blocks PROVE ContentOK
<1>1. Running("lz4") /\ phase = "blocks" /\ IInv /\ Boundary /\ Accounted /\ Expected
  BY DEF Lz4Blocks, Standing
<1>2. /\ TypeOK /\ format = "lz4" /\ Scale = 1 /\ Scale * data.len = data.len
      /\ pos \in Nat /\ data.len \in Nat /\ Gathered = total
  BY <1>1, Lz4ContentTypes
<1>3. CASE Fail
  BY <1>1, <1>3, ReturnsContent
<1>4. CASE pos >= data.len /\ Succeed
  BY <1>1, <1>2, <1>4, EndReached, ReturnsContent
<1>5. CASE pos < data.len /\ pos + 4 > data.len /\ Succeed
  <2>1. ASSUME NEW s \in Segs, pos <= s.at
        PROVE  ~Present(s) /\ s.at + 4 * Scale > Scale * data.len
    <3>1. s.at \in Nat /\ s.kind \in {"lz4_frame", "lz4_block"} /\ SegOK(s)
      BY <1>2, Layout DEF KindsOf
    <3>2. s.at + 4 <= SegEnd(s) /\ SegEnd(s) \in Nat
      BY <3>1 DEF SegEnd, SegOK
    <3>3. QED
      BY <1>2, <1>5, <2>1, <3>1, <3>2 DEF Present
  <2>2. QED
    BY <1>1, <1>2, <1>5, <2>1, AllRead, ReturnsContent
<1>6. ASSUME pos + 4 <= data.len, NEW h \in Lz4HeadersAt(pos), h.size = 0, Succeed
      PROVE  ContentOK
  <2>1. h \in Segs /\ h.kind = "lz4_block" /\ h.at = pos
    BY <1>1, <1>6, Lz4HeaderThere
  <2>2. SegLiterals(h) = {0} /\ \A t \in Segs : t.at <= h.at
    BY <1>2, <1>6, <2>1, Layout DEF LaidOut
  <2>3. ASSUME NEW s \in Segs, pos <= s.at PROVE SegLiterals(s) = {0}
    <3>1. s.at = h.at
      BY <1>2, <2>1, <2>2, <2>3, Layout
    <3>2. QED
      BY <1>2, <2>1, <2>2, <3>1, SameAt
  <2>4. QED
    BY <1>1, <1>2, <1>6, <2>3, AllRead, ReturnsContent
<1>7. ASSUME pos + 4 <= data.len, NEW h \in Lz4HeadersAt(pos), Lz4Block(h)
      PROVE  ContentOK
  BY <1>1, <1>7, Lz4BlockContent
<1>8. QED
  BY <1>3, <1>4, <1>5, <1>6, <1>7 DEF Lz4Blocks

-----------------------------------------------------------------------------
(* Snappy.                                                                 *)

LEMMA SnappyExpected ==
  ASSUME Standing, format = "snappy", Stays \/ \E h : Crosses(h)
  PROVE  Expected'
<1>1. UNCHANGED <<format, data>>
  BY DEF Stays, Crosses
<1>2. QED
  BY <1>1, NextThere DEF Expected

\* What a chunk adds is what it holds.
LEMMA ChunkHolds ==
  ASSUME NEW c, SegOK(c), c.kind = "chunk", ChunkLiterals(c) # {}
  PROVE  LiteralsIn(c) = CHOOSE n \in ChunkLiterals(c) : TRUE
<1>1. /\ c.lits \subseteq Nat /\ \A m, n \in c.lits : m = n
      /\ c.type \in {"identifier", "compressed", "raw", "padding", "reserved"}
  BY DEF SegOK
<1>2. PICK n : n \in ChunkLiterals(c)
  OBVIOUS
<1>3. ChunkLiterals(c) = {n} /\ SegLiterals(c) = {n}
  <2>1. CASE c.type = "compressed"
    <3>1. SegLiterals(c) = c.lits /\ ChunkLiterals(c) \subseteq c.lits
      BY <2>1 DEF SegLiterals, ChunkLiterals
    <3>2. QED
      BY <1>1, <1>2, <3>1
  <2>2. CASE c.type = "raw"
    BY <1>2, <2>2 DEF SegLiterals, ChunkLiterals
  <2>3. CASE c.type \in {"padding", "identifier"}
    BY <1>2, <2>3 DEF SegLiterals, ChunkLiterals
  <2>4. CASE c.type = "reserved"
    BY <1>2, <2>4 DEF ChunkLiterals
  <2>5. QED
    BY <1>1, <2>1, <2>2, <2>3, <2>4
<1>4. LiteralsIn(c) = n
  BY <1>3, OneNumber
<1>5. QED
  BY <1>3, <1>4

LEMMA SnappyStartContent == ASSUME Standing, SnappyStart PROVE ContentOK
<1>1. IInv /\ TypeOK /\ Running("snappy") /\ phase = "header" /\ Expected
  BY DEF SnappyStart, Standing, IInv
<1>2. format = "snappy" /\ status = "running" /\ pos = 0 /\ total \in Nat /\ pending \in Nat
  BY <1>1, SnappyTypes DEF IInv, InOrder
<1>3. CASE Fail
  BY <1>1, <1>3, ReturnsContent
<1>4. CASE ~Fail
  <2>1. UNCHANGED <<format, data, status, blocks, total, count, pending>>
    BY <1>1, <1>4 DEF SnappyStart
  <2>2. Gathered' = Gathered /\ Gathered \in Nat
    BY <1>2, <2>1 DEF Gathered
  <2>3. CASE pos' = 0
    BY <1>2, <2>1, <2>2, <2>3, SnappyExpected DEF ContentOK, Stays
  <2>4. CASE pos' # 0
    <3>1. PICK c \in SegsAt("chunk", 0) : c.type = "identifier" /\ pos' = 10
      BY <1>4, <2>4 DEF SnappyStart
    <3>2. c \in Segs /\ c.kind = "chunk" /\ c.at = 0
      BY <1>1, <3>1, Layout
    <3>3. c.len = 6
      BY <1>1, <1>2, <3>1, <3>2, Layout DEF LaidOut
    <3>4. SegEnd(c) = 10
      BY <3>2, <3>3 DEF SegEnd
    <3>5. LiteralsIn(c) = 0
      <4>1. SegLiterals(c) = {0}
        BY <3>1, <3>2 DEF SegLiterals
      <4>2. QED
        BY <4>1, OneNumber
    <3>6. Gathered' = Gathered + 0
      BY <2>2
    <3>7. Crosses(c)
      BY <1>1, <1>2, <2>1, <3>1, <3>2, <3>4, <3>5, <3>6, CrossesHere
    <3>8. QED
      BY <1>2, <2>1, <3>7, SnappyExpected DEF ContentOK
  <2>5. QED
    BY <2>3, <2>4
<1>5. QED
  BY <1>3, <1>4

LEMMA SnappyChunkContent == ASSUME Standing, SnappyChunk PROVE ContentOK
<1>1. IInv /\ TypeOK /\ Running("snappy") /\ Expected
  BY DEF SnappyChunk, Standing, IInv
<1>2. format = "snappy" /\ status = "running" /\ pos \in Nat /\ total \in Nat /\ pending \in Nat
  BY <1>1, SnappyTypes
<1>3. CASE Fail
  BY <1>1, <1>3, ReturnsContent
<1>4. CASE ~Fail
  <2> DEFINE add(c) == CHOOSE n \in ChunkLiterals(c) : TRUE
  <2>1. PICK c \in SegsAt("chunk", pos) :
           /\ ChunkLiterals(c) # {}
           /\ IF pending + add(c) > FlushAt
              THEN Flush(pending + add(c), pos + 4)
              ELSE pending' = pending + add(c) /\ UNCHANGED <<blocks, total, start>>
           /\ pos' = pos + 4 + c.len /\ UNCHANGED <<format, data, status, phase>>
    BY <1>4 DEF SnappyChunk
  <2>2. c \in Segs /\ c.kind = "chunk" /\ c.at = pos /\ SegOK(c)
    BY <1>1, <2>1, Layout
  <2>3. c.len \in Nat /\ add(c) \in Nat /\ LiteralsIn(c) = add(c)
    BY <2>1, <2>2, ChunkAdds, ChunkHolds DEF SegOK
  <2> DEFINE n == add(c)
  <2>4. n \in Nat /\ LiteralsIn(c) = n
    BY <2>3
  <2>5. Gathered' = Gathered + n
    <3>1. (total' = total + (pending + n) /\ pending' = 0) \/ (total' = total /\ pending' = pending + n)
      BY <2>1 DEF Flush
    <3> HIDE DEF n
    <3>2. QED
      BY <1>2, <2>1, <2>4, <3>1 DEF Gathered
  <2>6. pos' = SegEnd(c)
    BY <1>2, <2>1, <2>2, <2>3 DEF SegEnd
  <2> HIDE DEF n, add
  <2>7. Crosses(c)
    BY <1>1, <2>1, <2>2, <2>4, <2>5, <2>6, CrossesHere
  <2>8. QED
    BY <1>2, <2>1, <2>7, SnappyExpected DEF ContentOK
<1>5. QED
  BY <1>3, <1>4

LEMMA SnappyEndContent == ASSUME Standing, SnappyEnd PROVE ContentOK
<1>1. IInv /\ TypeOK /\ Running("snappy") /\ pos >= data.len /\ Boundary /\ Accounted /\ Expected
  BY DEF SnappyEnd, Standing, IInv
<1>2. /\ format = "snappy" /\ status = "running" /\ Scale * data.len = data.len
      /\ pos \in Nat /\ total \in Nat /\ pending \in Nat
  BY <1>1, SnappyTypes
<1>3. CASE pending > 0 /\ Flush(pending, pos) /\ UNCHANGED <<format, data, status, phase, pos, count>>
  <2>1. Gathered' = Gathered
    BY <1>2, <1>3 DEF Flush, Gathered
  <2>2. Stays
    BY <1>3, <2>1 DEF Stays
  <2>3. QED
    BY <1>2, <1>3, <2>2, SnappyExpected DEF ContentOK
<1>4. CASE Fail
  BY <1>1, <1>4, ReturnsContent
<1>5. CASE ~(pending > 0) /\ Succeed
  <2>1. Gathered = total
    BY <1>2, <1>5 DEF Gathered
  <2>2. QED
    BY <1>1, <1>2, <1>5, <2>1, EndReached, ReturnsContent
<1>6. QED
  BY <1>3, <1>4, <1>5 DEF SnappyEnd

-----------------------------------------------------------------------------
(* gzip.                                                                   *)

LEMMA GzipExpected ==
  ASSUME format' = "gzip",
         phase' = "trailer" => \A t \in Segs' : pos' <= t.at => 8 * CeilDiv(pos', 8) <= t.at
  PROVE  Expected'
BY DEF Expected

LEMMA GzipHeaderContent == ASSUME Standing, GzipHeader PROVE ContentOK
<1>1. IInv /\ TypeOK /\ Running("gzip") /\ Boundary /\ Accounted /\ Expected
  BY DEF GzipHeader, Standing, IInv
<1>2. /\ format = "gzip" /\ status = "running" /\ Scale * data.len = 8 * data.len
      /\ pos \in Nat /\ total \in Nat /\ Gathered = total
  BY <1>1, StateTypes DEF Running, Gathered
<1>3. CASE Fail
  BY <1>1, <1>3, ReturnsContent
<1>4. CASE pos >= 8 * data.len /\ Succeed
  BY <1>1, <1>2, <1>4, EndReached, ReturnsContent
<1>5. ASSUME NEW h \in SegsAt("gzip_header", pos), pos' = pos + 8 * h.bytes, phase' = "blocks",
             UNCHANGED <<format, data, status, blocks, total, count, start>>
      PROVE  ContentOK
  <2>1. h \in Segs /\ h.kind = "gzip_header" /\ h.at = pos
    BY <1>1, Layout
  <2>2. pos' = SegEnd(h) /\ LiteralsIn(h) = 0 /\ Gathered' = Gathered + 0
    BY <1>2, <1>5, <2>1, NoLiterals DEF SegEnd, Gathered
  <2>3. Crosses(h)
    BY <1>1, <1>5, <2>1, <2>2, CrossesHere
  <2>4. Expected'
    BY <1>2, <1>5, GzipExpected
  <2>5. QED
    BY <1>2, <1>5, <2>3, <2>4 DEF ContentOK
<1>6. QED
  BY <1>3, <1>4, <1>5 DEF GzipHeader

LEMMA DeflateContent ==
  ASSUME Standing, Running("gzip"), NEW h \in SegsAt("deflate", pos), Deflate(h) PROVE ContentOK
<1>1. IInv /\ TypeOK /\ Expected
  BY DEF Standing, IInv
<1>2. format = "gzip" /\ status = "running" /\ pos \in Nat /\ total \in Nat /\ Gathered = total
  BY <1>1, StateTypes DEF Running, Gathered
<1>3. CASE Fail
  BY <1>1, <1>3, ReturnsContent
<1>4. CASE ~Fail
  <2> DEFINE n == CHOOSE m \in h.lits : TRUE
  <2>1. /\ h.lits # {} /\ total' = total + n /\ pos' = pos + h.bits
        /\ phase' = (IF h.final THEN "trailer" ELSE "blocks") /\ UNCHANGED <<format, data, status, count, start>>
    BY <1>4 DEF Deflate
  <2>2. h \in Segs /\ h.kind = "deflate" /\ h.at = pos /\ SegOK(h)
    BY <1>1, Layout
  <2>3. n \in Nat
    BY <2>1, <2>2, SomeNat DEF SegOK
  <2>4. LiteralsIn(h) = n
    BY <2>1, <2>2 DEF LiteralsIn, SegLiterals
  <2> HIDE DEF n
  <2>5. pos' = SegEnd(h) /\ Gathered' = Gathered + n
    BY <1>2, <2>1, <2>2 DEF SegEnd, Gathered
  <2>6. Crosses(h)
    BY <1>1, <2>1, <2>2, <2>3, <2>4, <2>5, CrossesHere
  <2>7. ASSUME phase' = "trailer", NEW t \in Segs, pos' <= t.at PROVE 8 * CeilDiv(pos', 8) <= t.at
    <3>1. h.final
      BY <2>1, <2>7
    <3>2. QED
      BY <1>1, <1>2, <2>2, <2>5, <2>7, <3>1, Layout DEF LaidOut
  <2>8. Expected'
    BY <1>2, <2>1, <2>7, GzipExpected DEF Segs
  <2>9. QED
    BY <1>2, <2>1, <2>6, <2>8 DEF ContentOK
<1>5. QED
  BY <1>3, <1>4

LEMMA GzipTrailerContent == ASSUME Standing, GzipTrailer PROVE ContentOK
<1>1. IInv /\ TypeOK /\ Running("gzip") /\ phase = "trailer" /\ Expected
  BY DEF GzipTrailer, Standing, IInv
<1>2. format = "gzip" /\ status = "running" /\ pos \in Nat /\ total \in Nat /\ Gathered = total
  BY <1>1, StateTypes DEF Running, Gathered
<1>3. CASE Fail
  BY <1>1, <1>3, ReturnsContent
<1>4. CASE ~Fail
  <2>1. PICK h \in SegsAt("gzip_trailer", 8 * CeilDiv(pos, 8)) :
           /\ pos' = 8 * (CeilDiv(pos, 8) + 8) /\ phase' = "header"
           /\ UNCHANGED <<format, data, status, blocks, total, pending, start>>
    BY <1>4 DEF GzipTrailer
  <2>2. h \in Segs /\ h.kind = "gzip_trailer" /\ h.at = 8 * CeilDiv(pos, 8)
    BY <1>1, <2>1, Layout
  <2>3. CeilDiv(pos, 8) \in Nat /\ pos <= h.at
    BY <1>2, <2>2, CeilEight
  <2>4. \A t \in Segs : pos <= t.at => h.at <= t.at
    BY <1>1, <1>2, <2>2 DEF Expected
  <2>5. pos' = SegEnd(h) /\ LiteralsIn(h) = 0 /\ Gathered' = Gathered + LiteralsIn(h)
    BY <1>2, <2>1, <2>2, <2>3, NoLiterals DEF SegEnd, Gathered
  <2>6. Crosses(h)
    BY <2>1, <2>2, <2>3, <2>4, <2>5 DEF Crosses
  <2>7. Expected'
    BY <1>2, <2>1, GzipExpected
  <2>8. QED
    BY <1>2, <2>1, <2>6, <2>7 DEF ContentOK
<1>5. QED
  BY <1>3, <1>4

-----------------------------------------------------------------------------
(* Zstd.                                                                   *)

LEMMA ZstdContentTypes ==
  ASSUME Standing, Running("zstd")
  PROVE  /\ IInv /\ TypeOK /\ Boundary /\ Accounted /\ Expected /\ format = "zstd" /\ status = "running"
         /\ Scale = 1 /\ Scale * data.len = data.len
         /\ pos \in Nat /\ data.len \in Nat /\ total \in Nat /\ Gathered = total
BY StateTypes, DataTypes DEF Standing, IInv, Running, Gathered

LEMMA ZstdExpected ==
  ASSUME Standing, format = "zstd", Stays \/ \E h : Crosses(h),
         phase' \in {"header", "magic"} => \A t \in Segs : t.at = pos' => t.kind \in Heads,
         phase' \in {"blocks", "checked_blocks"} => \E f \in Segs : InFrame(f, phase', pos'),
         phase' = "checksum" => \A t \in Segs : t.at = pos' => t.kind = "zstd_checksum"
  PROVE  Expected'
<1>1. UNCHANGED <<format, data>> /\ Segs' = Segs
  BY DEF Stays, Crosses, Segs
<1>2. \A f : InFrame(f, phase', pos') => InFrame(f, phase, pos)'
  BY <1>1 DEF InFrame
<1>3. (phase \in {"blocks", "checked_blocks"} => \E f \in Segs : InFrame(f, phase, pos))'
  BY <1>1, <1>2
<1>4. QED
  BY <1>1, <1>3, NextThere DEF Expected

LEMMA ZstdFrameContent == ASSUME Standing, ZstdFrame PROVE ContentOK
<1>1. Running("zstd") /\ phase = "header"
  BY DEF ZstdFrame
<1>2. CASE Fail
  BY <1>2, ReturnsContent DEF Standing
<1>3. CASE pos >= data.len /\ Succeed
  BY <1>1, <1>3, ZstdContentTypes, EndReached, ReturnsContent
<1>4. CASE phase' = "magic" /\ UNCHANGED <<format, data, status, pos, blocks, total>>
  <2>1. format = "zstd" /\ status = "running" /\ Expected
    BY <1>1, ZstdContentTypes
  <2>2. Stays
    BY <1>4, <2>1 DEF Stays, Gathered
  <2>3. \A t \in Segs : t.at = pos' => t.kind \in Heads
    BY <1>1, <1>4, <2>1 DEF Expected
  <2>4. Expected'
    BY <1>4, <2>1, <2>2, <2>3, ZstdExpected
  <2>5. QED
    BY <1>4, <2>1, <2>2, <2>4 DEF ContentOK
<1>5. QED
  BY <1>2, <1>3, <1>4 DEF ZstdFrame

\* Where no frame begins, no literals are ahead.
LEMMA NoFrameAhead ==
  ASSUME Standing, Running("zstd"), phase = "magic",
         pos + 4 > data.len \/ SegsAt("zstd_frame", pos) \cup SegsAt("skippable", pos) = {}
  PROVE  Complete
<1>1. ASSUME NEW s \in Segs, pos <= s.at
      PROVE  SegLiterals(s) = {0} \/ (~Present(s) /\ s.at + 4 * Scale > Scale * data.len)
  <2>1. s.at \in Nat /\ SegEnd(s) \in Nat /\ s.at < SegEnd(s)
    BY ZstdContentTypes, Layout
  <2>2. PICK t \in Segs : t.at = pos
    BY <1>1, <2>1, ZstdContentTypes DEF Expected
  <2>3. t.kind \in Heads /\ SegOK(t)
    BY <2>2, ZstdContentTypes, Layout DEF Expected
  <2>4. CASE s.at = pos
    <3>1. s = t
      BY <2>2, <2>4, ZstdContentTypes, SameAt
    <3>2. QED
      BY <2>3, <3>1, NoLiterals DEF Heads
  <2>5. CASE s.at # pos
    <3>1. pos < s.at
      BY <1>1, <2>1, <2>5, ZstdContentTypes
    <3>2. t.kind # "junk"
      BY <2>1, <2>2, <3>1, ZstdContentTypes, Layout DEF LaidOut
    <3>3. pos + 4 > data.len
      <4>1. t \in SegsAt("zstd_frame", pos) \cup SegsAt("skippable", pos)
        BY <2>2, <2>3, <3>2, ZstdContentTypes, Layout DEF Heads
      <4>2. QED
        BY <4>1
    <3>4. pos + 4 <= SegEnd(t) /\ SegEnd(t) \in Nat
      BY <2>2, <2>3, <3>2, ZstdContentTypes DEF Heads, SegEnd, SegOK
    <3>5. SegEnd(t) <= s.at
      BY <2>1, <2>2, <3>1, ZstdContentTypes, Layout
    <3>6. QED
      BY <2>1, <3>3, <3>4, <3>5, ZstdContentTypes DEF Present
  <2>6. QED
    BY <2>4, <2>5
<1>2. QED
  BY <1>1, ZstdContentTypes, AllRead

LEMMA ZstdMagicContent == ASSUME Standing, ZstdMagic PROVE ContentOK
<1>1. Running("zstd") /\ phase = "magic"
  BY DEF ZstdMagic
<1>2. format = "zstd" /\ status = "running" /\ TypeOK /\ pos \in Nat /\ data.len \in Nat
  BY <1>1, ZstdContentTypes
<1>3. CASE Fail
  BY <1>3, ReturnsContent DEF Standing
<1>4. CASE pos = data.len /\ Succeed
  BY <1>1, <1>4, ZstdContentTypes, EndReached, ReturnsContent
<1>5. CASE /\ pos + 4 > data.len \/ SegsAt("zstd_frame", pos) \cup SegsAt("skippable", pos) = {}
           /\ Succeed
  BY <1>1, <1>5, ZstdContentTypes, NoFrameAhead, ReturnsContent
<1>6. ASSUME NEW h \in SegsAt("zstd_frame", pos), pos' = pos + h.bytes,
             phase' = (IF h.checksum THEN "checked_blocks" ELSE "blocks"),
             UNCHANGED <<format, data, status, blocks, total, count, pending, start>>
      PROVE  ContentOK
  <2>1. h \in Segs /\ h.kind = "zstd_frame" /\ h.at = pos
    BY <1>2, Layout
  <2>2. pos' = SegEnd(h) /\ LiteralsIn(h) = 0 /\ Gathered' = Gathered + 0
    BY <1>1, <1>2, <1>6, <2>1, NoLiterals, ZstdContentTypes DEF SegEnd, Gathered
  <2>3. Crosses(h)
    BY <1>2, <1>6, <2>1, <2>2, CrossesHere
  <2>4. InFrame(h, phase', pos')
    <3>1. ASSUME NEW t \in Segs, h.at < t.at, t.at < pos' PROVE FALSE
      BY <1>2, <2>1, <2>2, <3>1, Layout
    <3>2. SegEnd(h) <= pos'
      BY <1>2, <2>1, <2>2, Layout
    <3>3. QED
      BY <1>6, <2>1, <3>1, <3>2 DEF InFrame
  <2>5. phase' \in {"blocks", "checked_blocks"}
    BY <1>6
  <2>6. Expected'
    BY <1>2, <2>1, <2>3, <2>4, <2>5, ZstdExpected
  <2>7. QED
    BY <1>2, <1>6, <2>3, <2>6 DEF ContentOK
<1>7. ASSUME NEW h \in SegsAt("skippable", pos), pos' = pos + 8 + h.size,
             UNCHANGED <<format, data, status, phase, blocks, total, count, start>>
      PROVE  ContentOK
  <2>1. h \in Segs /\ h.kind = "skippable" /\ h.at = pos /\ SegOK(h)
    BY <1>2, Layout
  <2>2. pos' = SegEnd(h) /\ LiteralsIn(h) = 0 /\ Gathered' = Gathered + 0
    BY <1>1, <1>2, <1>7, <2>1, NoLiterals, ZstdContentTypes DEF SegEnd, SegOK, Gathered
  <2>3. Crosses(h)
    BY <1>2, <1>7, <2>1, <2>2, CrossesHere
  <2>4. \A t \in Segs : t.at = pos' => t.kind \in Heads
    BY <1>2, <2>1, <2>2, Layout DEF LaidOut
  <2>5. Expected'
    BY <1>1, <1>2, <1>7, <2>3, <2>4, ZstdExpected
  <2>6. QED
    BY <1>2, <1>7, <2>3, <2>5 DEF ContentOK
<1>8. QED
  BY <1>3, <1>4, <1>5, <1>6, <1>7 DEF ZstdMagic

LEMMA ZstdBlockHolds ==
  ASSUME NEW h, SegOK(h), h.kind = "zstd_block", BlockLiterals(h) # {}
  PROVE  /\ (CHOOSE n \in BlockLiterals(h) : TRUE) \in Nat
         /\ LiteralsIn(h) = CHOOSE n \in BlockLiterals(h) : TRUE
<1>1. h.size \in Nat /\ h.lits \subseteq Nat /\ h.type \in {"raw", "rle", "compressed", "reserved"}
  BY DEF SegOK
<1>2. BlockLiterals(h) = SegLiterals(h) /\ BlockLiterals(h) \subseteq Nat
  BY <1>1 DEF BlockLiterals, SegLiterals
<1>3. QED
  BY <1>2, SomeNat DEF LiteralsIn

LEMMA ZstdBlockContent ==
  ASSUME Standing, Running("zstd"), phase \in {"blocks", "checked_blocks"},
         NEW h \in SegsAt("zstd_block", pos), ZstdBlock(h)
  PROVE  ContentOK
<1>1. format = "zstd" /\ status = "running" /\ TypeOK /\ pos \in Nat /\ total \in Nat
  BY ZstdContentTypes
<1>2. h \in Segs /\ h.kind = "zstd_block" /\ h.at = pos /\ SegOK(h)
  BY <1>1, Layout
<1>3. CASE Fail
  BY <1>3, ReturnsContent DEF Standing
<1>4. CASE ~Fail
  <2> DEFINE n == CHOOSE m \in BlockLiterals(h) : TRUE
  <2>1. /\ BlockLiterals(h) # {} /\ total' = total + n /\ pos' = pos + 3 + StreamSize(h)
        /\ phase' = IF ~h.last THEN phase
                    ELSE IF phase = "checked_blocks" THEN "checksum" ELSE "header"
        /\ UNCHANGED <<format, data, status, count, pending, start>>
    BY <1>4 DEF ZstdBlock
  <2>2. n \in Nat /\ LiteralsIn(h) = n
    BY <1>2, <2>1, ZstdBlockHolds
  <2> HIDE DEF n
  <2>3. pos' = SegEnd(h)
    BY <1>1, <1>2, <2>1 DEF SegEnd, StreamSize, SegOK
  <2>4. Gathered' = Gathered + n
    BY <1>1, <2>1 DEF Gathered
  <2>5. Crosses(h)
    BY <1>1, <1>2, <2>1, <2>2, <2>3, <2>4, CrossesHere
  <2>6. PICK f \in Segs : InFrame(f, phase, pos)
    BY <1>1 DEF Standing, Expected
  <2>7. h.at < SegEnd(h) /\ SegEnd(h) \in Nat /\ f.at < SegEnd(f) /\ SegEnd(f) <= pos /\ f.at \in Nat /\ SegEnd(f) \in Nat
    BY <1>1, <1>2, <2>6, Layout DEF InFrame
  <2>8. CASE ~h.last
    <3>1. ASSUME NEW t \in Segs, f.at < t.at, t.at < pos' PROVE t.kind = "zstd_block" /\ ~t.last
      <4>1. CASE t.at < pos
        BY <2>6, <3>1, <4>1 DEF InFrame
      <4>2. CASE ~(t.at < pos)
        <5>1. t = h
          BY <1>1, <1>2, <2>3, <2>7, <3>1, <4>2, Layout
        <5>2. QED
          BY <1>2, <2>8, <5>1
      <4>3. QED
        BY <4>1, <4>2
    <3>2. SegEnd(f) <= pos'
      BY <1>1, <1>2, <2>3, <2>7
    <3>3. InFrame(f, phase', pos')
      BY <2>1, <2>6, <2>8, <3>1, <3>2 DEF InFrame
    <3>4. Expected'
      BY <1>1, <2>1, <2>5, <2>8, <3>3, ZstdExpected
    <3>5. QED
      BY <1>1, <2>1, <2>5, <3>4 DEF ContentOK
  <2>9. CASE h.last
    <3>1. ClosesFrame(Segs, f, h)
      BY <1>1, <1>2, <2>6, <2>7, <2>9 DEF ClosesFrame, InFrame
    <3>2. \A t \in Segs : t.at = pos' => t.kind \in (IF f.checksum THEN {"zstd_checksum"} ELSE Heads)
      BY <1>1, <1>2, <2>3, <3>1, Layout DEF LaidOut
    <3>3. /\ phase' = "checksum" => \A t \in Segs : t.at = pos' => t.kind = "zstd_checksum"
          /\ phase' \in {"header", "magic"} => \A t \in Segs : t.at = pos' => t.kind \in Heads
          /\ phase' \notin {"blocks", "checked_blocks"}
      BY <2>1, <2>6, <2>9, <3>2 DEF InFrame
    <3>4. Expected'
      BY <1>1, <2>5, <3>3, ZstdExpected
    <3>5. QED
      BY <1>1, <2>1, <2>5, <3>4 DEF ContentOK
  <2>10. QED
    BY <2>8, <2>9
<1>5. QED
  BY <1>3, <1>4

LEMMA ZstdChecksumContent == ASSUME Standing, ZstdChecksum PROVE ContentOK
<1>1. Running("zstd") /\ phase = "checksum"
  BY DEF ZstdChecksum
<1>2. format = "zstd" /\ status = "running" /\ TypeOK /\ Expected /\ pos \in Nat /\ data.len \in Nat
  BY <1>1, ZstdContentTypes
<1>3. CASE Fail
  BY <1>2, <1>3, ReturnsContent
<1>4. CASE ~Fail
  <2>1. /\ ~(pos + 4 > data.len) /\ pos' = pos + 4 /\ phase' = "header"
        /\ UNCHANGED <<format, data, status, blocks, total, count, pending, start>>
    BY <1>4 DEF ZstdChecksum
  <2>2. PICK s \in Segs : data.len <= SegEnd(s)
    BY <1>2, <2>1, LongEnough
  <2>3. SegEnd(s) \in Nat /\ ~(SegEnd(s) <= pos)
    BY <1>2, <2>1, <2>2, Layout
  <2>4. PICK h \in Segs : h.at = pos
    BY <1>2, <2>3 DEF Expected
  <2>5. h.kind = "zstd_checksum"
    BY <1>1, <1>2, <2>4 DEF Expected
  <2>6. pos' = SegEnd(h) /\ LiteralsIn(h) = 0 /\ Gathered' = Gathered + 0
    BY <1>1, <1>2, <2>1, <2>4, <2>5, NoLiterals, ZstdContentTypes DEF SegEnd, Gathered
  <2>7. Crosses(h)
    BY <1>2, <2>1, <2>4, <2>6, CrossesHere
  <2>8. \A t \in Segs : t.at = pos' => t.kind \in Heads
    BY <1>2, <2>4, <2>5, <2>6, Layout DEF LaidOut
  <2>9. Expected'
    BY <1>2, <2>1, <2>7, <2>8, ZstdExpected
  <2>10. QED
    BY <1>2, <2>1, <2>7, <2>9 DEF ContentOK
<1>5. QED
  BY <1>3, <1>4

LEMMA ZstdBlocksContent == ASSUME Standing, ZstdBlocks PROVE ContentOK
<1>1. Running("zstd") /\ phase \in {"blocks", "checked_blocks"} /\ Expected
  BY DEF ZstdBlocks, Standing
<1>2. CASE Fail
  BY <1>1, <1>2, ReturnsContent
<1>3. ASSUME NEW h \in SegsAt("zstd_block", pos), ZstdBlock(h) PROVE ContentOK
  BY <1>1, <1>3, ZstdBlockContent
<1>4. QED
  BY <1>2, <1>3 DEF ZstdBlocks

-----------------------------------------------------------------------------
(* The call as a whole.                                                    *)

LEMMA NextContent == ASSUME Standing, Next PROVE ContentOK
<1>1. CASE Lz4Next
  BY <1>1, Lz4HeaderContent, Lz4BlocksContent DEF Lz4Next
<1>2. CASE SnappyNext
  BY <1>2, SnappyStartContent, SnappyChunkContent, SnappyEndContent DEF SnappyNext
<1>3. CASE ZstdNext
  BY <1>3, ZstdFrameContent, ZstdMagicContent, ZstdBlocksContent, ZstdChecksumContent DEF ZstdNext
<1>4. CASE GzipNext
  <2>1. ASSUME GzipDeflate PROVE ContentOK
    <3>1. CASE Fail
      BY <3>1, ReturnsContent DEF Standing
    <3>2. Running("gzip") /\ (Fail \/ \E h \in SegsAt("deflate", pos) : Deflate(h))
      BY <2>1 DEF GzipDeflate
    <3>3. QED
      BY <3>1, <3>2, DeflateContent
  <2>2. QED
    BY <1>4, <2>1, GzipHeaderContent, GzipTrailerContent DEF GzipNext
<1>5. QED
  BY <1>1, <1>2, <1>3, <1>4 DEF Next

LEMMA InitContent == Init => Content /\ NothingLost
<1> SUFFICES ASSUME Init PROVE Content /\ NothingLost
  OBVIOUS
<1>1. TypeOK
  BY InitIInv DEF IInv
<1>2. pos = 0 /\ phase = "header" /\ status = "running" /\ total = 0 /\ pending = 0
  BY DEF Init
<1>3. \A s \in Segs : s.at \in Nat /\ SegEnd(s) \in Nat /\ s.at < SegEnd(s)
  BY <1>1, Layout
<1>4. Behind = {} /\ Boundary
  BY <1>2, <1>3 DEF Behind, Boundary
<1>5. LiteralsOf({}) = 0
  BY NoSegments
<1>6. Accounted
  BY <1>2, <1>4, <1>5 DEF Accounted, Gathered
<1>7. Expected
  BY <1>1, <1>2, Layout DEF Expected, Gapless, LaidOut
<1>8. QED
  BY <1>2, <1>4, <1>6, <1>7 DEF Content, NothingLost

LEMMA StepContent == IInv /\ Content /\ NothingLost /\ [Next]_vars => Content' /\ NothingLost'
<1> SUFFICES ASSUME IInv, Content, NothingLost, [Next]_vars PROVE Content' /\ NothingLost'
  OBVIOUS
<1>1. CASE UNCHANGED vars
  <2>1. UNCHANGED <<InStep, Boundary, Accounted, Expected, NothingLost>>
    BY <1>1 DEF vars, InStep, Boundary, Accounted, Expected, InFrame, NothingLost, Segs, Behind, Gathered,
                Lz4Framed, SegsAt, Delivered, Present, Scale
  <2>2. QED
    BY <2>1 DEF Content
<1>2. CASE Next
  <2>1. UNCHANGED <<format, data>> /\ Segs' = Segs /\ InStep' = InStep
    BY <1>2, NextOK DEF StepOK, Returns, Passes, Adds, Walks, Segs, InStep
  <2>2. CASE ~InStep
    BY <2>1, <2>2 DEF Content, NothingLost
  <2>3. CASE InStep
    <3>1. Standing
      BY <2>3 DEF Standing, Content
    <3>2. ContentOK /\ TypeOK /\ Boundary /\ Accounted
      BY <1>2, <3>1, NextContent DEF Standing, IInv
    <3>3. Boundary' /\ Accounted' /\ Expected'
      BY <3>2, CrossesKeeps, StaysKeeps DEF ContentOK
    <3>4. ASSUME status' = "ok" PROVE NothingLost'
      <4>1. Complete /\ UNCHANGED blocks
        BY <3>2, <3>4 DEF ContentOK
      <4>2. Delivered' = Delivered /\ Delivered = total
        BY <4>1 DEF Delivered, IInv, LimitsHeld
      <4>3. Scale' = Scale /\ \A s : Present(s)' = Present(s)
        BY <2>1 DEF Scale, Present
      <4>4. QED
        BY <2>1, <4>1, <4>2, <4>3 DEF Complete, NothingLost
    <3>5. QED
      BY <3>3, <3>4 DEF Content, NothingLost
  <2>4. QED
    BY <2>2, <2>3
<1>3. QED
  BY <1>1, <1>2

\* A result holds the literals of every segment of the input that is there,
\* each of them once; no format, no limit and no cut makes one vanish or count
\* twice, and none is torn off where the headers say there is more.
THEOREM NothingLostCorrect == Spec => []NothingLost
<1>1. Init => IInv /\ Content /\ NothingLost
  BY InitIInv, InitContent
<1>2. IInv /\ Content /\ NothingLost /\ [Next]_vars => (IInv /\ Content /\ NothingLost)'
  BY StepIInv, StepContent
<1>3. QED
  BY <1>1, <1>2, PTL DEF Spec

-----------------------------------------------------------------------------
(* The extents of Zstd blocks.                                             *)

Within(b) == {s \in Segs : b.offset * Scale <= s.at /\ SegEnd(s) <= (b.offset + b.len) * Scale}

LEMMA ZstdBlockExact ==
  ASSUME IInv, Running("zstd"), NEW h \in SegsAt("zstd_block", pos), ZstdBlock(h), ~Fail
  PROVE  \E b \in BlockType : blocks' = Append(blocks, b) /\ b.literals = LiteralsOf(Within(b))
<1> DEFINE n == CHOOSE m \in BlockLiterals(h) : TRUE
           b == Block(pos, StreamSize(h) + 3, (total + n) - total, {h.size})
<1>1. format = "zstd" /\ TypeOK /\ Scale = 1 /\ pos \in Nat /\ total \in Nat /\ data.len \in Nat
  BY StateTypes, DataTypes DEF IInv, Running
<1>2. h \in Segs /\ h.kind = "zstd_block" /\ h.at = pos /\ SegOK(h)
  BY <1>1, Layout
<1>3. ~(pos + 3 + StreamSize(h) > data.len) /\ BlockLiterals(h) # {} /\ blocks' = Append(blocks, b)
  BY DEF ZstdBlock
<1>4. n \in Nat /\ LiteralsIn(h) = n
  BY <1>2, <1>3, ZstdBlockHolds
<1>5. StreamSize(h) \in Nat /\ h.size \in Nat /\ SegEnd(h) = pos + 3 + StreamSize(h)
  BY <1>2 DEF StreamSize, SegEnd, SegOK
<1>6. /\ b.offset = pos /\ b.len = StreamSize(h) + 3 /\ b.literals = n /\ b.uncompressed = {h.size}
      /\ b \in BlockType
  <2> HIDE DEF n
  <2>1. (total + n) - total = n
    BY <1>1, <1>4
  <2>2. b = [offset |-> pos, len |-> StreamSize(h) + 3, literals |-> n, uncompressed |-> {h.size}]
    BY <2>1 DEF Block
  <2>3. pos \in 0..data.len /\ StreamSize(h) + 3 \in 0..data.len
    BY <1>1, <1>3, <1>5
  <2> HIDE DEF b
  <2>4. QED
    BY <1>4, <1>5, <2>2, <2>3 DEF BlockType
<1> HIDE DEF b, n
<1>7. Within(b) = {h}
  <2>1. b.offset * Scale = pos /\ (b.offset + b.len) * Scale = SegEnd(h)
    BY <1>1, <1>5, <1>6
  <2>2. ASSUME NEW s \in Segs, pos <= s.at, SegEnd(s) <= SegEnd(h) PROVE s = h
    BY <1>1, <1>2, <2>2, Layout
  <2>3. SegEnd(h) <= SegEnd(h) /\ pos <= h.at
    BY <1>1, <1>2, <1>5
  <2>4. QED
    BY <1>2, <2>1, <2>2, <2>3 DEF Within
<1>8. LiteralsOf({h}) = LiteralsIn(h)
  BY <1>4, OnlyOne
<1>9. QED
  BY <1>3, <1>4, <1>6, <1>7, <1>8

LEMMA StepExact == IInv /\ ZstdExtentsExact /\ [Next]_vars => ZstdExtentsExact'
<1> SUFFICES ASSUME IInv, ZstdExtentsExact, [Next]_vars, format' = "zstd" PROVE ExtentsExact'
  BY DEF ZstdExtentsExact
<1> DEFINE exact(b) == b.literals = LiteralsOf(Within(b))
<1>1. ExtentsExact <=> \A i \in DOMAIN blocks : exact(blocks[i])
  BY DEF ExtentsExact, Within
<1>2. UNCHANGED <<format, data>>
  BY NextOK DEF StepOK, Returns, Passes, Adds, Walks, vars
<1>3. format = "zstd" /\ \A b : Within(b)' = Within(b)
  BY <1>2 DEF Within, Segs, Scale
<1>4. \A i \in DOMAIN blocks : exact(blocks[i])
  BY <1>1, <1>3 DEF ZstdExtentsExact
<1>5. \A i \in DOMAIN blocks' : exact(blocks'[i])
  <2>1. CASE UNCHANGED blocks
    BY <1>4, <2>1
  <2>2. ASSUME NEW b \in BlockType, blocks' = Append(blocks, b), exact(b)
        PROVE  \A i \in DOMAIN blocks' : exact(blocks'[i])
    <3>1. blocks \in Seq(BlockType)
      BY StateTypes DEF IInv
    <3>2. /\ DOMAIN blocks = 1..Len(blocks) /\ DOMAIN blocks' = 1..(Len(blocks) + 1) /\ Len(blocks) \in Nat
          /\ blocks'[Len(blocks) + 1] = b /\ \A i \in 1..Len(blocks) : blocks'[i] = blocks[i]
      BY <2>2, <3>1
    <3> HIDE DEF exact
    <3>3. QED
      BY <1>4, <2>2, <3>2
  <2>3. UNCHANGED blocks \/ \E h \in SegsAt("zstd_block", pos) : Running("zstd") /\ ZstdBlock(h) /\ ~Fail
    <3>1. CASE UNCHANGED vars
      BY <3>1 DEF vars
    <3>2. CASE Next
      <4>1. ZstdNext
        BY <1>3, <3>2 DEF Next, Lz4Next, Lz4Header, Lz4Blocks, SnappyNext, SnappyStart, SnappyChunk, SnappyEnd,
                          GzipNext, GzipHeader, GzipDeflate, GzipTrailer, Running
      <4>2. (Fail \/ Succeed) => UNCHANGED blocks
        BY DEF Fail, Succeed
      <4>3. ZstdFrame \/ ZstdMagic \/ ZstdChecksum => UNCHANGED blocks
        BY <4>2 DEF ZstdFrame, ZstdMagic, ZstdChecksum
      <4>4. QED
        BY <4>1, <4>2, <4>3 DEF ZstdNext, ZstdBlocks
    <3>3. QED
      BY <3>1, <3>2
  <2>4. QED
    BY <2>1, <2>2, <2>3, ZstdBlockExact
<1>6. ExtentsExact' <=> \A i \in DOMAIN blocks' : blocks'[i].literals = LiteralsOf(Within(blocks'[i]))
  BY <1>2 DEF ExtentsExact, Within, Segs, Scale
<1>7. QED
  BY <1>5, <1>6

\* The extent a Zstd block reports holds the block it was made of, and nothing
\* else that has literals.
THEOREM ZstdExtentsExactCorrect == Spec => []ZstdExtentsExact
<1>1. Init => IInv /\ ZstdExtentsExact
  <2>1. Init => DOMAIN blocks = {}
    BY DEF Init
  <2>2. QED
    BY <2>1, InitIInv DEF ZstdExtentsExact, ExtentsExact
<1>2. IInv /\ ZstdExtentsExact /\ [Next]_vars => (IInv /\ ZstdExtentsExact)'
  BY StepIInv, StepExact
<1>3. QED
  BY <1>1, <1>2, PTL DEF Spec

-----------------------------------------------------------------------------
(* Nothing valid is refused.                                               *)

Good == Whole /\ WithinLimits

BlockKinds == {"lz4_block", "zstd_block", "deflate"}
Of(K) == {s \in Segs : s.kind \in K}
Past(K) == {s \in Behind : s.kind \in K}

\* What is counted against a limit is behind the position.
Tally ==
    /\ format # "snappy" => Len(blocks) <= Cardinality(Past(BlockKinds))
    /\ format = "snappy" => count <= Cardinality(Past({"chunk"}))
    /\ format = "zstd" => count <= Cardinality(Past({"zstd_frame"})) + (IF phase = "magic" THEN 1 ELSE 0)
    /\ format = "gzip" => count <= Cardinality(Past({"gzip_trailer"}))

\* n skippable frames end here.
SkipsBefore(n) ==
    n = 0 \/ \E j \in DOMAIN data.segs :
                /\ SegEnd(data.segs[j]) = pos /\ n <= j
                /\ \A i \in (j - n + 1)..j : data.segs[i].kind = "skippable"

\* What the parser asks for next is there.
Ready ==
    /\ format = "zstd" /\ phase \in {"blocks", "checked_blocks"} => \E t \in Segs : t.kind = "zstd_block" /\ t.at = pos
    /\ format = "zstd" /\ phase = "checksum" => \E t \in Segs : t.at = pos
    /\ format = "zstd" /\ phase = "magic" => SkipsBefore(pending)
    /\ format = "gzip" /\ phase = "header" =>
          /\ pos = 8 * CeilDiv(pos, 8)
          /\ (\E t \in Segs : t.kind = "gzip_header" /\ t.at = pos) \/ (\A t \in Segs : SegEnd(t) <= pos)
    /\ format = "gzip" /\ phase = "blocks" => \E t \in Segs : t.kind = "deflate" /\ t.at = pos
    /\ format = "gzip" /\ phase = "trailer" =>
          \E t \in Segs : t.kind = "gzip_trailer" /\ t.at = 8 * CeilDiv(pos, 8)

Valid == Good => status # "error" /\ Tally /\ Ready

ValidOK == status' # "error" /\ Tally' /\ Ready'

-----------------------------------------------------------------------------
(* What a good input has.                                                  *)

LEMMA GoodLimits ==
  ASSUME TypeOK, Good
  PROVE  /\ data.len > 0 /\ data.closed /\ InStep /\ WithinTotal(LiteralsOf(Segs))
         /\ format # "gzip" => WithinRatio(LiteralsOf(Segs))
         /\ Cardinality(Of(BlockKinds)) < MaxBlocks[format]
         /\ Cardinality(Of({"chunk"})) < MaxChunks
         /\ Cardinality(Of({"zstd_frame"})) < MaxFrames
         /\ Cardinality(Of({"gzip_trailer"})) < MaxMembers
         /\ \A s \in Segs : /\ s.kind \in {"lz4_block", "zstd_block"} => s.size <= MaxBlockSize[format]
                            /\ s.kind = "chunk" => s.len <= MaxBlockSize[format]
                            /\ s.kind = "deflate" => LiteralsOf({s}) <= MaxBlockSize[format]
                            /\ s.kind = "gzip_trailer" => WithinTotal(s.size)
         /\ \A i \in DOMAIN data.segs :
               \E k \in 0..(MaxSkips - 1) : ~(i + k \in DOMAIN data.segs /\ data.segs[i + k].kind = "skippable")
<1>1. Of(BlockKinds) = {s \in Segs : s.kind = "lz4_block"} \cup {s \in Segs : s.kind = "zstd_block"}
                          \cup {s \in Segs : s.kind = "deflate"}
  BY DEF Of, BlockKinds
<1>2. \A k : Of({k}) = {s \in Segs : s.kind = k}
  BY DEF Of
<1>3. data.len > 0 /\ data.closed /\ InStep
  BY DEF Good, Whole
<1>4. WithinLimits
  BY DEF Good
<1>5. Of({"chunk"}) = {s \in Segs : s.kind = "chunk"} /\ Of({"zstd_frame"}) = {s \in Segs : s.kind = "zstd_frame"}
      /\ Of({"gzip_trailer"}) = {s \in Segs : s.kind = "gzip_trailer"}
  BY <1>2
<1> HIDE DEF Of, BlockKinds
<1>6. /\ WithinTotal(LiteralsOf(Segs))
      /\ format # "gzip" => WithinRatio(LiteralsOf(Segs))
      /\ Cardinality(Of(BlockKinds)) < MaxBlocks[format]
      /\ Cardinality(Of({"chunk"})) < MaxChunks
      /\ Cardinality(Of({"zstd_frame"})) < MaxFrames
      /\ Cardinality(Of({"gzip_trailer"})) < MaxMembers
  BY <1>1, <1>4, <1>5 DEF WithinLimits
<1>7. \A s \in Segs : /\ s.kind \in {"lz4_block", "zstd_block"} => s.size <= MaxBlockSize[format]
                      /\ s.kind = "chunk" => s.len <= MaxBlockSize[format]
                      /\ s.kind = "deflate" => LiteralsOf({s}) <= MaxBlockSize[format]
                      /\ s.kind = "gzip_trailer" => WithinTotal(s.size)
  BY <1>4 DEF WithinLimits
<1>8. \A i \in DOMAIN data.segs :
         \E k \in 0..(MaxSkips - 1) : ~(i + k \in DOMAIN data.segs /\ data.segs[i + k].kind = "skippable")
  BY <1>4 DEF WithinLimits
<1>9. QED
  BY <1>3, <1>6, <1>7, <1>8

LEMMA GoodSegs ==
  ASSUME TypeOK, Good, NEW s \in Segs
  PROVE  /\ SegSound(s) /\ SegEnd(s) <= Scale * data.len /\ SegLiterals(s) # {}
         /\ LiteralsIn(s) \in SegLiterals(s) /\ LiteralsIn(s) \in Nat
<1>1. SegSound(s) /\ SegEnd(s) <= Scale * data.len /\ SegLiterals(s) # {}
  BY DEF Good, Whole, Present, SegSound
<1>2. SegOK(s) /\ s.kind \in KindsOf(format) /\ format \in Formats
  BY Layout, StateTypes
<1>3. LiteralsIn(s) \in SegLiterals(s)
  BY <1>1 DEF LiteralsIn
<1>4. SegLiterals(s) \subseteq Nat
  <2>1. CASE s.kind \in {"lz4_block", "zstd_block", "deflate"}
    BY <1>2, <2>1 DEF SegOK, SegLiterals
  <2>2. CASE s.kind = "chunk"
    <3>1. s.len \in Nat /\ s.lits \subseteq Nat /\ (s.type = "raw" => s.len > 4)
      BY <1>1, <1>2, <2>2 DEF SegOK, SegSound
    <3>2. s.type = "raw" => s.len - 4 \in Nat
      BY <3>1
    <3>3. QED
      BY <2>2, <3>1, <3>2 DEF SegLiterals
  <2>3. CASE s.kind \notin {"lz4_block", "zstd_block", "deflate", "chunk"}
    BY <2>3 DEF SegLiterals
  <2>4. QED
    BY <2>1, <2>2, <2>3
<1>5. QED
  BY <1>1, <1>3, <1>4

LEMMA LiteralsGrow ==
  ASSUME NEW S, NEW T, IsFiniteSet(T), S \subseteq T, \A s \in T : LiteralsIn(s) \in Nat
  PROVE  LiteralsOf(S) \in Nat /\ LiteralsOf(T) \in Nat /\ LiteralsOf(S) <= LiteralsOf(T)
<1> DEFINE f == [s \in T |-> LiteralsIn(s)]
           g == [s \in S |-> LiteralsIn(s)]
<1>1. (\A s \in T : f[s] \in Nat) /\ \A s \in S : f[s] = g[s]
  OBVIOUS
<1>2. LiteralsOf(T) = SumFunctionOnSet(f, T) /\ LiteralsOf(S) = SumFunctionOnSet(g, S)
  BY DEF LiteralsOf, SumFunction
<1>3. IsFiniteSet(S)
  BY FS_Subset
<1> HIDE DEF f, g
<1>4. SumFunctionOnSet(f, S) = SumFunctionOnSet(g, S)
  BY <1>1, <1>3, SumSame
<1>5. QED
  BY <1>1, <1>2, <1>4, SumGrows

\* There is room for what is gathered, and for the next segment.
LEMMA Room ==
  ASSUME Standing, Good, NEW n \in Nat,
         n <= Gathered \/ \E h \in Segs : pos <= h.at /\ n <= Gathered + LiteralsIn(h)
  PROVE  WithinTotal(n) /\ (format # "gzip" => WithinRatio(n))
<1>1. TypeOK /\ Gathered = LiteralsOf(Behind) /\ IsFiniteSet(Behind) /\ IsFiniteSet(Segs) /\ Behind \subseteq Segs
  BY BehindFinite, Layout DEF Standing, IInv, Accounted, Behind
<1>2. \A s \in Segs : LiteralsIn(s) \in Nat
  BY <1>1, GoodSegs
<1>3. Gathered \in Nat /\ LiteralsOf(Segs) \in Nat /\ Gathered <= LiteralsOf(Segs)
  BY <1>1, <1>2, LiteralsGrow
<1>4. ASSUME NEW h \in Segs, pos <= h.at PROVE Gathered + LiteralsIn(h) <= LiteralsOf(Segs)
  <2>1. h \notin Behind
    BY <1>1, <1>4, Layout, StateTypes DEF Behind
  <2>2. LiteralsOf(Behind \cup {h}) = LiteralsOf(Behind) + LiteralsIn(h)
    BY <1>1, <1>2, <2>1, OneMore
  <2>3. Behind \cup {h} \subseteq Segs
    BY <1>1
  <2>4. LiteralsOf(Behind \cup {h}) <= LiteralsOf(Segs)
    BY <1>1, <1>2, <2>3, LiteralsGrow
  <2>5. QED
    BY <1>1, <2>2, <2>4
<1>5. n <= LiteralsOf(Segs)
  BY <1>2, <1>3, <1>4
<1>6. WithinTotal(LiteralsOf(Segs)) /\ (format # "gzip" => WithinRatio(LiteralsOf(Segs)))
  BY <1>1, GoodLimits
<1>7. data.len * MaxRatio \in Nat
  BY <1>1, DataTypes, LimitTypes
<1>8. QED
  BY <1>3, <1>5, <1>6, <1>7, LimitTypes DEF WithinTotal, WithinRatio, LargestOf

LEMMA PastTypes ==
  ASSUME TypeOK, NEW K
  PROVE  /\ IsFiniteSet(Past(K)) /\ IsFiniteSet(Of(K)) /\ Cardinality(Past(K)) \in Nat /\ Cardinality(Of(K)) \in Nat
         /\ Cardinality(Past(K)) <= Cardinality(Of(K))
<1>1. Past(K) \subseteq Of(K) /\ Of(K) \subseteq Segs
  BY DEF Past, Of, Behind
<1>2. IsFiniteSet(Of(K))
  BY <1>1, Layout, FS_Subset
<1>3. IsFiniteSet(Past(K)) /\ Cardinality(Past(K)) <= Cardinality(Of(K))
  BY <1>1, <1>2, FS_Subset
<1>4. QED
  BY <1>2, <1>3, FS_CardinalityType

\* One that is ahead is not among those behind.
LEMMA OneAhead ==
  ASSUME TypeOK, NEW K, NEW h \in Segs, pos <= h.at, h.kind \in K
  PROVE  Cardinality(Past(K)) + 1 <= Cardinality(Of(K))
<1>1. h \notin Past(K)
  BY Layout, StateTypes DEF Past, Behind
<1>2. Past(K) \cup {h} \subseteq Of(K)
  BY DEF Past, Of, Behind
<1>3. Cardinality(Past(K) \cup {h}) = Cardinality(Past(K)) + 1
  BY <1>1, PastTypes, FS_AddElement
<1>4. Cardinality(Past(K) \cup {h}) <= Cardinality(Of(K))
  BY <1>2, PastTypes, FS_Subset
<1>5. QED
  BY <1>3, <1>4

LEMMA PastGrows ==
  ASSUME TypeOK, Boundary, NEW h, Crosses(h), NEW K
  PROVE  Cardinality(Past(K)') = Cardinality(Past(K)) + (IF h.kind \in K THEN 1 ELSE 0)
<1>1. Behind' = Behind \cup {h} /\ h \notin Behind
  BY CrossesOne
<1>2. CASE h.kind \in K
  <2>1. Past(K)' = Past(K) \cup {h} /\ h \notin Past(K)
    BY <1>1, <1>2 DEF Past
  <2>2. QED
    BY <1>2, <2>1, PastTypes, FS_AddElement
<1>3. CASE h.kind \notin K
  <2>1. Past(K)' = Past(K)
    BY <1>1, <1>3 DEF Past
  <2>2. QED
    BY <1>3, <2>1, PastTypes
<1>4. QED
  BY <1>2, <1>3

LEMMA PastStays == ASSUME Stays, NEW K PROVE Past(K)' = Past(K)
BY DEF Stays, Past, Behind, Segs

\* The segment that is crossed is the first ahead.
LEMMA CrossedIs ==
  ASSUME Standing, ContentOK, pos' # pos,
         NEW h \in Segs, pos <= h.at, \A t \in Segs : pos <= t.at => h.at <= t.at
  PROVE  Crosses(h)
<1>1. PICK g : Crosses(g)
  BY DEF ContentOK, Stays
<1>2. g \in Segs /\ pos <= g.at /\ (\A t \in Segs : pos <= t.at => g.at <= t.at)
  BY <1>1 DEF Crosses
<1>3. g.at = h.at
  BY <1>2, Layout DEF Standing, IInv
<1>4. g = h
  BY <1>2, <1>3, SameAt DEF Standing, IInv
<1>5. QED
  BY <1>1, <1>4

LEMMA CrossedHere ==
  ASSUME Standing, ContentOK, NEW h \in Segs, h.at = pos, pos' # pos
  PROVE  Crosses(h)
<1>1. pos \in Nat
  BY StateTypes DEF Standing, IInv
<1>2. QED
  BY <1>1, CrossedIs

\* As long as the input lasts, a sound segment stands at the position.
LEMMA Ahead ==
  ASSUME Standing, Good, format # "gzip", pos < data.len
  PROVE  \E t \in Segs : t.at = pos /\ SegEnd(t) <= data.len
<1>1. TypeOK /\ pos \in Nat /\ data.len \in Nat /\ Scale = 1 /\ Expected
  BY StateTypes, DataTypes DEF Standing, IInv
<1>2. PICK s \in Segs : data.len <= SegEnd(s)
  BY <1>1, LongEnough
<1>3. SegEnd(s) \in Nat /\ ~(SegEnd(s) <= pos)
  BY <1>1, <1>2, Layout
<1>4. PICK t \in Segs : t.at = pos
  BY <1>1, <1>3 DEF Expected
<1>5. SegEnd(t) <= data.len
  BY <1>1, GoodSegs
<1>6. QED
  BY <1>4, <1>5

\* Nor is a limit met by the block ahead.
LEMMA BlockAllowed ==
  ASSUME TypeOK, Good, Tally, format # "snappy", NEW h \in Segs, pos <= h.at, h.kind \in BlockKinds
  PROVE  Len(blocks) + 1 < MaxBlocks[format] /\ MaxBlocks[format] \in Nat /\ Len(blocks) \in Nat
<1>1. Len(blocks) \in Nat /\ format \in Formats /\ MaxBlocks \in [Formats -> Nat]
  BY StateTypes, StreamConstants
<1>2. Len(blocks) <= Cardinality(Past(BlockKinds)) /\ Cardinality(Past(BlockKinds)) \in Nat
  BY PastTypes DEF Tally
<1>3. Cardinality(Past(BlockKinds)) + 1 <= Cardinality(Of(BlockKinds)) /\ Cardinality(Of(BlockKinds)) \in Nat
  BY OneAhead, PastTypes
<1>4. Cardinality(Of(BlockKinds)) < MaxBlocks[format]
  BY GoodLimits
<1>5. QED
  BY <1>1, <1>2, <1>3, <1>4

LEMMA SizeAllowed ==
  ASSUME TypeOK, Good, NEW h \in Segs
  PROVE  /\ h.kind \in {"lz4_block", "zstd_block"} => h.size <= MaxBlockSize[format]
         /\ h.kind = "chunk" => h.len <= MaxBlockSize[format]
         /\ h.kind = "deflate" => LiteralsOf({h}) <= MaxBlockSize[format]
         /\ h.kind = "gzip_trailer" => WithinTotal(h.size)
BY GoodLimits

-----------------------------------------------------------------------------
(* LZ4.                                                                    *)

LEMMA Lz4Ready == ASSUME format = "lz4" PROVE Ready
BY DEF Ready

LEMMA Lz4HeaderValid ==
  ASSUME Standing, Good, Tally, ContentOK, Lz4Header PROVE ValidOK
<1>1. IInv /\ TypeOK /\ Running("lz4") /\ format = "lz4" /\ status = "running" /\ Scale = 1
      /\ pos \in Nat /\ data.len \in Nat /\ data.len > 0 /\ pos = 0
  BY GoodLimits, Lz4ContentTypes DEF Lz4Header, Standing, IInv
<1>2. Len(blocks) <= Cardinality(Past(BlockKinds)) /\ Cardinality(Past(BlockKinds)) \in Nat /\ Len(blocks) \in Nat
  BY <1>1, PastTypes, StateTypes DEF Tally
<1>3. CASE phase' = "blocks" /\ UNCHANGED <<format, data, status, pos, blocks, total, count, pending, start>>
  <2>1. Stays
    BY <1>3 DEF Stays, Gathered
  <2>2. Past(BlockKinds)' = Past(BlockKinds)
    BY <2>1, PastStays
  <2>3. Tally'
    BY <1>1, <1>2, <1>3, <2>2 DEF Tally
  <2>4. QED
    BY <1>1, <1>3, <2>3, Lz4Ready DEF ValidOK, Ready
<1>4. ASSUME NEW h \in SegsAt("lz4_frame", 0)
      PROVE  /\ ~(data.len < 7 \/ ~h.version_ok \/ Lz4HeaderEnd(h) > data.len)
             /\ h \in Segs /\ h.at = pos /\ Lz4HeaderEnd(h) \in Nat /\ Lz4HeaderEnd(h) > 0 /\ h.kind = "lz4_frame"
  <2>1. h \in Segs /\ h.kind = "lz4_frame" /\ h.at = 0 /\ ~h.dict_id
    BY <1>1, Layout DEF Standing, InStep
  <2>2. SegEnd(h) = Lz4HeaderEnd(h) /\ SegEnd(h) \in Nat /\ SegEnd(h) >= 7
    BY <2>1 DEF SegEnd, Lz4HeaderEnd
  <2>3. h.version_ok /\ SegEnd(h) <= data.len
    BY <1>1, <2>1, GoodSegs DEF SegSound
  <2>4. QED
    BY <1>1, <2>1, <2>2, <2>3
<1>5. ASSUME NEW h \in SegsAt("lz4_frame", 0), pos' = Lz4HeaderEnd(h),
             UNCHANGED <<format, data, status, blocks, total, count, pending, start>>
      PROVE  ValidOK
  <2>1. Crosses(h)
    BY <1>1, <1>4, <1>5, CrossedHere
  <2>2. Cardinality(Past(BlockKinds)') = Cardinality(Past(BlockKinds)) + (IF h.kind \in BlockKinds THEN 1 ELSE 0)
    BY <1>1, <2>1, PastGrows DEF Standing
  <2>3. Len(blocks') <= Cardinality(Past(BlockKinds)')
    BY <1>2, <1>5, <2>2
  <2>4. Tally'
    BY <1>1, <1>5, <2>3 DEF Tally
  <2>5. QED
    BY <1>1, <1>5, <2>4 DEF ValidOK, Ready
<1>6. QED
  BY <1>1, <1>3, <1>4, <1>5 DEF Lz4Header

LEMMA Lz4BlocksValid ==
  ASSUME Standing, Good, Tally, ContentOK, Lz4Blocks PROVE ValidOK
<1>1. /\ IInv /\ TypeOK /\ Running("lz4") /\ phase = "blocks" /\ format = "lz4" /\ status = "running" /\ Scale * data.len = data.len
      /\ pos \in Nat /\ data.len \in Nat /\ data.len > 0 /\ Gathered = total /\ total \in Nat
  BY GoodLimits, Lz4ContentTypes DEF Lz4Blocks, Standing, IInv
<1>2. /\ Len(blocks) <= Cardinality(Past(BlockKinds)) /\ Cardinality(Past(BlockKinds)) \in Nat /\ Len(blocks) \in Nat
  BY <1>1, PastTypes, StateTypes DEF Tally
<1>3. CASE Succeed
  <2>1. Past(BlockKinds)' = Past(BlockKinds)
    BY <1>3 DEF Succeed, Past, Behind, Segs
  <2>2. Tally'
    BY <1>1, <1>2, <1>3, <2>1 DEF Tally, Succeed
  <2>3. QED
    BY <1>1, <1>3, <2>2 DEF ValidOK, Ready, Succeed
<1>4. ASSUME pos < data.len
      PROVE  pos + 4 <= data.len /\ Len(blocks) < MaxBlocks["lz4"] /\ MaxBlocks["lz4"] \in Nat
  <2>1. PICK t \in Segs : t.at = pos /\ SegEnd(t) <= data.len
    BY <1>1, <1>4, Ahead
  <2>2. t.kind \in {"lz4_frame", "lz4_block"} /\ SegOK(t)
    BY <1>1, Layout DEF KindsOf
  <2>3. pos + 4 <= SegEnd(t) /\ SegEnd(t) \in Nat
    BY <1>1, <2>1, <2>2 DEF SegEnd, SegOK
  <2>4. pos + 4 <= data.len
    BY <1>1, <2>1, <2>3
  <2>5. PICK h : h \in Lz4HeadersAt(pos) /\ h \in SegsAt("lz4_block", pos)
    <3>1. CASE t.kind = "lz4_block"
      <4>1. t \in SegsAt("lz4_block", pos)
        BY <1>1, <2>1, <3>1, Layout
      <4>2. QED
        BY <4>1 DEF Lz4HeadersAt
    <3>2. CASE t.kind = "lz4_frame"
      <4>1. t.at = 0 /\ pos = 0 /\ data.len >= 4 /\ t \in SegsAt("lz4_frame", 0)
        BY <1>1, <2>1, <2>4, <3>2, Layout DEF LaidOut
      <4>2. QED
        BY <1>1, <4>1 DEF Standing, Expected, Lz4Framed
    <3>3. QED
      BY <2>2, <3>1, <3>2
  <2>6. h \in Segs /\ h.kind = "lz4_block" /\ h.at = pos
    BY <1>1, <2>5, Layout
  <2>7. Len(blocks) + 1 < MaxBlocks["lz4"] /\ MaxBlocks["lz4"] \in Nat
    <3>1. h.kind \in BlockKinds /\ pos <= h.at
      BY <1>1, <2>6 DEF BlockKinds
    <3>2. QED
      BY <1>1, <2>6, <3>1, BlockAllowed
  <2>8. QED
    BY <1>2, <2>4, <2>7
<1>5. ASSUME pos + 4 <= data.len, NEW h \in Lz4HeadersAt(pos), Lz4Block(h)
      PROVE  ValidOK
  <2> DEFINE n == IF h.raw THEN h.size ELSE CHOOSE m \in h.lits : TRUE
  <2>1. h \in Segs /\ h.kind = "lz4_block" /\ h.at = pos /\ SegOK(h) /\ h.size \in Nat /\ h.lits \subseteq Nat
    BY <1>1, <1>5, Lz4HeaderThere DEF SegOK
  <2>2. SegEnd(h) <= data.len /\ SegLiterals(h) # {} /\ LiteralsIn(h) \in Nat /\ h.size <= MaxBlockSize["lz4"]
    BY <1>1, <2>1, GoodSegs, SizeAllowed
  <2>3. h.raw \/ h.lits # {}
    BY <2>1, <2>2 DEF SegLiterals
  <2>4. LiteralsIn(h) = n
    <3>1. CASE h.raw
      BY <2>1, <3>1, OneNumber DEF SegLiterals
    <3>2. CASE ~h.raw
      <4>1. SegLiterals(h) = h.lits
        BY <2>1, <3>2 DEF SegLiterals
      <4>2. QED
        BY <2>2, <3>2, <4>1 DEF LiteralsIn
    <3>3. QED
      BY <3>1, <3>2
  <2>5. pos + 4 + h.size = SegEnd(h)
    BY <1>1, <2>1 DEF SegEnd
  <2>6. IF \/ h.size > MaxBlockSize["lz4"] \/ pos + 4 + h.size > data.len \/ (~h.raw /\ h.lits = {})
           \/ ~WithinTotal(total + n) \/ ~WithinRatio(total + n)
        THEN Fail
        ELSE /\ blocks' = Append(blocks, Block(pos, h.size, (total + n) - total, {}))
             /\ total' = total + n
             /\ pos' = pos + 4 + h.size
             /\ UNCHANGED <<format, data, status, phase, count, pending, start>>
    BY <1>5 DEF Lz4Block
  <2> HIDE DEF n
  <2>7. WithinTotal(total + n) /\ WithinRatio(total + n)
    <3>1. pos <= h.at /\ total + n \in Nat /\ total + n <= Gathered + LiteralsIn(h)
      BY <1>1, <2>1, <2>2, <2>4
    <3>2. QED
      BY <1>1, <2>1, <3>1, Room
  <2>8. ~(\/ h.size > MaxBlockSize["lz4"] \/ pos + 4 + h.size > data.len \/ (~h.raw /\ h.lits = {})
          \/ ~WithinTotal(total + n) \/ ~WithinRatio(total + n))
    <3>1. ~(h.size > MaxBlockSize["lz4"])
      BY <2>1, <2>2, LimitTypes
    <3>2. ~(pos + 4 + h.size > data.len)
      BY <1>1, <2>1, <2>2, <2>5
    <3>3. QED
      BY <2>3, <2>7, <3>1, <3>2
  <2>9. /\ blocks' = Append(blocks, Block(pos, h.size, (total + n) - total, {}))
        /\ pos' = pos + 4 + h.size
        /\ UNCHANGED <<format, data, status, phase, count, pending, start>>
    BY <2>8, <2>6
  <2>10. Len(blocks') = Len(blocks) + 1
    BY <1>1, <2>9, StateTypes
  <2>11. Crosses(h)
    <3>1. pos' # pos
      BY <1>1, <2>1, <2>9
    <3>2. QED
      BY <2>1, <3>1, CrossedHere
  <2>12. Cardinality(Past(BlockKinds)') = Cardinality(Past(BlockKinds)) + (IF h.kind \in BlockKinds THEN 1 ELSE 0)
    BY <1>1, <2>11, PastGrows DEF Standing
  <2>13. Len(blocks') <= Cardinality(Past(BlockKinds)')
    BY <1>2, <2>1, <2>10, <2>12 DEF BlockKinds
  <2>14. Tally'
    BY <1>1, <2>9, <2>13 DEF Tally
  <2>15. QED
    BY <1>1, <2>9, <2>14 DEF ValidOK, Ready
<1>6. QED
  <2>1. pos < data.len => ~(pos + 4 > data.len) /\ ~(Len(blocks) >= MaxBlocks["lz4"])
    BY <1>1, <1>2, <1>4
  <2>2. QED
    BY <1>3, <1>5, <2>1 DEF Lz4Blocks

-----------------------------------------------------------------------------
(* Snappy.                                                                 *)

LEMMA SnappyTally ==
  ASSUME TypeOK, format = "snappy", Stays \/ (Boundary /\ \E h : Crosses(h)),
         Tally, UNCHANGED <<status, count>>, status = "running"
  PROVE  ValidOK
<1>1. format' = "snappy"
  BY DEF Stays, Crosses
<1>2. count <= Cardinality(Past({"chunk"})) /\ Cardinality(Past({"chunk"})) \in Nat /\ count \in Nat
  BY PastTypes, StateTypes DEF Tally
<1>3. Cardinality(Past({"chunk"})') >= Cardinality(Past({"chunk"}))
  <2>1. CASE Stays
    <3>1. Past({"chunk"})' = Past({"chunk"})
      BY <2>1, PastStays
    <3>2. QED
      BY <1>2, <3>1
  <2>2. ASSUME NEW h, Boundary, Crosses(h) PROVE Cardinality(Past({"chunk"})') >= Cardinality(Past({"chunk"}))
    <3>1. Cardinality(Past({"chunk"})') = Cardinality(Past({"chunk"})) + (IF h.kind \in {"chunk"} THEN 1 ELSE 0)
      BY <2>2, PastGrows
    <3>2. QED
      BY <1>2, <3>1
  <2>3. QED
    BY <2>1, <2>2
<1>4. count' <= Cardinality(Past({"chunk"})')
  <2>1. Cardinality(Past({"chunk"})') \in Nat
    BY <1>2, <1>3, PastGrows, PastStays
  <2>2. QED
    BY <1>2, <1>3, <2>1
<1>5. QED
  BY <1>1, <1>4 DEF ValidOK, Tally, Ready

LEMMA SnappyStartValid ==
  ASSUME Standing, Good, Tally, ContentOK, SnappyStart PROVE ValidOK
<1>1. TypeOK /\ Boundary /\ Running("snappy") /\ format = "snappy" /\ status = "running" /\ data.len > 0 /\ data.len \in Nat
  BY GoodLimits, SnappyTypes DEF SnappyStart, Standing, IInv
<1>2. UNCHANGED <<status, count>>
  BY <1>1 DEF SnappyStart
<1>3. QED
  BY <1>1, <1>2, SnappyTally DEF ContentOK

LEMMA SnappyEndValid ==
  ASSUME Standing, Good, Tally, ContentOK, SnappyEnd PROVE ValidOK
<1>1. /\ TypeOK /\ Boundary /\ Running("snappy") /\ format = "snappy" /\ status = "running"
      /\ total \in Nat /\ pending \in Nat /\ Gathered = total + pending
  BY SnappyTypes DEF SnappyEnd, Standing, IInv, Gathered
<1>2. WithinTotal(total + pending)
  <2>1. total + pending \in Nat /\ total + pending <= Gathered
    BY <1>1
  <2>2. QED
    BY <1>1, <2>1, Room
<1>3. CASE pending > 0
  BY <1>1, <1>2, <1>3, SnappyTally DEF SnappyEnd, ContentOK
<1>4. CASE ~(pending > 0)
  <2>1. Succeed
    BY <1>4 DEF SnappyEnd
  <2>2. count' = count /\ format' = "snappy" /\ status' = "ok" /\ Past({"chunk"})' = Past({"chunk"})
    BY <1>1, <2>1 DEF Succeed, Past, Behind, Segs
  <2>3. QED
    BY <1>1, <2>2 DEF ValidOK, Tally, Ready
<1>5. QED
  BY <1>3, <1>4

\* A sound chunk is not malformed.
LEMMA ChunkTaken ==
  ASSUME Standing, Good, Running("snappy"), NEW c \in Segs, c.kind = "chunk", c.at = pos
  PROVE  /\ ChunkLiterals(c) # {} /\ LiteralsIn(c) \in Nat
         /\ \A n \in Nat : n <= Gathered + LiteralsIn(c) => WithinTotal(n)
<1>1. TypeOK /\ pos \in Nat /\ format = "snappy"
  BY SnappyTypes DEF Standing, IInv
<1>2. SegOK(c) /\ SegSound(c) /\ SegLiterals(c) # {} /\ LiteralsIn(c) \in SegLiterals(c) /\ LiteralsIn(c) \in Nat
  BY <1>1, GoodSegs, Layout
<1>3. /\ c.len \in Nat /\ c.type \in {"identifier", "compressed", "raw", "padding", "reserved"}
      /\ c.type # "reserved" /\ (c.type = "raw" => c.len > 4)
      /\ c.type = "compressed" /\ c.len < 4 => c.lits = {}
  BY <1>2 DEF SegOK, SegSound
<1>4. \A n \in Nat : n <= Gathered + LiteralsIn(c) => WithinTotal(n)
  <2>1. pos <= c.at
    BY <1>1
  <2>2. QED
    BY <1>1, <2>1, Room
<1>5. Gathered \in Nat
  BY <1>1, SnappyTypes DEF Gathered
<1>6. CASE c.type = "compressed"
  <2>1. SegLiterals(c) = c.lits
    BY <1>6 DEF SegLiterals
  <2>2. WithinTotal(LiteralsIn(c))
    BY <1>2, <1>4, <1>5
  <2>3. ~(c.len < 4) /\ LiteralsIn(c) \in c.lits
    BY <1>2, <1>3, <1>6, <2>1
  <2>4. ChunkLiterals(c) = {n \in c.lits : WithinTotal(n)}
    BY <1>6, <2>3 DEF ChunkLiterals
  <2>5. QED
    BY <1>2, <1>4, <2>2, <2>3, <2>4
<1>7. CASE c.type = "raw"
  <2>1. ~(c.len <= 4)
    BY <1>3, <1>7
  <2>2. QED
    BY <1>2, <1>4, <1>7, <2>1 DEF ChunkLiterals
<1>8. CASE c.type \in {"padding", "identifier"}
  BY <1>2, <1>4, <1>8 DEF ChunkLiterals
<1>9. QED
  BY <1>3, <1>6, <1>7, <1>8

LEMMA SnappyChunkValid ==
  ASSUME Standing, Good, Tally, ContentOK, SnappyChunk PROVE ValidOK
<1>1. /\ TypeOK /\ Boundary /\ Running("snappy") /\ format = "snappy" /\ status = "running"
      /\ total \in Nat /\ pending \in Nat /\ Gathered = total + pending /\ count \in Nat
      /\ pos \in Nat /\ data.len \in Nat /\ pos < data.len
  BY SnappyTypes DEF SnappyChunk, Standing, IInv, Gathered
<1>2. PICK t \in Segs : t.at = pos /\ SegEnd(t) <= data.len
  BY <1>1, Ahead
<1>3. t.kind = "chunk" /\ SegOK(t)
  BY <1>1, <1>2, Layout DEF KindsOf
<1>4. t.len \in Nat /\ SegEnd(t) = pos + 4 + t.len
  BY <1>1, <1>2, <1>3 DEF SegOK, SegEnd
<1>5. /\ count <= Cardinality(Past({"chunk"})) /\ Cardinality(Past({"chunk"})) \in Nat
      /\ Cardinality(Past({"chunk"})) + 1 <= Cardinality(Of({"chunk"})) /\ Cardinality(Of({"chunk"})) \in Nat
  <2>1. pos <= t.at /\ t.kind \in {"chunk"}
    BY <1>1, <1>2, <1>3
  <2>2. QED
    BY <1>1, <2>1, OneAhead, PastTypes DEF Tally
<1>6. ~(count + 1 >= MaxChunks)
  <2>1. Cardinality(Of({"chunk"})) < MaxChunks /\ MaxChunks \in Nat
    BY <1>1, GoodLimits, LimitTypes
  <2>2. QED
    BY <1>1, <1>5, <2>1
<1>7. WithinTotal(total + pending) /\ WithinRatio(total + pending)
  <2>1. total + pending \in Nat /\ total + pending <= Gathered
    BY <1>1
  <2>2. QED
    BY <1>1, <2>1, Room
<1>8. ~(pos + 4 > data.len)
  BY <1>1, <1>2, <1>4
<1>9. \A c \in SegsAt("chunk", pos) : c = t
  BY <1>1, <1>2, <1>3, Layout, SameAt
<1> DEFINE n == CHOOSE m \in ChunkLiterals(t) : TRUE
<1>10. /\ ChunkLiterals(t) # {} /\ n \in Nat /\ LiteralsIn(t) = n
       /\ \A k \in Nat : k <= Gathered + LiteralsIn(t) => WithinTotal(k)
  BY <1>1, <1>2, <1>3, ChunkTaken, ChunkAdds, ChunkHolds
<1>11. ~(t.len > MaxBlockSize["snappy"] \/ pos + 4 + t.len > data.len \/ ChunkLiterals(t) = {})
  <2>1. t.len <= MaxBlockSize["snappy"] /\ MaxBlockSize["snappy"] \in Nat
    BY <1>1, <1>3, SizeAllowed, LimitTypes
  <2>2. QED
    BY <1>1, <1>2, <1>4, <1>10, <2>1
<1>12. WithinTotal(total + (pending + n))
  <2> HIDE DEF n
  <2>1. total + (pending + n) \in Nat /\ total + (pending + n) <= Gathered + LiteralsIn(t)
    BY <1>1, <1>10
  <2>2. QED
    BY <1>10, <2>1
<1>13. count' = count + 1 /\ pos' = pos + 4 + t.len /\ UNCHANGED <<format, data, status>>
  BY <1>6, <1>7, <1>8, <1>9, <1>11, <1>12 DEF SnappyChunk
<1>14. Crosses(t)
  BY <1>1, <1>2, <1>4, <1>13, CrossedHere
<1>15. Cardinality(Past({"chunk"})') = Cardinality(Past({"chunk"})) + 1
  BY <1>1, <1>3, <1>14, PastGrows
<1>16. count' <= Cardinality(Past({"chunk"})')
  BY <1>1, <1>5, <1>13, <1>15
<1>17. QED
  BY <1>1, <1>13, <1>16 DEF ValidOK, Tally, Ready

-----------------------------------------------------------------------------
(* Zstd.                                                                   *)

LEMMA ZstdValidTypes ==
  ASSUME Standing, Good, Tally, Running("zstd")
  PROVE  /\ TypeOK /\ Boundary /\ Expected /\ format = "zstd" /\ status = "running"
         /\ Scale = 1 /\ Scale * data.len = data.len
         /\ pos \in Nat /\ data.len \in Nat /\ total \in Nat /\ Gathered = total
         /\ count \in Nat /\ pending \in Nat /\ Len(blocks) \in Nat /\ pos <= data.len
         /\ Len(blocks) <= Cardinality(Past(BlockKinds)) /\ Cardinality(Past(BlockKinds)) \in Nat
         /\ Cardinality(Past({"zstd_frame"})) \in Nat
         /\ count <= Cardinality(Past({"zstd_frame"})) + (IF phase = "magic" THEN 1 ELSE 0)
BY ZstdContentTypes, StateTypes, PastTypes DEF Tally

\* What holds behind a step.
LEMMA ZstdTally ==
  ASSUME format' = "zstd", status' = "running",
         Len(blocks') <= Cardinality(Past(BlockKinds)'),
         count' <= Cardinality(Past({"zstd_frame"})') + (IF phase' = "magic" THEN 1 ELSE 0),
         Ready'
  PROVE  ValidOK
BY DEF Tally, ValidOK

LEMMA ZstdReady ==
  ASSUME format = "zstd",
         phase \in {"blocks", "checked_blocks"} => \E t \in Segs : t.kind = "zstd_block" /\ t.at = pos,
         phase = "checksum" => \E t \in Segs : t.at = pos,
         phase = "magic" => SkipsBefore(pending)
  PROVE  Ready
BY DEF Ready

\* The call returns where it stands.
LEMMA SucceedValid ==
  ASSUME Tally, Succeed, Ready PROVE ValidOK
<1>1. /\ UNCHANGED <<format, data, phase, pos, blocks, total, count, pending, start>> /\ status' = "ok"
  BY DEF Succeed
<1>2. Tally' /\ Ready'
  BY <1>1 DEF Tally, Ready, Past, Behind, Segs, SkipsBefore
<1>3. QED
  BY <1>1, <1>2 DEF ValidOK

\* The closed input has what comes next.
LEMMA Closed ==
  ASSUME TypeOK, Good PROVE Finished(format, Segs)
<1>1. format \in Formats /\ data \in Inputs[format] /\ data.closed
  BY GoodLimits DEF TypeOK
<1>2. QED
  BY <1>1, InputLayout DEF Segs

LEMMA HeadStands ==
  ASSUME Standing, Good, Tally, Running("zstd"), phase \in {"header", "magic"}, pos < data.len
  PROVE  /\ pos + 4 <= data.len
         /\ SegsAt("zstd_frame", pos) \cup SegsAt("skippable", pos) # {}
<1>1. PICK t \in Segs : t.at = pos /\ SegEnd(t) <= data.len
  BY ZstdValidTypes, Ahead
<1>2. t.kind \in Heads /\ SegOK(t) /\ t.kind # "junk"
  BY <1>1, ZstdValidTypes, Layout, GoodSegs DEF Expected, SegSound
<1>3. pos + 4 <= SegEnd(t) /\ SegEnd(t) \in Nat
  <2>1. pos \in Nat /\ t.at = pos
    BY <1>1, ZstdValidTypes
  <2>2. CASE t.kind = "zstd_frame"
    <3>1. t.bytes \in Nat /\ t.bytes >= 4 /\ SegEnd(t) = pos + t.bytes
      BY <1>2, <2>1, <2>2 DEF SegEnd, SegOK
    <3>2. QED
      BY <2>1, <3>1
  <2>3. CASE t.kind = "skippable"
    <3>1. t.size \in Nat /\ SegEnd(t) = pos + (8 + t.size)
      BY <1>2, <2>1, <2>3 DEF SegEnd, SegOK
    <3>2. QED
      BY <2>1, <3>1
  <2>4. QED
    BY <1>2, <2>2, <2>3 DEF Heads
<1>4. pos + 4 <= data.len
  BY <1>1, <1>3, ZstdValidTypes
<1>5. t \in SegsAt("zstd_frame", pos) \cup SegsAt("skippable", pos)
  BY <1>1, <1>2, ZstdValidTypes, Layout DEF Heads
<1>6. QED
  BY <1>4, <1>5

LEMMA ZstdFrameValid ==
  ASSUME Standing, Good, Tally, Ready, ContentOK, ZstdFrame PROVE ValidOK
<1>1. Running("zstd") /\ phase = "header" /\ data.len > 0
  BY GoodLimits, ZstdValidTypes DEF ZstdFrame, Standing, IInv
<1>2. CASE Succeed
  BY <1>2, SucceedValid
<1>3. CASE pos < data.len
  <2>1. Cardinality(Past({"zstd_frame"})) <= Cardinality(Of({"zstd_frame"})) /\ Cardinality(Of({"zstd_frame"})) \in Nat
    BY <1>1, ZstdValidTypes, PastTypes
  <2>2. Cardinality(Of({"zstd_frame"})) < MaxFrames /\ MaxFrames \in Nat
    BY <1>1, ZstdValidTypes, GoodLimits, LimitTypes
  <2>3. ~(count + 1 > MaxFrames)
    BY <1>1, <2>1, <2>2, ZstdValidTypes
  <2>4. ~(data.len < 4)
    BY <1>1, <1>3, ZstdValidTypes, HeadStands
  <2>5. count' = count + 1 /\ pending' = 0 /\ phase' = "magic" /\ UNCHANGED <<format, data, status, pos, blocks, total>>
    BY <1>1, <1>3, <2>3, <2>4, ZstdValidTypes DEF ZstdFrame
  <2>6. Stays
    BY <1>1, <2>5, ZstdValidTypes DEF Stays, Gathered
  <2>7. Past(BlockKinds)' = Past(BlockKinds) /\ Past({"zstd_frame"})' = Past({"zstd_frame"})
    BY <2>6, PastStays
  <2>8. Ready'
    BY <1>1, <2>5, ZstdValidTypes DEF Ready, SkipsBefore
  <2>9. Len(blocks') <= Cardinality(Past(BlockKinds)')
    BY <1>1, <2>5, <2>7, ZstdValidTypes
  <2>10. count' <= Cardinality(Past({"zstd_frame"})') + (IF phase' = "magic" THEN 1 ELSE 0)
    BY <1>1, <2>5, <2>7, ZstdValidTypes
  <2>11. QED
    BY <1>1, <2>5, <2>8, <2>9, <2>10, ZstdValidTypes, ZstdTally
<1>4. data.len # 0
  BY <1>1, ZstdValidTypes
<1>5. QED
  BY <1>2, <1>3, <1>4 DEF ZstdFrame

\* As many skippable frames as parse_frame_header passes over do not stand in a
\* row.
LEMMA SkipsAllowed ==
  ASSUME TypeOK, Good, NEW n \in Nat, SkipsBefore(n) PROVE ~(n >= MaxSkips)
<1>1. SUFFICES ASSUME n >= MaxSkips PROVE FALSE
  OBVIOUS
<1>2. format \in Formats /\ data \in Inputs[format] /\ MaxSkips \in Nat /\ data.len > 0
  BY GoodLimits, LimitTypes DEF TypeOK
<1>3. Len(data.segs) \in Nat /\ DOMAIN data.segs = 1..Len(data.segs)
  BY <1>2, InputLayout
<1>4. \A i \in DOMAIN data.segs :
         \E k \in 0..(MaxSkips - 1) : ~(i + k \in DOMAIN data.segs /\ data.segs[i + k].kind = "skippable")
  BY GoodLimits
<1>5. CASE n = 0
  <2>1. MaxSkips = 0
    BY <1>1, <1>2, <1>5
  <2>2. PICK s : s \in Segs
    BY <1>2, Layout
  <2>3. PICK i : i \in DOMAIN data.segs
    BY <2>2 DEF Segs
  <2>4. QED
    BY <1>4, <2>1, <2>3
<1>6. CASE n # 0
  <2>1. PICK j \in DOMAIN data.segs : n <= j /\ \A i \in (j - n + 1)..j : data.segs[i].kind = "skippable"
    BY <1>6 DEF SkipsBefore
  <2>2. j \in 1..Len(data.segs) /\ j \in Nat
    BY <1>3, <2>1
  <2> DEFINE i == j - MaxSkips + 1
  <2>3. CASE MaxSkips = 0
    BY <1>4, <2>1, <2>3
  <2>4. CASE MaxSkips # 0
    <3>1. i \in 1..Len(data.segs)
      BY <1>1, <1>2, <1>3, <2>1, <2>2, <2>4
    <3>2. PICK k \in 0..(MaxSkips - 1) : ~(i + k \in DOMAIN data.segs /\ data.segs[i + k].kind = "skippable")
      BY <1>3, <1>4, <3>1
    <3>3. i + k \in (j - n + 1)..j /\ i + k \in 1..Len(data.segs)
      BY <1>1, <1>2, <1>3, <2>1, <2>2, <2>4, <3>1
    <3> HIDE DEF i
    <3>4. QED
      BY <1>3, <2>1, <3>2, <3>3
  <2>5. QED
    BY <2>3, <2>4
<1>7. QED
  BY <1>5, <1>6

\* One more of them.
LEMMA SkipsGrow ==
  ASSUME TypeOK, format # "gzip", NEW n \in Nat, SkipsBefore(n), NEW h \in Segs, h.kind = "skippable", h.at = pos,
         UNCHANGED data, pos' = SegEnd(h), NEW m, m = n + 1
  PROVE  \E j \in DOMAIN data'.segs :
            /\ SegEnd(data'.segs[j]) = pos' /\ m <= j
            /\ \A i \in (j - m + 1)..j : data'.segs[i].kind = "skippable"
<1>1. format \in Formats /\ data \in Inputs[format] /\ pos \in Nat
  BY StateTypes DEF TypeOK
<1>2. /\ Len(data.segs) \in Nat /\ DOMAIN data.segs = 1..Len(data.segs)
      /\ \A i, j \in DOMAIN data.segs : i < j => data.segs[i].at < data.segs[j].at
  BY <1>1, InputLayout
<1>3. PICK j \in 1..Len(data.segs) : h = data.segs[j]
  BY <1>2 DEF Segs
<1>4. CASE n = 0
  BY <1>2, <1>3, <1>4
<1>5. CASE n # 0
  <2>1. PICK k \in 1..Len(data.segs) :
           SegEnd(data.segs[k]) = pos /\ n <= k /\ \A i \in (k - n + 1)..k : data.segs[i].kind = "skippable"
    BY <1>2, <1>5 DEF SkipsBefore
  <2> DEFINE s == data.segs[k]
  <2>2. s \in Segs /\ s.at \in Nat /\ SegEnd(s) \in Nat /\ s.at < SegEnd(s) /\ SegEnd(s) = pos
    BY <1>2, <2>1, Layout DEF Segs
  <2>3. k < j
    <3>1. ~(j < k)
      BY <1>2, <1>3, <2>1, <2>2, SMTT(30)
    <3>2. j # k
      BY <1>1, <1>3, <2>2
    <3>3. QED
      BY <1>2, <1>3, <2>1, <3>1, <3>2
  <2>4. j = k + 1
    <3>1. SUFFICES ASSUME k + 1 < j PROVE FALSE
      BY <1>2, <1>3, <2>1, <2>3
    <3> DEFINE t == data.segs[k + 1]
    <3>2. k + 1 \in 1..Len(data.segs) /\ k < k + 1
      BY <1>2, <1>3, <2>1, <3>1
    <3>3. s.at < t.at /\ t.at < h.at
      BY <1>2, <1>3, <2>1, <3>1, <3>2
    <3>4. t \in Segs /\ t.at \in Nat /\ SegEnd(t) \in Nat /\ t.at < SegEnd(t)
      BY <1>2, <3>2, Layout DEF Segs
    <3> HIDE DEF s, t
    <3>5. s = t \/ SegEnd(s) <= t.at \/ SegEnd(t) <= s.at
      BY <2>2, <3>4, Layout
    <3>6. QED
      BY <1>1, <2>2, <3>3, <3>4, <3>5
  <2>5. \A i \in (j - m + 1)..j : i \in (k - n + 1)..k \/ i = j
    BY <1>2, <1>3, <2>1, <2>4
  <2>6. m <= j
    BY <1>2, <1>3, <2>1, <2>4
  <2>7. QED
    BY <1>2, <1>3, <2>1, <2>5, <2>6
<1>6. QED
  BY <1>4, <1>5

LEMMA ZstdMagicValid ==
  ASSUME Standing, Good, Tally, Ready, ContentOK, ZstdMagic PROVE ValidOK
<1>1. Running("zstd") /\ phase = "magic"
  BY DEF ZstdMagic
<1>2. /\ TypeOK /\ Boundary /\ format = "zstd" /\ status = "running" /\ Scale * data.len = data.len
      /\ pos \in Nat /\ data.len \in Nat /\ pending \in Nat /\ pos <= data.len
  BY <1>1, ZstdValidTypes
<1>3. SkipsBefore(pending)
  BY <1>1, <1>2 DEF Ready
<1>4. ~(pending >= MaxSkips)
  BY <1>2, <1>3, SkipsAllowed
<1>5. CASE Succeed
  BY <1>5, SucceedValid
<1>6. /\ Len(blocks) <= Cardinality(Past(BlockKinds)) /\ Cardinality(Past(BlockKinds)) \in Nat
      /\ Cardinality(Past({"zstd_frame"})) \in Nat /\ count \in Nat /\ Len(blocks) \in Nat
      /\ count <= Cardinality(Past({"zstd_frame"})) + 1
  BY <1>1, ZstdValidTypes
<1>7. ASSUME NEW h \in SegsAt("zstd_frame", pos) PROVE ~(~h.valid \/ pos + h.bytes > data.len)
  <2>1. h \in Segs /\ h.kind = "zstd_frame" /\ h.at = pos
    BY <1>2, Layout
  <2>2. h.valid /\ SegEnd(h) <= data.len /\ SegEnd(h) = pos + h.bytes /\ SegEnd(h) \in Nat
    BY <1>2, <2>1, GoodSegs, Layout DEF SegSound, SegEnd
  <2>3. QED
    BY <1>2, <2>2
<1>8. ASSUME NEW h \in SegsAt("zstd_frame", pos), pos' = pos + h.bytes,
             phase' = (IF h.checksum THEN "checked_blocks" ELSE "blocks"),
             UNCHANGED <<format, data, status, blocks, total, count, pending, start>>
      PROVE  ValidOK
  <2>1. h \in Segs /\ h.kind = "zstd_frame" /\ h.at = pos
    BY <1>2, Layout
  <2>2. pos' = SegEnd(h) /\ h.at < SegEnd(h) /\ SegEnd(h) \in Nat
    BY <1>2, <1>8, <2>1, Layout DEF SegEnd
  <2>3. Crosses(h)
    BY <1>2, <2>1, <2>2, CrossedHere
  <2>4. Cardinality(Past({"zstd_frame"})') = Cardinality(Past({"zstd_frame"})) + 1
    BY <1>2, <2>1, <2>3, PastGrows
  <2>5. Cardinality(Past(BlockKinds)') = Cardinality(Past(BlockKinds))
    <3>1. h.kind \notin BlockKinds
      BY <2>1 DEF BlockKinds
    <3>2. QED
      BY <1>2, <1>6, <2>3, <3>1, PastGrows
  <2>6. PICK t \in Segs : t.kind = "zstd_block" /\ t.at = SegEnd(h)
    <3>1. Finished("zstd", Segs)
      BY <1>2, Closed
    <3>2. QED
      BY <2>1, <3>1 DEF Finished
  <2>7. \E u \in Segs' : u.kind = "zstd_block" /\ u.at = pos'
    BY <1>8, <2>2, <2>6 DEF Segs
  <2>8. Ready'
    BY <1>2, <1>8, <2>7 DEF Ready
  <2>9. Len(blocks') <= Cardinality(Past(BlockKinds)')
    BY <1>6, <1>8, <2>5
  <2>10. count' <= Cardinality(Past({"zstd_frame"})') + (IF phase' = "magic" THEN 1 ELSE 0)
    BY <1>6, <1>8, <2>4
  <2>11. QED
    BY <1>2, <1>8, <2>8, <2>9, <2>10, ZstdTally
<1>9. ASSUME NEW h \in SegsAt("skippable", pos) PROVE ~(pos + 8 + h.size > data.len)
  <2>1. h \in Segs /\ h.kind = "skippable" /\ h.at = pos
    BY <1>2, Layout
  <2>2. SegEnd(h) <= data.len /\ SegEnd(h) = pos + (8 + h.size) /\ SegEnd(h) \in Nat /\ h.size \in Nat
    BY <1>2, <2>1, GoodSegs, Layout DEF SegEnd, SegOK
  <2>3. QED
    BY <1>2, <2>2
<1>10. ASSUME NEW h \in SegsAt("skippable", pos), pos' = pos + 8 + h.size, pending' = pending + 1,
              UNCHANGED <<format, data, status, phase, blocks, total, count, start>>
       PROVE  ValidOK
  <2>1. h \in Segs /\ h.kind = "skippable" /\ h.at = pos
    BY <1>2, Layout
  <2>2. pos' = SegEnd(h) /\ h.at < SegEnd(h) /\ SegEnd(h) \in Nat
    <3>1. h.size \in Nat /\ SegEnd(h) = pos + (8 + h.size)
      BY <1>2, <2>1, Layout DEF SegEnd, SegOK
    <3>2. QED
      BY <1>2, <1>10, <2>1, <3>1, Layout
  <2>3. Crosses(h)
    BY <1>2, <2>1, <2>2, CrossedHere
  <2>4. Cardinality(Past({"zstd_frame"})') = Cardinality(Past({"zstd_frame"}))
    BY <1>2, <1>6, <2>1, <2>3, PastGrows
  <2>5. Cardinality(Past(BlockKinds)') = Cardinality(Past(BlockKinds))
    <3>1. h.kind \notin BlockKinds
      BY <2>1 DEF BlockKinds
    <3>2. QED
      BY <1>2, <1>6, <2>3, <3>1, PastGrows
  <2>6. SkipsBefore(pending)'
    <3>1. \E j \in DOMAIN data'.segs :
             /\ SegEnd(data'.segs[j]) = pos' /\ pending' <= j
             /\ \A i \in (j - pending' + 1)..j : data'.segs[i].kind = "skippable"
      BY <1>2, <1>3, <1>10, <2>1, <2>2, SkipsGrow
    <3>2. QED
      BY <3>1 DEF SkipsBefore
  <2>7. Ready'
    BY <1>1, <1>2, <1>10, <2>6 DEF Ready
  <2>8. Len(blocks') <= Cardinality(Past(BlockKinds)')
    BY <1>6, <1>10, <2>5
  <2>9. count' <= Cardinality(Past({"zstd_frame"})') + (IF phase' = "magic" THEN 1 ELSE 0)
    BY <1>1, <1>6, <1>10, <2>4
  <2>10. QED
    BY <1>2, <1>10, <2>7, <2>8, <2>9, ZstdTally
<1>11. pos < data.len => ~(pos + 4 > data.len) /\ ~(SegsAt("zstd_frame", pos) \cup SegsAt("skippable", pos) = {})
  BY <1>1, <1>2, HeadStands
<1>12. QED
  BY <1>4, <1>5, <1>7, <1>8, <1>9, <1>10, <1>11 DEF ZstdMagic

LEMMA ZstdBlockAllowed ==
  ASSUME Standing, Good, Tally, Running("zstd"), NEW h \in Segs, h.kind = "zstd_block", h.at = pos
  PROVE  /\ BlockLiterals(h) # {} /\ SegEnd(h) = pos + 3 + StreamSize(h) /\ StreamSize(h) \in Nat
         /\ (CHOOSE n \in BlockLiterals(h) : TRUE) \in Nat
         /\ ~(h.size > MaxBlockSize["zstd"]) /\ ~(pos + 3 + StreamSize(h) > data.len)
         /\ ~(Len(blocks) + 1 >= MaxBlocks["zstd"])
         /\ \A n \in Nat : n <= total + (CHOOSE m \in BlockLiterals(h) : TRUE) => WithinTotal(n) /\ WithinRatio(n)
<1> DEFINE k == CHOOSE m \in BlockLiterals(h) : TRUE
<1>1. TypeOK /\ pos \in Nat /\ data.len \in Nat /\ format = "zstd" /\ Gathered = total /\ Scale * data.len = data.len
  BY ZstdValidTypes
<1>2. SegOK(h) /\ SegSound(h) /\ SegEnd(h) <= data.len /\ SegLiterals(h) # {}
  BY <1>1, GoodSegs, Layout
<1>3. h.size \in Nat /\ h.type \in {"raw", "rle", "compressed"}
  BY <1>2 DEF SegOK, SegSound
<1>4. StreamSize(h) \in Nat /\ SegEnd(h) = pos + 3 + StreamSize(h)
  BY <1>1, <1>3 DEF StreamSize, SegEnd
<1>5. BlockLiterals(h) # {}
  BY <1>2, <1>3 DEF BlockLiterals, SegLiterals
<1>6. k \in Nat /\ LiteralsIn(h) = k
  BY <1>2, <1>5, ZstdBlockHolds
<1>7. ~(h.size > MaxBlockSize["zstd"])
  <2>1. h.size <= MaxBlockSize["zstd"] /\ MaxBlockSize["zstd"] \in Nat
    BY <1>1, SizeAllowed, LimitTypes
  <2>2. QED
    BY <1>3, <2>1
<1>8. ~(pos + 3 + StreamSize(h) > data.len)
  BY <1>1, <1>2, <1>4
<1>9. ~(Len(blocks) + 1 >= MaxBlocks["zstd"])
  <2>1. h.kind \in BlockKinds /\ pos <= h.at
    BY <1>1 DEF BlockKinds
  <2>2. Len(blocks) + 1 < MaxBlocks["zstd"] /\ MaxBlocks["zstd"] \in Nat /\ Len(blocks) \in Nat
    BY <1>1, <2>1, BlockAllowed
  <2>3. QED
    BY <2>2
<1> HIDE DEF k
<1>10. \A n \in Nat : n <= total + k => WithinTotal(n) /\ WithinRatio(n)
  <2>1. pos <= h.at /\ total + k = Gathered + LiteralsIn(h)
    BY <1>1, <1>6
  <2>2. QED
    BY <1>1, <2>1, Room
<1>11. QED
  BY <1>4, <1>5, <1>6, <1>7, <1>8, <1>9, <1>10 DEF k

LEMMA ZstdBlocksValid ==
  ASSUME Standing, Good, Tally, Ready, ContentOK, ZstdBlocks PROVE ValidOK
<1>1. Running("zstd") /\ phase \in {"blocks", "checked_blocks"}
  BY DEF ZstdBlocks
<1>2. /\ TypeOK /\ Boundary /\ format = "zstd" /\ status = "running" /\ Scale * data.len = data.len
      /\ pos \in Nat /\ data.len \in Nat /\ total \in Nat
  BY <1>1, ZstdValidTypes
<1>3. PICK t \in Segs : t.kind = "zstd_block" /\ t.at = pos
  BY <1>1, <1>2 DEF Ready
<1>4. /\ BlockLiterals(t) # {} /\ SegEnd(t) = pos + 3 + StreamSize(t) /\ StreamSize(t) \in Nat
      /\ (CHOOSE n \in BlockLiterals(t) : TRUE) \in Nat
      /\ ~(t.size > MaxBlockSize["zstd"]) /\ ~(pos + 3 + StreamSize(t) > data.len)
      /\ ~(Len(blocks) + 1 >= MaxBlocks["zstd"])
      /\ \A n \in Nat : n <= total + (CHOOSE m \in BlockLiterals(t) : TRUE) => WithinTotal(n) /\ WithinRatio(n)
  BY <1>1, <1>3, ZstdBlockAllowed
<1>5. ~(pos + 3 > data.len)
  BY <1>2, <1>4
<1>6. \A h \in SegsAt("zstd_block", pos) : h = t
  BY <1>2, <1>3, Layout, SameAt
<1> DEFINE n == CHOOSE m \in BlockLiterals(t) : TRUE
<1>7. WithinTotal(total + n) /\ WithinRatio(total + n)
  <2>1. n \in Nat /\ \A m \in Nat : m <= total + n => WithinTotal(m) /\ WithinRatio(m)
    BY <1>4
  <2> HIDE DEF n
  <2>2. total + n \in Nat /\ total + n <= total + n
    BY <1>2, <2>1
  <2>3. QED
    BY <2>1, <2>2
<1>8. ZstdBlock(t)
  BY <1>5, <1>6 DEF ZstdBlocks
<1>9. /\ blocks' = Append(blocks, Block(pos, StreamSize(t) + 3, (total + n) - total, {t.size}))
      /\ pos' = pos + 3 + StreamSize(t)
      /\ phase' = (IF ~t.last THEN phase ELSE IF phase = "checked_blocks" THEN "checksum" ELSE "header")
      /\ UNCHANGED <<format, data, status, count, pending, start>>
  BY <1>4, <1>7, <1>8 DEF ZstdBlock
<1> HIDE DEF n
<1>10. /\ Len(blocks) <= Cardinality(Past(BlockKinds)) /\ Cardinality(Past(BlockKinds)) \in Nat
       /\ Cardinality(Past({"zstd_frame"})) \in Nat /\ count \in Nat /\ Len(blocks) \in Nat
       /\ count <= Cardinality(Past({"zstd_frame"}))
  <2>1. phase # "magic"
    BY <1>1
  <2>2. QED
    BY <1>1, <2>1, ZstdValidTypes
<1>11. Crosses(t) /\ pos' = SegEnd(t)
  <2>1. pos' # pos
    BY <1>2, <1>4, <1>9
  <2>2. QED
    BY <1>3, <1>4, <1>9, <2>1, CrossedHere
<1>12. Len(blocks') <= Cardinality(Past(BlockKinds)')
  <2>1. Cardinality(Past(BlockKinds)') = Cardinality(Past(BlockKinds)) + 1
    <3>1. t.kind \in BlockKinds
      BY <1>3 DEF BlockKinds
    <3>2. QED
      BY <1>2, <1>11, <3>1, PastGrows
  <2>2. Len(blocks') = Len(blocks) + 1
    BY <1>2, <1>9, StateTypes
  <2>3. QED
    BY <1>10, <2>1, <2>2
<1>13. count' <= Cardinality(Past({"zstd_frame"})') + (IF phase' = "magic" THEN 1 ELSE 0)
  <2>1. Cardinality(Past({"zstd_frame"})') = Cardinality(Past({"zstd_frame"}))
    BY <1>2, <1>3, <1>10, <1>11, PastGrows
  <2>2. phase' # "magic"
    BY <1>1, <1>9
  <2>3. QED
    BY <1>9, <1>10, <2>1, <2>2
<1>14. Finished("zstd", Segs) /\ Segs' = Segs /\ format' = "zstd" /\ status' = "running"
  BY <1>2, <1>9, Closed DEF Segs
<1>15. CASE ~t.last
  <2>1. \E u \in Segs' : u.kind = "zstd_block" /\ u.at = pos'
    BY <1>3, <1>11, <1>14, <1>15 DEF Finished
  <2>2. Ready'
    BY <1>1, <1>9, <1>14, <1>15, <2>1 DEF Ready
  <2>3. QED
    BY <1>12, <1>13, <1>14, <2>2, ZstdTally
<1>16. CASE t.last
  <2>1. phase' = "checksum" => \E u \in Segs' : u.at = pos'
    <3>1. SUFFICES ASSUME phase' = "checksum" PROVE \E u \in Segs : u.at = SegEnd(t)
      BY <1>11, <1>14
    <3>2. phase = "checked_blocks"
      BY <1>9, <1>16, <3>1
    <3>3. PICK f \in Segs : InFrame(f, phase, pos)
      BY <1>1, <1>2, <3>2 DEF Standing, Expected
    <3>4. f.at < SegEnd(f) /\ SegEnd(f) <= pos /\ f.at \in Nat /\ SegEnd(f) \in Nat
      BY <1>2, <3>3, Layout DEF InFrame
    <3>5. f.kind = "zstd_frame" /\ f.checksum /\ f.at < t.at
          /\ \A u \in Segs : f.at < u.at /\ u.at < t.at => u.kind = "zstd_block" /\ ~u.last
      BY <1>2, <1>3, <3>2, <3>3, <3>4 DEF InFrame
    <3>6. ClosesFrame(Segs, f, t)
      BY <1>3, <1>16, <3>5 DEF ClosesFrame
    <3>7. QED
      BY <1>3, <1>14, <3>3, <3>5, <3>6 DEF Finished
  <2>2. phase' \in {"checksum", "header"}
    BY <1>1, <1>9, <1>16
  <2>3. Ready'
    BY <1>14, <2>1, <2>2 DEF Ready
  <2>4. QED
    BY <1>12, <1>13, <1>14, <2>3, ZstdTally
<1>17. QED
  BY <1>15, <1>16

LEMMA ZstdChecksumValid ==
  ASSUME Standing, Good, Tally, Ready, ContentOK, ZstdChecksum PROVE ValidOK
<1>1. Running("zstd") /\ phase = "checksum"
  BY DEF ZstdChecksum
<1>2. /\ TypeOK /\ Boundary /\ format = "zstd" /\ status = "running" /\ Scale * data.len = data.len
      /\ pos \in Nat /\ data.len \in Nat
  BY <1>1, ZstdValidTypes
<1>3. PICK t \in Segs : t.at = pos
  BY <1>1, <1>2 DEF Ready
<1>4. t.kind = "zstd_checksum" /\ SegEnd(t) <= data.len
  BY <1>1, <1>2, <1>3, GoodSegs DEF Standing, Expected
<1>5. SegEnd(t) = pos + 4
  BY <1>3, <1>4 DEF SegEnd
<1>6. pos' = pos + 4 /\ phase' = "header" /\ UNCHANGED <<format, data, status, blocks, total, count, pending, start>>
  BY <1>2, <1>4, <1>5 DEF ZstdChecksum
<1>7. Crosses(t)
  BY <1>2, <1>3, <1>6, CrossedHere
<1>8. /\ Len(blocks) <= Cardinality(Past(BlockKinds)) /\ Cardinality(Past(BlockKinds)) \in Nat
      /\ Cardinality(Past({"zstd_frame"})) \in Nat /\ count <= Cardinality(Past({"zstd_frame"})) /\ count \in Nat
  <2>1. phase # "magic"
    BY <1>1
  <2>2. QED
    BY <1>1, <2>1, ZstdValidTypes
<1>9. Cardinality(Past(BlockKinds)') = Cardinality(Past(BlockKinds))
  <2>1. t.kind \notin BlockKinds
    BY <1>4 DEF BlockKinds
  <2>2. QED
    BY <1>2, <1>7, <1>8, <2>1, PastGrows
<1>10. Cardinality(Past({"zstd_frame"})') = Cardinality(Past({"zstd_frame"}))
  BY <1>2, <1>4, <1>7, <1>8, PastGrows
<1>11. Ready'
  BY <1>2, <1>6 DEF Ready
<1>12. Len(blocks') <= Cardinality(Past(BlockKinds)')
  BY <1>6, <1>8, <1>9
<1>13. count' <= Cardinality(Past({"zstd_frame"})') + (IF phase' = "magic" THEN 1 ELSE 0)
  BY <1>6, <1>8, <1>10
<1>14. QED
  BY <1>2, <1>6, <1>11, <1>12, <1>13, ZstdTally

-----------------------------------------------------------------------------
(* gzip.                                                                   *)

LEMMA GzipValidTypes ==
  ASSUME Standing, Good, Tally, Running("gzip")
  PROVE  /\ TypeOK /\ Boundary /\ Expected /\ format = "gzip" /\ status = "running"
         /\ Scale = 8 /\ Scale * data.len = 8 * data.len
         /\ pos \in Nat /\ data.len \in Nat /\ data.len > 0 /\ total \in Nat /\ Gathered = total
         /\ count \in Nat /\ Len(blocks) \in Nat /\ pos <= 8 * data.len
         /\ Len(blocks) <= Cardinality(Past(BlockKinds)) /\ Cardinality(Past(BlockKinds)) \in Nat
         /\ Cardinality(Past({"gzip_trailer"})) \in Nat /\ count <= Cardinality(Past({"gzip_trailer"}))
<1>1. TypeOK /\ Boundary /\ Expected /\ format = "gzip" /\ status = "running"
  BY DEF Standing, IInv, Running
<1>2. data.len > 0 /\ data.len \in Nat
  BY <1>1, GoodLimits, DataTypes
<1>3. Gathered = total
  BY <1>1 DEF Gathered
<1>4. QED
  BY <1>1, <1>2, <1>3, StateTypes, PastTypes DEF Tally

LEMMA GzipTally ==
  ASSUME format' = "gzip", status' = "running",
         Len(blocks') <= Cardinality(Past(BlockKinds)'), count' <= Cardinality(Past({"gzip_trailer"})'), Ready'
  PROVE  ValidOK
BY DEF Tally, ValidOK

LEMMA GzipHeaderValid ==
  ASSUME Standing, Good, Tally, Ready, ContentOK, GzipHeader PROVE ValidOK
<1>1. Running("gzip") /\ phase = "header"
  BY DEF GzipHeader
<1>2. /\ TypeOK /\ Boundary /\ format = "gzip" /\ status = "running" /\ Scale = 8 /\ Scale * data.len = 8 * data.len
      /\ pos \in Nat /\ data.len \in Nat /\ data.len > 0 /\ pos <= 8 * data.len
  BY <1>1, GzipValidTypes
<1>3. CASE Succeed
  BY <1>3, SucceedValid
<1>4. ASSUME NEW h \in Segs, h.kind = "gzip_header", h.at = pos
      PROVE  pos + 80 <= 8 * data.len /\ ~(~h.valid \/ pos + 8 * h.bytes > 8 * data.len)
  <2>1. SegOK(h) /\ h.valid /\ SegEnd(h) <= 8 * data.len
    BY <1>2, <1>4, Layout, GoodSegs DEF SegSound
  <2>2. h.bytes \in Nat /\ h.bytes >= 10 /\ SegEnd(h) = pos + 8 * h.bytes
    BY <1>4, <2>1 DEF SegOK, SegEnd
  <2>3. QED
    BY <1>2, <2>1, <2>2
<1>5. CASE \A t \in Segs : SegEnd(t) <= pos
  <2>1. PICK s \in Segs : data.len <= CeilDiv(SegEnd(s), 8)
    BY <1>2, Layout
  <2>2. SegEnd(s) \in Nat /\ SegEnd(s) <= pos /\ pos = 8 * CeilDiv(pos, 8)
    BY <1>1, <1>2, <1>5, <2>1, Layout DEF Ready
  <2>3. CeilDiv(SegEnd(s), 8) <= CeilDiv(pos, 8) /\ CeilDiv(SegEnd(s), 8) \in Nat /\ CeilDiv(pos, 8) \in Nat
    <3> DEFINE c == CeilDiv(pos, 8)
    <3>1. c \in Nat /\ SegEnd(s) <= 8 * c
      BY <1>2, <2>2, CeilEight
    <3> HIDE DEF c
    <3>2. CeilDiv(SegEnd(s), 8) <= c
      BY <2>2, <3>1, CeilWithin
    <3>3. QED
      BY <2>2, <3>1, <3>2, CeilEight DEF c
  <2>4. pos >= 8 * data.len
    BY <1>2, <2>1, <2>2, <2>3
  <2>5. ~(pos < 8 * data.len) /\ ~(pos + 80 <= 8 * data.len) /\ ~(data.len = 0)
    BY <1>2, <2>4
  <2>6. QED
    BY <1>3, <2>5 DEF GzipHeader
<1>6. ASSUME NEW h \in SegsAt("gzip_header", pos), pos' = pos + 8 * h.bytes, phase' = "blocks",
             UNCHANGED <<format, data, status, blocks, total, count, start>>
      PROVE  ValidOK
  <2>1. h \in Segs /\ h.kind = "gzip_header" /\ h.at = pos
    BY <1>2, Layout
  <2>2. pos' = SegEnd(h) /\ h.at < SegEnd(h) /\ SegEnd(h) \in Nat
    BY <1>2, <1>6, <2>1, Layout DEF SegEnd
  <2>3. Crosses(h)
    BY <1>2, <2>1, <2>2, CrossedHere
  <2>4. Cardinality(Past(BlockKinds)') = Cardinality(Past(BlockKinds)) + 0
        /\ Cardinality(Past({"gzip_trailer"})') = Cardinality(Past({"gzip_trailer"})) + 0
    <3>1. h.kind \notin BlockKinds /\ h.kind \notin {"gzip_trailer"}
      BY <2>1 DEF BlockKinds
    <3>2. QED
      BY <1>2, <2>3, <3>1, PastGrows
  <2>5. PICK t \in Segs : t.kind = "deflate" /\ t.at = SegEnd(h)
    <3>1. Finished("gzip", Segs)
      BY <1>2, Closed
    <3>2. QED
      BY <2>1, <3>1 DEF Finished
  <2>6. \E u \in Segs' : u.kind = "deflate" /\ u.at = pos'
    BY <1>6, <2>2, <2>5 DEF Segs
  <2>7. Ready'
    BY <1>2, <1>6, <2>6 DEF Ready
  <2>8. Len(blocks') <= Cardinality(Past(BlockKinds)') /\ count' <= Cardinality(Past({"gzip_trailer"})')
    BY <1>1, <1>6, <2>4, GzipValidTypes
  <2>9. QED
    BY <1>2, <1>6, <2>7, <2>8, GzipTally
<1>7. CASE \E t \in Segs : t.kind = "gzip_header" /\ t.at = pos
  <2>1. PICK t \in Segs : t.kind = "gzip_header" /\ t.at = pos
    BY <1>7
  <2>2. pos + 80 <= 8 * data.len
    BY <1>4, <2>1
  <2>3. ~(data.len = 0) /\ ~(pos >= 8 * data.len) /\ ~(pos + 80 > 8 * data.len)
    BY <1>2, <2>2
  <2>4. \A h \in SegsAt("gzip_header", pos) : ~(~h.valid \/ pos + 8 * h.bytes > 8 * data.len)
    BY <1>2, <1>4, Layout
  <2>5. QED
    BY <1>6, <2>3, <2>4 DEF GzipHeader
<1>8. QED
  BY <1>1, <1>2, <1>5, <1>7 DEF Ready

LEMMA GzipDeflateValid ==
  ASSUME Standing, Good, Tally, Ready, ContentOK, GzipDeflate PROVE ValidOK
<1>1. Running("gzip") /\ phase = "blocks"
  BY DEF GzipDeflate
<1>2. /\ TypeOK /\ Boundary /\ format = "gzip" /\ status = "running" /\ Scale = 8 /\ Scale * data.len = 8 * data.len
      /\ pos \in Nat /\ data.len \in Nat /\ total \in Nat /\ Gathered = total
  BY <1>1, GzipValidTypes
<1>3. PICK t \in Segs : t.kind = "deflate" /\ t.at = pos
  BY <1>1, <1>2 DEF Ready
<1>4. SegOK(t) /\ SegEnd(t) <= 8 * data.len /\ SegLiterals(t) # {} /\ LiteralsIn(t) \in Nat
  BY <1>2, <1>3, Layout, GoodSegs
<1>5. t.bits \in Nat \ {0} /\ t.lits \subseteq Nat /\ SegEnd(t) = pos + t.bits /\ SegLiterals(t) = t.lits
  BY <1>3, <1>4 DEF SegOK, SegEnd, SegLiterals
<1>6. pos + t.bits <= 8 * data.len /\ pos < 8 * data.len
  BY <1>2, <1>4, <1>5
<1>7. pos <= t.at /\ t.kind \in BlockKinds
  BY <1>2, <1>3 DEF BlockKinds
<1>8. ~(Len(blocks) >= MaxBlocks["gzip"])
  <2>1. Len(blocks) + 1 < MaxBlocks["gzip"] /\ MaxBlocks["gzip"] \in Nat /\ Len(blocks) \in Nat
    BY <1>2, <1>7, BlockAllowed
  <2>2. QED
    BY <2>1
<1>9. \A h \in SegsAt("deflate", pos) : h = t
  BY <1>2, <1>3, Layout, SameAt
<1>10. Deflate(t)
  <2>1. ~(pos >= 8 * data.len)
    BY <1>2, <1>6
  <2>2. QED
    BY <1>8, <1>9, <2>1 DEF GzipDeflate
<1> DEFINE n == CHOOSE m \in t.lits : TRUE
<1>11. n = LiteralsIn(t)
  BY <1>4, <1>5 DEF LiteralsIn
<1>12. /\ ~(pos + t.bits > 8 * data.len) /\ t.lits # {}
       /\ ~((total + n) - total > MaxBlockSize["gzip"]) /\ WithinTotal(total + n)
  <2> HIDE DEF n
  <2>1. LiteralsOf({t}) <= MaxBlockSize["gzip"] /\ MaxBlockSize["gzip"] \in Nat /\ LiteralsOf({t}) = n
    BY <1>2, <1>3, <1>4, <1>11, SizeAllowed, LimitTypes, OnlyOne
  <2>2. n \in Nat /\ (total + n) - total = n
    BY <1>2, <1>4, <1>11
  <2>3. WithinTotal(total + n)
    <3>1. total + n \in Nat /\ total + n <= Gathered + LiteralsIn(t)
      BY <1>2, <1>11, <2>2
    <3>2. QED
      BY <1>2, <1>7, <3>1, Room
  <2>4. ~(n > MaxBlockSize["gzip"])
    BY <2>1, <2>2
  <2>5. QED
    BY <1>2, <1>4, <1>5, <1>6, <2>2, <2>3, <2>4
<1>13. /\ blocks' = Append(blocks, Block(pos \div 8, UsedBytes(t.bits), (total + n) - total, {}))
       /\ pos' = pos + t.bits /\ phase' = (IF t.final THEN "trailer" ELSE "blocks")
       /\ UNCHANGED <<format, data, status, count, start>>
  BY <1>10, <1>12 DEF Deflate
<1> HIDE DEF n
<1>14. Crosses(t) /\ pos' = SegEnd(t)
  <2>1. pos' # pos
    BY <1>2, <1>5, <1>13
  <2>2. QED
    BY <1>3, <1>5, <1>13, <2>1, CrossedHere
<1>15. Len(blocks') = Len(blocks) + 1 /\ Len(blocks) \in Nat
  BY <1>2, <1>13, StateTypes
<1>16. Cardinality(Past(BlockKinds)') = Cardinality(Past(BlockKinds)) + 1
  BY <1>2, <1>7, <1>14, PastGrows
<1>17. Cardinality(Past({"gzip_trailer"})') = Cardinality(Past({"gzip_trailer"})) + 0
  <2>1. t.kind \notin {"gzip_trailer"}
    BY <1>3
  <2>2. QED
    BY <1>2, <1>14, <2>1, PastGrows
<1>18. Len(blocks') <= Cardinality(Past(BlockKinds)')
  BY <1>1, <1>15, <1>16, GzipValidTypes
<1>19. count' <= Cardinality(Past({"gzip_trailer"})')
  BY <1>1, <1>13, <1>17, GzipValidTypes
<1>20. Ready'
  <2>1. Finished("gzip", Segs) /\ Segs' = Segs
    BY <1>2, <1>13, Closed DEF Segs
  <2>2. CASE ~t.final
    <3>1. \E u \in Segs' : u.kind = "deflate" /\ u.at = pos'
      BY <1>3, <1>14, <2>1, <2>2 DEF Finished
    <3>2. QED
      BY <1>2, <1>13, <2>2, <3>1 DEF Ready
  <2>3. CASE t.final
    <3>1. \E u \in Segs' : u.kind = "gzip_trailer" /\ u.at = 8 * CeilDiv(pos', 8)
      BY <1>3, <1>14, <2>1, <2>3 DEF Finished
    <3>2. QED
      BY <1>2, <1>13, <2>3, <3>1 DEF Ready
  <2>4. QED
    BY <2>2, <2>3
<1>21. QED
  BY <1>2, <1>13, <1>18, <1>19, <1>20, GzipTally

LEMMA GzipTrailerValid ==
  ASSUME Standing, Good, Tally, Ready, ContentOK, GzipTrailer PROVE ValidOK
<1>1. Running("gzip") /\ phase = "trailer"
  BY DEF GzipTrailer
<1>2. /\ TypeOK /\ Boundary /\ Expected /\ format = "gzip" /\ status = "running"
      /\ Scale = 8 /\ Scale * data.len = 8 * data.len
      /\ pos \in Nat /\ data.len \in Nat /\ count \in Nat
  BY <1>1, GzipValidTypes
<1>3. PICK t \in Segs : t.kind = "gzip_trailer" /\ t.at = 8 * CeilDiv(pos, 8)
  BY <1>1, <1>2 DEF Ready
<1> DEFINE c == CeilDiv(pos, 8)
<1>4. c \in Nat /\ pos <= 8 * c /\ t.at = 8 * c
  BY <1>2, <1>3, CeilEight
<1>5. SegSound(t) /\ SegEnd(t) <= 8 * data.len /\ SegEnd(t) = t.at + 64
  BY <1>2, <1>3, GoodSegs DEF SegEnd
<1>6. t.crc /\ t.decodes /\ WithinTotal(t.size)
  BY <1>2, <1>3, <1>5, SizeAllowed DEF SegSound
<1>7. c + 8 <= data.len
  <2> HIDE DEF c
  <2>1. QED
    BY <1>2, <1>4, <1>5
<1>8. TrailerFits
  BY <1>7 DEF TrailerFits
<1>9. \A h \in SegsAt("gzip_trailer", 8 * CeilDiv(pos, 8)) : h = t
  BY <1>2, <1>3, Layout, SameAt
<1>10. TrailerIntact(t)
  BY <1>6 DEF TrailerIntact
<1>11. ~(count + 1 >= MaxMembers)
  <2>1. pos <= t.at /\ t.kind \in {"gzip_trailer"}
    BY <1>3, <1>4
  <2>2. /\ Cardinality(Past({"gzip_trailer"})) + 1 <= Cardinality(Of({"gzip_trailer"}))
        /\ Cardinality(Of({"gzip_trailer"})) \in Nat /\ Cardinality(Of({"gzip_trailer"})) < MaxMembers
    BY <1>2, <2>1, OneAhead, PastTypes, GoodLimits
  <2>3. count <= Cardinality(Past({"gzip_trailer"})) /\ Cardinality(Past({"gzip_trailer"})) \in Nat
    BY <1>1, GzipValidTypes
  <2>4. MaxMembers \in Nat
    BY GzipConstants
  <2>5. QED
    BY <1>2, <2>2, <2>3, <2>4
<1>12. /\ pos' = 8 * (c + 8) /\ count' = count + 1 /\ phase' = "header"
       /\ UNCHANGED <<format, data, status, blocks, total, pending, start>>
  BY <1>8, <1>9, <1>10, <1>11 DEF GzipTrailer
<1>13. pos' = SegEnd(t) /\ pos' # pos /\ pos' = 8 * CeilDiv(pos', 8)
  <2> HIDE DEF c
  <2>1. pos' = SegEnd(t) /\ pos' # pos
    BY <1>2, <1>4, <1>5, <1>12
  <2>2. CeilDiv(8 * (c + 8), 8) = c + 8
    BY <1>4 DEF CeilDiv
  <2>3. QED
    BY <1>12, <2>1, <2>2
<1>14. Crosses(t)
  <2>1. pos <= t.at /\ \A u \in Segs : pos <= u.at => t.at <= u.at
    BY <1>1, <1>2, <1>3, <1>4 DEF Expected
  <2>2. QED
    BY <1>13, <2>1, CrossedIs
<1>15. Cardinality(Past({"gzip_trailer"})') = Cardinality(Past({"gzip_trailer"})) + 1
  BY <1>2, <1>3, <1>14, PastGrows
<1>16. Cardinality(Past(BlockKinds)') = Cardinality(Past(BlockKinds)) + 0
  <2>1. t.kind \notin BlockKinds
    BY <1>3 DEF BlockKinds
  <2>2. QED
    BY <1>2, <1>14, <2>1, PastGrows
<1> HIDE DEF c
<1>17. Len(blocks') <= Cardinality(Past(BlockKinds)') /\ count' <= Cardinality(Past({"gzip_trailer"})')
  BY <1>1, <1>12, <1>15, <1>16, GzipValidTypes
<1>18. Ready'
  <2>1. Finished("gzip", Segs) /\ Segs' = Segs
    BY <1>2, <1>12, Closed DEF Segs
  <2>2. (\E u \in Segs : u.kind = "gzip_header" /\ u.at = SegEnd(t)) \/ (\A u \in Segs : SegEnd(u) <= SegEnd(t))
    BY <1>3, <2>1 DEF Finished
  <2>3. (\E u \in Segs' : u.kind = "gzip_header" /\ u.at = pos') \/ (\A u \in Segs' : SegEnd(u) <= pos')
    BY <1>13, <2>1, <2>2
  <2>4. QED
    BY <1>2, <1>12, <1>13, <2>3 DEF Ready
<1>19. QED
  BY <1>2, <1>12, <1>17, <1>18, GzipTally

-----------------------------------------------------------------------------
(* The call as a whole.                                                    *)

LEMMA NextValid == ASSUME Standing, Good, Tally, Ready, Next PROVE ValidOK
<1>1. ContentOK
  BY NextContent
<1>2. CASE Lz4Next
  BY <1>1, <1>2, Lz4HeaderValid, Lz4BlocksValid DEF Lz4Next
<1>3. CASE SnappyNext
  BY <1>1, <1>3, SnappyStartValid, SnappyChunkValid, SnappyEndValid DEF SnappyNext
<1>4. CASE ZstdNext
  BY <1>1, <1>4, ZstdFrameValid, ZstdMagicValid, ZstdBlocksValid, ZstdChecksumValid DEF ZstdNext
<1>5. CASE GzipNext
  BY <1>1, <1>5, GzipHeaderValid, GzipDeflateValid, GzipTrailerValid DEF GzipNext
<1>6. QED
  BY <1>2, <1>3, <1>4, <1>5 DEF Next

LEMMA InitValid == Init => Valid
<1> SUFFICES ASSUME Init, Good PROVE status # "error" /\ Tally /\ Ready
  BY DEF Valid
<1>1. TypeOK /\ data.len > 0
  BY InitIInv, GoodLimits DEF IInv
<1>2. status = "running" /\ phase = "header" /\ pos = 0 /\ Len(blocks) = 0 /\ count = 0
  BY DEF Init
<1>3. \A K : Cardinality(Past(K)) \in Nat
  BY <1>1, PastTypes
<1>4. Tally
  BY <1>2, <1>3 DEF Tally
<1>5. Ready
  <2>1. CASE format = "gzip"
    <3>1. PICK s : s \in Segs
      BY <1>1, Layout
    <3>2. Finished("gzip", Segs)
      BY <1>1, <2>1, Closed
    <3>3. \E t \in Segs : t.kind = "gzip_header" /\ t.at = 0
      BY <3>1, <3>2 DEF Finished
    <3>4. 8 * CeilDiv(0, 8) = 0
      BY DEF CeilDiv
    <3>5. QED
      BY <1>2, <2>1, <3>3, <3>4 DEF Ready
  <2>2. CASE format # "gzip"
    BY <1>2, <2>2 DEF Ready
  <2>3. QED
    BY <2>1, <2>2
<1>6. QED
  BY <1>2, <1>4, <1>5

LEMMA StepValid == IInv /\ Content /\ Valid /\ [Next]_vars => Valid'
<1> SUFFICES ASSUME IInv, Content, Valid, [Next]_vars PROVE Valid'
  OBVIOUS
<1>1. CASE UNCHANGED vars
  BY <1>1 DEF vars, Valid, Good, Whole, InStep, Present, WithinLimits, WithinTotal, WithinRatio, Segs, Scale,
              Tally, Ready, Past, Behind, SkipsBefore
<1>2. CASE Next
  <2>1. UNCHANGED <<format, data>>
    BY <1>2, NextOK DEF StepOK, Returns, Passes, Adds, Walks
  <2>2. Good' = Good
    BY <2>1 DEF Good, Whole, InStep, Present, WithinLimits, WithinTotal, WithinRatio, Segs, Scale
  <2>3. CASE ~Good
    BY <2>2, <2>3 DEF Valid
  <2>4. CASE Good
    <3>1. InStep
      BY <2>4 DEF Good, Whole
    <3>2. Standing /\ Tally /\ Ready
      BY <2>4, <3>1 DEF Standing, Content, Valid
    <3>3. ValidOK
      BY <1>2, <2>4, <3>2, NextValid
    <3>4. QED
      BY <3>3 DEF ValidOK, Valid
  <2>5. QED
    BY <2>3, <2>4
<1>3. QED
  BY <1>1, <1>2

\* A whole stream within the limits is never refused, in any format, however
\* its frames, members, skippable frames, chunks and checksums are arranged and
\* whichever limit they come close to.
THEOREM ValidAcceptedCorrect == Spec => []ValidAccepted
<1>1. Init => IInv /\ (Content /\ NothingLost) /\ Valid
  BY InitIInv, InitContent, InitValid
<1>2. (IInv /\ (Content /\ NothingLost) /\ Valid) /\ [Next]_vars => (IInv /\ (Content /\ NothingLost) /\ Valid)'
  BY StepIInv, StepContent, StepValid
<1>3. Valid => ValidAccepted
  BY DEF Valid, ValidAccepted, Good
<1>4. QED
  BY <1>1, <1>2, <1>3, PTL DEF Spec

=============================================================================
