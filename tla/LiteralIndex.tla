---------------------------- MODULE LiteralIndex ----------------------------
(***************************************************************************)
(* The literal index: one Bloom filter per block over the 1- to 4-byte     *)
(* windows of the literals of the block, the two builders that make it     *)
(* (CompressedIndexBuilder in one call, StreamingIndexBuilder chunk by     *)
(* chunk) and the queries over it.                                         *)
(*                                                                         *)
(* What extract_from_bytes returns for a chunk is an input: an error, or   *)
(* the literals of its blocks in order.  The items of the filters are the  *)
(* byte strings of at most four bytes.                                     *)
(***************************************************************************)
EXTENDS BloomOps, Sequences

CONSTANTS
    Byte,                 \* the byte values
    ChunkLiterals,        \* literals of the blocks of a chunk that parses
    BitCounts,            \* arguments of the setters
    HashCounts,
    ItemCounts,
    Rates,
    MaxStreamingBlocks,   \* MAX_STREAMING_BLOCKS
    Patterns              \* the patterns asked for

MaxGram == 4

ASSUME ItemsAreGrams == Items = UNION {[1..n -> Byte] : n \in 0..MaxGram}

ASSUME IndexConstants ==
    /\ \A c \in ChunkLiterals : c \in Seq(Seq(Byte))
    /\ BitCounts \subseteq Nat /\ HashCounts \subseteq Nat
    /\ ItemCounts \subseteq Nat /\ Rates \subseteq Int
    /\ MaxStreamingBlocks \in Nat
    /\ \A p \in Patterns : p \in Seq(Byte)

VARIABLES
    builder,      \* "batch" or "streaming", or "done": the builder was consumed
    opts,         \* its sizing options
    blocks,       \* Vec<BlockWithBloom> of the builder, then of the index
    outcome,      \* of the last call: "ok", "parse_error" or "too_many_blocks"
    accepted,     \* ghost: the literals of every block a call was told "ok" for
    resized       \* ghost: options were set between two chunks

vars == <<builder, opts, blocks, outcome, accepted, resized>>

-----------------------------------------------------------------------------
\* Filters of blocks.

Windows(s, w) == {SubSeq(s, i, i + w - 1) : i \in 1..(Len(s) - w + 1)}

\* Mutant: the loop over the windows of three bytes is missing.
GramsBut3(s) == UNION {Windows(s, w) : w \in {1, 2, MaxGram}}

Grams(s) == UNION {Windows(s, w) : w \in 1..MaxGram}

InsertGrams(f, literals) ==
    [bits |-> f.bits \cup UNION {Probes(g, f.num_hashes, f.num_bits) : g \in Grams(literals)},
     len |-> f.len, num_hashes |-> f.num_hashes, num_bits |-> f.num_bits]

Explicit(o) == o.num_bits # None /\ o.num_hashes # None

\* CompressedIndexBuilder::build_block_with_bloom
BatchBlock(o, literals, num_blocks) ==
    LET items == IF o.expected_items = None
                 THEN Larger(Len(literals), 16)
                 ELSE UnwrapOr(o.expected_items, 0) \div num_blocks
        empty == IF Explicit(o)
                 THEN WithParams(UnwrapOr(o.num_bits, 1), UnwrapOr(o.num_hashes, 1))
                 ELSE NewFilter(Larger(items, 16), UnwrapOr(o.rate, 100))
    IN  [literals |-> literals, bloom |-> InsertGrams(empty, literals)]

\* Mutant: the streaming builder takes one explicit size for both.
StreamBlockEagerSizes(o, literals) ==
    LET empty == IF o.num_bits # None
                 THEN WithParams(UnwrapOr(o.num_bits, 1), UnwrapOr(o.num_hashes, 1))
                 ELSE NewFilter(Larger(UnwrapOr(o.expected_items, Len(literals)), 16),
                                UnwrapOr(o.rate, 100))
    IN  [literals |-> literals, bloom |-> InsertGrams(empty, literals)]

\* StreamingIndexBuilder::build_block_with_bloom: the expected items are not
\* shared out over the blocks, whose number is not known yet.
StreamBlock(o, literals) ==
    LET items == UnwrapOr(o.expected_items, Larger(Len(literals), 16))
        empty == IF Explicit(o)
                 THEN WithParams(UnwrapOr(o.num_bits, 1), UnwrapOr(o.num_hashes, 1))
                 ELSE NewFilter(Larger(items, 16), UnwrapOr(o.rate, 100))
    IN  [literals |-> literals, bloom |-> InsertGrams(empty, literals)]

BatchIndex(o, lits) ==
    [i \in 1..Len(lits) |-> BatchBlock(o, lits[i], Larger(Len(lits), 1))]

-----------------------------------------------------------------------------
\* Queries.

\* Mutant: a long pattern is hashed as one item.
PatternMightContainWhole(f, p) == MayContain(f, p)

PatternMightContain(f, p) ==
    IF Len(p) <= MaxGram THEN MayContain(f, p)
    ELSE \A w \in Windows(p, MaxGram) : MayContain(f, w)

CandidateBlocks(p) ==
    {i \in DOMAIN blocks : p = <<>> \/ PatternMightContain(blocks[i].bloom, p)}

CandidateBlocksIter(p) ==
    {i \in DOMAIN blocks : PatternMightContain(blocks[i].bloom, p)}

VerifyContains(b, p) ==
    \/ p = <<>>
    \/ Len(p) <= Len(b.literals) /\ p \in Windows(b.literals, Len(p))

-----------------------------------------------------------------------------
\* Builders.

NoOptions == [num_bits |-> None, num_hashes |-> None, expected_items |-> None, rate |-> None]

Init ==
    /\ builder \in {"batch", "streaming"}
    /\ opts = NoOptions
    /\ blocks = <<>>
    /\ outcome = "ok"
    /\ accepted = <<>>
    /\ resized = FALSE

\* The setters take the builder by value and may be called between two chunks.
Set(o) ==
    /\ builder # "done"
    /\ opts' = o
    /\ resized' = (resized \/ blocks # <<>>)
    /\ UNCHANGED <<builder, blocks, outcome, accepted>>

SetExpectedItems == \E n \in ItemCounts : Set([opts EXCEPT !.expected_items = Some(n)])
SetRate          == \E p \in Rates      : Set([opts EXCEPT !.rate = Some(p)])
SetBloomBits     == \E n \in BitCounts  : Set([opts EXCEPT !.num_bits = Some(n)])
SetBloomHashes   == \E n \in HashCounts : Set([opts EXCEPT !.num_hashes = Some(n)])

\* build_from_bytes consumes the builder, whether the data parses or not.
BuildFromBytes(lits) ==
    /\ builder = "batch"
    /\ builder' = "done"
    /\ blocks' = BatchIndex(opts, lits)
    /\ accepted' = lits
    /\ outcome' = "ok"
    /\ UNCHANGED <<opts, resized>>

BuildFromBytesFails ==
    /\ builder = "batch"
    /\ builder' = "done"
    /\ outcome' = "parse_error"
    /\ UNCHANGED <<opts, blocks, accepted, resized>>

StreamBlocks(lits) == [i \in 1..Len(lits) |-> StreamBlock(opts, lits[i])]

\* Mutant: the limit is checked on what is there, not on what it becomes.
ProcessChunkStaleLimit(lits) ==
    /\ builder = "streaming"
    /\ IF Len(blocks) > MaxStreamingBlocks
       THEN /\ outcome' = "too_many_blocks"
            /\ UNCHANGED <<blocks, accepted>>
       ELSE /\ blocks' = blocks \o StreamBlocks(lits)
            /\ accepted' = accepted \o lits
            /\ outcome' = "ok"
    /\ UNCHANGED <<builder, opts, resized>>

\* Mutant: the blocks that still fit are kept when the chunk is refused.
ProcessChunkKeepsPart(lits) ==
    /\ builder = "streaming"
    /\ IF Len(blocks) + Len(lits) > MaxStreamingBlocks
       THEN /\ blocks' = SubSeq(blocks \o StreamBlocks(lits), 1, MaxStreamingBlocks)
            /\ outcome' = "too_many_blocks"
            /\ UNCHANGED accepted
       ELSE /\ blocks' = blocks \o StreamBlocks(lits)
            /\ accepted' = accepted \o lits
            /\ outcome' = "ok"
    /\ UNCHANGED <<builder, opts, resized>>

ProcessChunk(lits) ==
    /\ builder = "streaming"
    /\ IF Len(blocks) + Len(lits) > MaxStreamingBlocks
       THEN /\ outcome' = "too_many_blocks"
            /\ UNCHANGED <<blocks, accepted>>
       ELSE /\ blocks' = blocks \o StreamBlocks(lits)
            /\ accepted' = accepted \o lits
            /\ outcome' = "ok"
    /\ UNCHANGED <<builder, opts, resized>>

ProcessChunkFails ==
    /\ builder = "streaming"
    /\ outcome' = "parse_error"
    /\ UNCHANGED <<builder, opts, blocks, accepted, resized>>

Finalize ==
    /\ builder = "streaming"
    /\ builder' = "done"
    /\ outcome' = "ok"
    /\ UNCHANGED <<opts, blocks, accepted, resized>>

Next ==
    \/ SetExpectedItems \/ SetRate \/ SetBloomBits \/ SetBloomHashes
    \/ \E lits \in ChunkLiterals : BuildFromBytes(lits) \/ ProcessChunk(lits)
    \/ BuildFromBytesFails \/ ProcessChunkFails
    \/ Finalize

Spec == Init /\ [][Next]_vars

-----------------------------------------------------------------------------
(***************************************************************************)
(* Properties.                                                             *)
(***************************************************************************)

Option(S) == {None} \cup {Some(v) : v \in S}

OptsOK ==
    opts \in [num_bits : Option(BitCounts), num_hashes : Option(HashCounts),
             expected_items : Option(ItemCounts), rate : Option(Rates)]

BlockType == [literals : Seq(Byte), bloom : Filters]

\* Every block carries a legal filter, under any sequence of settings.
TypeOK ==
    /\ builder \in {"batch", "streaming", "done"}
    /\ OptsOK
    /\ blocks \in Seq(BlockType)
    /\ \A i \in DOMAIN blocks : FilterOK(blocks[i].bloom)
    /\ outcome \in {"ok", "parse_error", "too_many_blocks"}
    /\ accepted \in Seq(Seq(Byte))
    /\ resized \in BOOLEAN

\* p occurs in s.
Occurs(p, s) ==
    \E o \in 0..(Len(s) - Len(p)) : \A j \in 1..Len(p) : s[o + j] = p[j]

\* The two-pass search of the documentation, candidate_blocks or its iterator
\* and then verify_contains on each candidate, finds exactly the blocks whose
\* literals hold the pattern: the filters lose none of them, whatever sizes the
\* blocks were indexed under and however long the pattern is.  For the empty
\* pattern, which the filters know nothing of, only the list does.
Searches(p) == {CandidateBlocks(p)} \cup (IF p = <<>> THEN {} ELSE {CandidateBlocksIter(p)})

ScanFindsExactly ==
    \A p \in Patterns : \A candidates \in Searches(p) :
        {i \in candidates : VerifyContains(blocks[i], p)}
            = {i \in DOMAIN blocks : Occurs(p, blocks[i].literals)}

\* The index holds the blocks of the chunks a call accepted, all of them, in
\* order and once: a chunk refused for its parse or for the limit leaves no
\* block behind.
OnlyAcceptedBlocks ==
    /\ Len(blocks) = Len(accepted)
    /\ \A i \in DOMAIN blocks : blocks[i].literals = accepted[i]

\* A streaming builder never holds more blocks than MAX_STREAMING_BLOCKS.
WithinBlockLimit == builder = "streaming" => Len(blocks) <= MaxStreamingBlocks

\* Indexing a stream chunk by chunk gives the index one call over the same
\* blocks gives, as long as the options stay put and no expected item count
\* is shared out over the blocks.
StreamingMatchesBatch ==
    ~resized /\ opts.expected_items = None => blocks = BatchIndex(opts, accepted)

=============================================================================
