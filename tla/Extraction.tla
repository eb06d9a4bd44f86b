----------------------------- MODULE Extraction -----------------------------
(***************************************************************************)
(* extract_from_bytes: the four parsers behind one call, and what a caller *)
(* may rely on whichever of them runs.                                     *)
(***************************************************************************)
EXTENDS Lz4Stream, SnappyStream, ZstdStream, GzipStream, StreamFormats

-----------------------------------------------------------------------------
(* The call.                                                               *)

Init ==
    /\ format \in Formats
    /\ data \in Inputs[format]
    /\ status = "running"
    /\ phase = "header"
    /\ pos = 0
    /\ blocks = <<>>
    /\ total = 0 /\ count = 0 /\ pending = 0 /\ start = 0

Next == Lz4Next \/ SnappyNext \/ ZstdNext \/ GzipNext

Spec == Init /\ [][Next]_vars /\ WF_vars(Next)

-----------------------------------------------------------------------------

Phases == {"header", "blocks", "chunks", "magic", "checked_blocks", "checksum", "trailer"}

TypeOK ==
    /\ format \in Formats /\ data \in Inputs[format]
    /\ status \in {"running", "ok", "error"}
    /\ phase \in Phases
    /\ pos \in 0..(Scale * data.len)
    /\ start \in 0..pos
    /\ blocks \in Seq([offset : 0..data.len, len : 0..data.len, literals : Nat, uncompressed : SUBSET Nat])
    /\ \A i \in DOMAIN blocks : Cardinality(blocks[i].uncompressed) <= 1
    /\ total \in Nat /\ count \in Nat /\ pending \in Nat

Delivered == SumFunction([i \in DOMAIN blocks |-> blocks[i].literals])

\* A result holds the literals of every segment that is there, each once: no
\* flush, frame, member or last chunk drops or repeats any, and a stream whose
\* headers are read as the format lays them out never ends "ok" in a torn block.
NothingLost ==
    status = "ok" /\ InStep =>
        /\ Delivered = LiteralsOf({s \in Segs : Present(s)})
        /\ \A s \in Segs : s.at + 4 * Scale <= Scale * data.len /\ SegLiterals(s) # {0} => Present(s)

\* What no limit is set against.  The limits are exclusive where the code
\* compares after counting.
WithinLimits ==
    LET Of(kind) == {s \in Segs : s.kind = kind}
        runs == {i \in DOMAIN data.segs : \A k \in 0..(MaxSkips - 1) :
                    i + k \in DOMAIN data.segs /\ data.segs[i + k].kind = "skippable"}
    IN  /\ WithinTotal(LiteralsOf(Segs))
        /\ format # "gzip" => WithinRatio(LiteralsOf(Segs))
        /\ \A s \in Of("lz4_block") \cup Of("zstd_block") : s.size <= MaxBlockSize[format]
        /\ \A s \in Of("chunk") : s.len <= MaxBlockSize[format]
        /\ \A s \in Of("deflate") : LiteralsOf({s}) <= MaxBlockSize[format]
        /\ Cardinality(Of("lz4_block") \cup Of("zstd_block") \cup Of("deflate")) < MaxBlocks[format]
        /\ Cardinality(Of("chunk")) < MaxChunks
        /\ Cardinality(Of("zstd_frame")) < MaxFrames
        /\ Cardinality(Of("gzip_trailer")) < MaxMembers
        /\ \A s \in Of("gzip_trailer") : WithinTotal(s.size)
        /\ runs = {}

\* A whole stream that stays within the limits is never refused, however its
\* frames, members, skippable frames and checksums are arranged.
ValidAccepted == status = "error" => ~(Whole /\ WithinLimits)

\* The literals in hand are bounded all along, and total_literals, on which
\* the bound rests, never loses track of the blocks.
LimitsHeld ==
    /\ total = Delivered
    /\ Delivered <= MaxTotalLiterals
    /\ format \in {"lz4", "zstd"} => WithinRatio(Delivered)

\* The literals a block carries lie in the extent it reports, and nothing else
\* does ("the number of compressed bytes that belong to this block").
ExtentsExact ==
    \A i \in DOMAIN blocks :
        LET b == blocks[i]
        IN  b.literals = LiteralsOf({s \in Segs : /\ b.offset * Scale <= s.at
                                                  /\ SegEnd(s) <= (b.offset + b.len) * Scale})

\* Zstd blocks do report what belongs to them.
ZstdExtentsExact == format = "zstd" => ExtentsExact

\* literal_density: "a value in the range 0.0..=1.0 when the uncompressed size
\* is known".
DensityAtMostOne ==
    \A i \in DOMAIN blocks : \A n \in blocks[i].uncompressed : n > 0 => blocks[i].literals <= n

-----------------------------------------------------------------------------
(* The promise of every format: BlockStream.                               *)

CONSTANTS MaxLen, MaxBlockCount

\* They cover every input and every format.  The last block of a Zstd frame is
\* not counted against the limit.
ASSUME PromiseConstants ==
    /\ MaxLen \in Nat /\ MaxBlockCount \in Nat
    /\ \A f \in Formats : \A d \in Inputs[f] : d.len \in 0..MaxLen
    /\ {MaxBlocks["lz4"], MaxBlocks["gzip"], MaxChunks, MaxBlocks["zstd"] + MaxFrames} \subseteq 0..MaxBlockCount

Promise ==
    INSTANCE BlockStream WITH
        size <- data.len,
        walked <- CeilDiv(pos, Scale),
        out <- [i \in DOMAIN blocks |-> [offset |-> blocks[i].offset, len |-> blocks[i].len]]

\* Every parser walks its input front to back, reports extents in order and
\* within what it walked over, returns once, and does return.
KeepsPromise == Promise!Spec

=============================================================================
