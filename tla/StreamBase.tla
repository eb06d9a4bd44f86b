----------------------------- MODULE StreamBase -----------------------------
(***************************************************************************)
(* The state the four stream parsers share, and the steps they have in     *)
(* common.                                                                 *)
(*                                                                         *)
(* A compressed input is a record: "len" is data.len(), "segs" the segments*)
(* the bytes were laid out in by whoever wrote them, each with its position*)
(* "at".  An input whose "len" is less than the end of its last segment was*)
(* cut.  A parser sees a segment only when it reads at its position; where *)
(* no segment starts it reads whatever the bytes there happen to say.      *)
(***************************************************************************)
EXTENDS Integers, Sequences, FiniteSets

CONSTANTS
    Inputs,               \* per format, the inputs: [Formats -> SUBSET inputs]
    Garbage,              \* the LZ4 block headers bytes out of step may spell
    MaxBlockSize,         \* largest block of the format: [Formats -> Nat]
    MaxBlocks,            \* largest number of blocks: [Formats -> Nat]
    MaxTotalLiterals,     \* MAX_TOTAL_LITERALS
    MaxRatio,             \* MAX_DECOMPRESSION_RATIO
    RatioFloor            \* literals that are allowed at any ratio: 1 MiB

Formats == {"lz4", "snappy", "zstd", "gzip"}

ASSUME StreamConstants ==
    /\ DOMAIN Inputs = Formats
    /\ MaxBlockSize \in [Formats -> Nat] /\ MaxBlocks \in [Formats -> Nat]
    /\ MaxTotalLiterals \in Nat /\ MaxRatio \in Nat /\ RatioFloor \in Nat

VARIABLES
    format,     \* the format the caller named
    data,       \* the input
    status,     \* "running", "ok" or "error"
    phase,      \* what the parser reads next
    pos,        \* where: in bytes, for gzip in bits
    blocks,     \* Vec<CompressedBlock>, literals by their number
    total,      \* total_literals
    count,      \* sequence number of the frame, chunk or member
    pending,    \* literals gathered and not yet in a block (Snappy)
    start       \* block_start (Snappy), start_pos (Zstd)

vars == <<format, data, status, phase, pos, blocks, total, count, pending, start>>

-----------------------------------------------------------------------------

\* The segments of a kind a parser reads at p.
SegsAt(kind, p) ==
    {data.segs[i] : i \in {j \in DOMAIN data.segs : data.segs[j].kind = kind /\ data.segs[j].at = p}}

SmallestOf(a, b) == IF a <= b THEN a ELSE b
LargestOf(a, b) == IF a >= b THEN a ELSE b

Running(f) == format = f /\ status = "running"

\* Result::Err and Result::Ok: the parser returns.
Fail ==
    /\ status' = "error"
    /\ UNCHANGED <<format, data, phase, pos, blocks, total, count, pending, start>>

Succeed ==
    /\ status' = "ok"
    /\ UNCHANGED <<format, data, phase, pos, blocks, total, count, pending, start>>

\* max_allowed_literals: the ratio cap, over the whole input, with its floor.
WithinRatio(literals) == literals <= LargestOf(data.len * MaxRatio, RatioFloor)

\* Mutant: the literal that passes the limit is still let in.
WithinTotalOrOneOver(literals) == literals <= MaxTotalLiterals + 1
WithinTotal(literals) == literals <= MaxTotalLiterals

\* Mutant: the position is taken behind the header of a block.
BlockBehindHeader(offset, len, literals, uncompressed) ==
    [offset |-> offset + 3, len |-> len, literals |-> literals, uncompressed |-> uncompressed]

Block(offset, len, literals, uncompressed) ==
    [offset |-> offset, len |-> len, literals |-> literals, uncompressed |-> uncompressed]

CeilDiv(a, b) == (a + b - 1) \div b

=============================================================================
