----------------------------- MODULE GzipMember -----------------------------
(***************************************************************************)
(* The bits of a DEFLATE stream and the segments GzipStream sees: what the *)
(* decoder does bit by bit is, seen by blocks, what GzipStream does.       *)
(***************************************************************************)
EXTENDS DeflateDecoder

\* A block that is written as more symbols or lengths than the code reads.
TooLong(b) ==
    \/ b.kind # "stored" /\ Len(b.tokens) + 1 > MaxInstructions
    \/ b.kind = "dynamic" /\ Len(b.runs) > MaxInstructions

HasMatches(b) == b.kind # "stored" /\ \E t \in DOMAIN b.tokens : "match" \in DOMAIN b.tokens[t]

\* The segments of a member behind its header.  Nothing here compares a CRC.
Segments(s) ==
    LET n == Len(s.blocks)
    IN  [i \in 1..n |->
            LET e == s.extents[i]
            IN  [kind |-> "deflate", at |-> e.start, bits |-> e.end - e.start, final |-> i = n,
                 matches |-> HasMatches(s.blocks[i]),
                 lits |-> IF TooLong(s.blocks[i]) THEN {} ELSE {Len(e.literals)}]]
        \o <<[kind |-> "gzip_trailer", at |-> Len(s.bits) - 64, crc |-> TRUE, decodes |-> TRUE, size |-> 0]>>

PerFormat(value) == [f \in {"lz4", "snappy", "zstd", "gzip"} |-> value]

Between == phase \in {"block", "trailer"}
MatchesBefore == \E s \in source : \E i \in 1..Len(blocks) : HasMatches(s.blocks[i])

\* A pass inside of a block is no step of GzipStream; the end of the trailer is
\* where it looks for the next member.
Stream ==
    INSTANCE GzipStream WITH
        format <- "gzip",
        data <- [len |-> Len(data) \div 8, segs |-> IF source = {} THEN <<>> ELSE Segments(CHOOSE s \in source : TRUE)],
        status <- IF status = "error" THEN "error" ELSE "running",
        phase <- IF status = "ok" THEN "header" ELSE IF phase = "trailer" THEN "trailer" ELSE "blocks",
        pos <- IF Between THEN Position(reader) ELSE block.start,
        blocks <- [i \in DOMAIN blocks |->
                      [offset |-> blocks[i].start \div 8,
                       len |-> (blocks[i].end - blocks[i].start + 7) \div 8,
                       literals |-> Len(blocks[i].literals), uncompressed |-> {}]],
        total <- total,
        count <- IF status = "ok" THEN 1 ELSE 0,
        pending <- IF IF Between THEN had_matches ELSE MatchesBefore THEN 1 ELSE 0,
        start <- 0,
        Inputs <- PerFormat({}), Garbage <- {},
        MaxBlockSize <- PerFormat(MaxBlockLiterals), MaxBlocks <- PerFormat(MaxBlocks),
        MaxTotalLiterals <- MaxTotal, MaxRatio <- 0, RatioFloor <- 0, MaxMembers <- 2

\* Of a stream whose repeats are not behind zeroes: all the passes over a block
\* together are one pass of GzipStream, which accepts the block, ends where it
\* ends and remembers its matches, or they refuse where GzipStream refuses.  So
\* what Extraction shows of members laid out in blocks holds of their bits.
ImplementsGzipStream ==
    [][(\E s \in source : Regular(s)) => Stream!GzipDeflate \/ Stream!GzipTrailer]_(Stream!vars)

=============================================================================
