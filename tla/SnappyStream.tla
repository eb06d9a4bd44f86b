---------------------------- MODULE SnappyStream ----------------------------
(***************************************************************************)
(* snappy::extract_literals: chunks of a type byte, a 3-byte length and    *)
(* data.  Their literals gather until there are more than FlushAt of them; *)
(* the block then made reaches from the payload of the chunk before last   *)
(* flushed to the payload of this one.                                     *)
(*                                                                         *)
(* Segments: "chunk" [type, len, lits], "lits" the set of one of the number*)
(* of decoded bytes, empty when the decompressor refuses the chunk.        *)
(***************************************************************************)
EXTENDS StreamBase

CONSTANTS
    FlushAt,        \* 32 KiB
    MaxChunks       \* MAX_CHUNKS_PER_STREAM

ASSUME SnappyConstants == FlushAt \in Nat /\ MaxChunks \in Nat \ {0}

\* handle_snappy_chunk: what a chunk adds, as a set of one, or none if it is
\* malformed.  Padding and stream identifiers add nothing.
ChunkLiterals(c) ==
    CASE c.type = "compressed" -> IF c.len < 4 THEN {} ELSE {n \in c.lits : WithinTotal(n)}
      [] c.type = "raw"        -> IF c.len <= 4 THEN {} ELSE {c.len - 4}
      [] c.type \in {"padding", "identifier"} -> {0}
      [] c.type = "reserved"   -> {}

\* flush_block: it reaches up to "end".
Flush(literals, end) ==
    /\ blocks' = Append(blocks, Block(start, end - start, literals, {literals}))
    /\ total' = total + literals
    /\ pending' = 0
    /\ start' = end

\* A stream that starts with the whole identifier is entered behind it.
SnappyStart ==
    /\ Running("snappy") /\ phase = "header"
    /\ IF data.len = 0
       THEN Fail
       ELSE LET past == IF data.len >= 10 /\ \E c \in SegsAt("chunk", 0) : c.type = "identifier"
                        THEN 10 ELSE 0
            IN  /\ pos' = past
                /\ start' = past
                /\ phase' = "chunks"
                /\ UNCHANGED <<format, data, status, blocks, total, count, pending>>

SnappyChunk ==
    /\ Running("snappy") /\ phase = "chunks" /\ pos < data.len
    /\ IF \/ count + 1 >= MaxChunks
          \/ ~WithinTotal(total + pending) \/ ~WithinRatio(total + pending)
          \/ pos + 4 > data.len
       THEN Fail
       ELSE \E c \in SegsAt("chunk", pos) :
              IF \/ c.len > MaxBlockSize["snappy"]
                 \/ pos + 4 + c.len > data.len
                 \/ ChunkLiterals(c) = {}
              THEN Fail
              ELSE LET gathered == pending + (CHOOSE n \in ChunkLiterals(c) : TRUE)
                   IN  IF gathered > FlushAt /\ ~WithinTotal(total + gathered)
                       THEN Fail
                       ELSE /\ IF gathered > FlushAt
                               THEN Flush(gathered, pos + 4)
                               ELSE pending' = gathered /\ UNCHANGED <<blocks, total, start>>
                            /\ count' = count + 1
                            /\ pos' = pos + 4 + c.len
                            /\ UNCHANGED <<format, data, status, phase>>

\* Behind the last chunk: the literals still pending become a last block.
SnappyEnd ==
    /\ Running("snappy") /\ phase = "chunks" /\ pos >= data.len
    /\ IF pending > 0 /\ WithinTotal(total + pending)
       THEN /\ Flush(pending, pos)
            /\ UNCHANGED <<format, data, status, phase, pos, count>>
       ELSE IF pending > 0 THEN Fail ELSE Succeed

SnappyNext == SnappyStart \/ SnappyChunk \/ SnappyEnd

=============================================================================
