----------------------------- MODULE ZstdStream -----------------------------
(***************************************************************************)
(* zstd::extract_literals: frames one behind the other, each led by up to  *)
(* two skippable frames, each made of blocks up to the one marked last.    *)
(*                                                                         *)
(* Segments: "zstd_frame" [bytes, valid, checksum] (the header, of that    *)
(* many bytes), "skippable" [size], "zstd_block" [last, type, size, lits]  *)
(* with the literals of a compressed block as a set of one, or none.       *)
(***************************************************************************)
EXTENDS StreamBase

CONSTANTS MaxFrames, MaxSkips  \* 1000; the 3 of parse_frame_header

ASSUME ZstdConstants == MaxFrames \in Nat /\ MaxSkips \in Nat

\* A frame is begun: "pending" counts the passes of parse_frame_header's loop.
ZstdFrame ==
    /\ Running("zstd") /\ phase = "header"
    /\ \/ data.len = 0 /\ Fail
       \/ data.len > 0 /\ pos >= data.len /\ Succeed
       \/ /\ pos < data.len
          /\ IF count + 1 > MaxFrames \/ data.len < 4
             THEN Fail
             ELSE /\ count' = count + 1
                  /\ start' = pos
                  /\ pending' = 0
                  /\ phase' = "magic"
                  /\ UNCHANGED <<format, data, status, pos, blocks, total>>

\* One pass of the loop of parse_frame_header.
ZstdMagic ==
    /\ Running("zstd") /\ phase = "magic"
    /\ \/ pending >= MaxSkips /\ Fail
       \/ pending < MaxSkips /\ pos = data.len /\ Succeed
       \/ /\ pending < MaxSkips /\ pos < data.len
          /\ pos + 4 > data.len \/ SegsAt("zstd_frame", pos) \cup SegsAt("skippable", pos) = {}
          /\ IF start > 0 THEN Succeed ELSE Fail
       \/ /\ pending < MaxSkips /\ pos + 4 <= data.len
          /\ \E h \in SegsAt("zstd_frame", pos) :
                IF ~h.valid \/ pos + h.bytes > data.len
                THEN Fail
                ELSE /\ pos' = pos + h.bytes
                     /\ phase' = IF h.checksum THEN "checked_blocks" ELSE "blocks"
                     /\ UNCHANGED <<format, data, status, blocks, total, count, pending, start>>
       \/ /\ pending < MaxSkips /\ pos + 4 <= data.len
          /\ \E h \in SegsAt("skippable", pos) :
                IF pos + 8 + h.size > data.len
                THEN Fail
                ELSE /\ pos' = pos + 8 + h.size
                     /\ pending' = pending + 1
                     /\ UNCHANGED <<format, data, status, phase, blocks, total, count, start>>

\* The bytes a block takes in the stream and the literals it yields.  Mutants:
\* the size of an RLE block is taken for its length in the stream, its one byte
\* for its literals.
StreamSizeOfData(h) == h.size
StreamSize(h) == IF h.type = "rle" THEN 1 ELSE h.size

BlockLiteralsOfStream(h) ==
    CASE h.type = "raw"        -> {h.size}
      [] h.type = "rle"        -> {1}
      [] h.type = "compressed" -> h.lits
      [] h.type = "reserved"   -> {}

BlockLiterals(h) ==
    CASE h.type \in {"raw", "rle"} -> {h.size}
      [] h.type = "compressed"     -> h.lits
      [] h.type = "reserved"       -> {}

\* parse_block, and the rest of the pass of the loop over it.
ZstdBlock(h) ==
    LET literals == total + (CHOOSE n \in BlockLiterals(h) : TRUE)
    IN  IF \/ h.size > MaxBlockSize["zstd"]
           \/ pos + 3 + StreamSize(h) > data.len
           \/ BlockLiterals(h) = {}
           \/ ~WithinTotal(literals) \/ ~WithinRatio(literals)
           \/ ~h.last /\ Len(blocks) + 1 >= MaxBlocks["zstd"]
        THEN Fail
        ELSE /\ blocks' = Append(blocks, Block(pos, StreamSize(h) + 3, literals - total, {h.size}))
             /\ total' = literals
             /\ pos' = pos + 3 + StreamSize(h)
             /\ phase' = IF ~h.last THEN phase
                         ELSE IF phase = "checked_blocks" THEN "checksum" ELSE "header"
             /\ UNCHANGED <<format, data, status, count, pending, start>>

ZstdBlocks ==
    /\ Running("zstd") /\ phase \in {"blocks", "checked_blocks"}
    /\ \/ pos + 3 > data.len /\ Fail
       \/ pos + 3 <= data.len /\ \E h \in SegsAt("zstd_block", pos) : ZstdBlock(h)

ZstdChecksum ==
    /\ Running("zstd") /\ phase = "checksum"
    /\ IF pos + 4 > data.len
       THEN Fail
       ELSE /\ pos' = pos + 4
            /\ phase' = "header"
            /\ UNCHANGED <<format, data, status, blocks, total, count, pending, start>>

ZstdNext == ZstdFrame \/ ZstdMagic \/ ZstdBlocks \/ ZstdChecksum

=============================================================================
