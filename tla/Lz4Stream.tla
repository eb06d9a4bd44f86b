----------------------------- MODULE Lz4Stream ------------------------------
(***************************************************************************)
(* parse_lz4_blocks: an optional frame header, then blocks of a 4-byte     *)
(* size and that many bytes, up to an end mark or the end of the input.    *)
(*                                                                         *)
(* Segments: "lz4_frame" [version_ok, content_size, dict_id] at 0, and     *)
(* "lz4_block" [size, raw, lits]; "lits" is the number of literals of the  *)
(* block as a set of one, empty when extract_literals refuses the block.   *)
(***************************************************************************)
EXTENDS StreamBase

Lz4Framed == SegsAt("lz4_frame", 0) # {}

\* parse_frame_header: six bytes, eight for the content size, one for the
\* dictionary, one of checksum.
Lz4HeaderEnd(h) == 6 + (IF h.content_size THEN 8 ELSE 0) + (IF h.dict_id THEN 1 ELSE 0) + 1

Lz4Header ==
    /\ Running("lz4") /\ phase = "header"
    /\ \/ data.len = 0 /\ Fail
       \/ /\ data.len > 0
          /\ data.len < 4 \/ ~Lz4Framed
          /\ phase' = "blocks"
          /\ UNCHANGED <<format, data, status, pos, blocks, total, count, pending, start>>
       \/ /\ data.len >= 4
          /\ \E h \in SegsAt("lz4_frame", 0) :
                IF data.len < 7 \/ ~h.version_ok \/ Lz4HeaderEnd(h) > data.len
                THEN Fail
                ELSE /\ phase' = "blocks"
                     /\ pos' = Lz4HeaderEnd(h)
                     /\ UNCHANGED <<format, data, status, blocks, total, count, pending, start>>

Lz4HeadersAt(p) ==
    IF SegsAt("lz4_block", p) # {} THEN SegsAt("lz4_block", p) ELSE Garbage

\* One pass of the loop over a block whose header is there.
Lz4Block(h) ==
    LET literals == total + (IF h.raw THEN h.size ELSE CHOOSE n \in h.lits : TRUE)
    IN  IF \/ h.size > MaxBlockSize["lz4"]
           \/ pos + 4 + h.size > data.len
           \/ ~h.raw /\ h.lits = {}
           \/ ~WithinTotal(literals)
           \/ ~WithinRatio(literals)
        THEN Fail
        ELSE /\ blocks' = Append(blocks, Block(pos, h.size, literals - total, {}))
             /\ total' = literals
             /\ pos' = pos + 4 + h.size
             /\ UNCHANGED <<format, data, status, phase, count, pending, start>>

Lz4Blocks ==
    /\ Running("lz4") /\ phase = "blocks"
    /\ \/ pos >= data.len /\ Succeed
       \/ pos < data.len /\ Len(blocks) >= MaxBlocks["lz4"] /\ Fail
       \/ /\ pos < data.len /\ Len(blocks) < MaxBlocks["lz4"]
          /\ pos + 4 > data.len
          /\ IF Lz4Framed /\ data.len >= 4 THEN Fail ELSE Succeed
       \/ /\ Len(blocks) < MaxBlocks["lz4"] /\ pos + 4 <= data.len
          /\ \E h \in Lz4HeadersAt(pos) :
                \/ h.size = 0 /\ Succeed
                \/ h.size > 0 /\ Lz4Block(h)

Lz4Next == Lz4Header \/ Lz4Blocks

=============================================================================
