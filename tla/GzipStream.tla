----------------------------- MODULE GzipStream -----------------------------
(***************************************************************************)
(* gzip::extract_literals: members one behind the other, each a header,    *)
(* DEFLATE blocks up to the final one, and a trailer on a byte boundary.   *)
(* "pos" is in bits.                                                       *)
(*                                                                         *)
(* Segments: "gzip_header" [bytes, valid], "deflate" [bits, final, matches,*)
(* lits] with "lits" a set of one or, for a block the decoder refuses,     *)
(* none, and "gzip_trailer" [crc, decodes, size]: whether the CRC is that  *)
(* of the member's data, whether flate2 decodes the member, and to what.   *)
(***************************************************************************)
EXTENDS StreamBase

CONSTANT MaxMembers  \* 1024

ASSUME GzipConstants == MaxMembers \in Nat

\* parse_gzip_member up to the DEFLATE stream.  "pending" is had_matches.
GzipHeader ==
    /\ Running("gzip") /\ phase = "header"
    /\ \/ data.len = 0 /\ Fail
       \/ data.len > 0 /\ pos >= 8 * data.len /\ Succeed
       \/ pos < 8 * data.len /\ pos + 80 > 8 * data.len /\ Fail
       \/ /\ pos + 80 <= 8 * data.len
          /\ \E h \in SegsAt("gzip_header", pos) :
                IF ~h.valid \/ pos + 8 * h.bytes > 8 * data.len
                THEN Fail
                ELSE /\ pos' = pos + 8 * h.bytes
                     /\ phase' = "blocks"
                     /\ pending' = 0
                     /\ UNCHANGED <<format, data, status, blocks, total, count, start>>

\* compressed_len, from used_bits.  Mutant: a byte is always begun.
UsedBytesAndOne(bits) == bits \div 8 + 1
UsedBytes(bits) == CeilDiv(bits, 8)

\* One pass of the loop of parse_deflate_stream over a block.
Deflate(h) ==
    LET literals == total + (CHOOSE n \in h.lits : TRUE)
    IN  IF \/ pos + h.bits > 8 * data.len
           \/ h.lits = {}
           \/ literals - total > MaxBlockSize["gzip"]
           \/ ~WithinTotal(literals)
        THEN Fail
        ELSE /\ blocks' = Append(blocks, Block(pos \div 8, UsedBytes(h.bits), literals - total, {}))
             /\ total' = literals
             /\ pos' = pos + h.bits
             /\ pending' = IF h.matches THEN 1 ELSE pending
             /\ phase' = IF h.final THEN "trailer" ELSE "blocks"
             /\ UNCHANGED <<format, data, status, count, start>>

GzipDeflate ==
    /\ Running("gzip") /\ phase = "blocks"
    /\ \/ Len(blocks) >= MaxBlocks["gzip"] /\ Fail
       \/ /\ Len(blocks) < MaxBlocks["gzip"]
          /\ \/ pos >= 8 * data.len /\ Fail
             \/ pos < 8 * data.len /\ \E h \in SegsAt("deflate", pos) : Deflate(h)

\* With back-references the literals are not the data: the member is decoded
\* a second time.  Without, their CRC is compared and the length is not.
TrailerIntact(h) == IF pending = 1 THEN h.decodes /\ WithinTotal(h.size) ELSE h.crc

\* The two read_u32_le behind align_to_byte.  Mutant: they are not behind it.
TrailerFitsUnaligned == pos \div 8 + 8 <= data.len
TrailerFits == CeilDiv(pos, 8) + 8 <= data.len

GzipTrailer ==
    /\ Running("gzip") /\ phase = "trailer"
    /\ IF ~TrailerFits
       THEN Fail
       ELSE \E h \in SegsAt("gzip_trailer", 8 * CeilDiv(pos, 8)) :
              IF ~TrailerIntact(h) \/ count + 1 >= MaxMembers
              THEN Fail
              ELSE /\ pos' = 8 * (CeilDiv(pos, 8) + 8)
                   /\ count' = count + 1
                   /\ phase' = "header"
                   /\ UNCHANGED <<format, data, status, blocks, total, pending, start>>

GzipNext == GzipHeader \/ GzipDeflate \/ GzipTrailer

=============================================================================
