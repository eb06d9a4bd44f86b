---------------------------- MODULE MCExtraction ----------------------------
(***************************************************************************)
(* Streams of up to three blocks, chunks, frames or members, of every kind *)
(* of segment, sound and unsound, whole and cut at every byte.             *)
(***************************************************************************)
EXTENDS Extraction, SequencesExt

\* The segments, laid out one behind the other.
Placed(segs) ==
    LET at[i \in 1..Len(segs)] ==
            IF i = 1 THEN 0
            ELSE LET end == SegEnd([segs[i - 1] EXCEPT !.at = at[i - 1]])
                 IN  IF segs[i].kind = "gzip_trailer" THEN 8 * CeilDiv(end, 8) ELSE end
    IN  [i \in DOMAIN segs |-> [segs[i] EXCEPT !.at = at[i]]]

EndOf(segs) == IF segs = <<>> THEN 0 ELSE SegEnd(Last(segs))

\* A stream, whole or, when it has no more than "few" segments, cut anywhere.
Cuts(streams, unit, few) ==
    UNION {LET placed == Placed(s.segs)
               len == CeilDiv(EndOf(placed), unit)
           IN  {[segs |-> placed, closed |-> s.closed, len |-> n] :
                  n \in IF Len(placed) <= few THEN 0..len ELSE {len}} : s \in streams}

Closed(S) == {[segs |-> x, closed |-> TRUE] : x \in S}
Upto(S, n) == BoundedSeq(S, n)
Then(S, T) == {x \o y : x \in S, y \in T}
Big == 18

-----------------------------------------------------------------------------

Lz4B(size, raw, lits) == [kind |-> "lz4_block", at |-> 0, size |-> size, raw |-> raw, lits |-> lits]
Lz4F(ok, content, dict) ==
    <<[kind |-> "lz4_frame", at |-> 0, version_ok |-> ok, content_size |-> content, dict_id |-> dict]>>
EndMark == <<Lz4B(0, FALSE, {0})>>

Lz4Bodies ==
    LET sound == {Lz4B(2, TRUE, {2}), Lz4B(2, FALSE, {1}), Lz4B(2, FALSE, {Big})}
        all == sound \cup {Lz4B(2, FALSE, {}), Lz4B(4, TRUE, {4})}
    IN  Upto(all, 2) \cup Upto(sound, 3)
Lz4Headers == {Lz4F(TRUE, FALSE, FALSE), Lz4F(TRUE, TRUE, FALSE), Lz4F(FALSE, FALSE, FALSE), Lz4F(TRUE, FALSE, TRUE)}
Lz4Inputs ==
    Cuts(Closed({<<>>} \cup Then(Lz4Bodies, {<<>>, EndMark}) \cup Then(Lz4Headers, Then(Lz4Bodies, {EndMark})))
           \cup {[segs |-> x, closed |-> FALSE] : x \in Then({Lz4F(TRUE, FALSE, FALSE)}, Lz4Bodies)}, 1, 3)

MCGarbage == {Lz4B(0, FALSE, {0}), Lz4B(1, TRUE, {1}), Lz4B(4, TRUE, {4})}

-----------------------------------------------------------------------------

Chunk(type, len, lits) == [kind |-> "chunk", at |-> 0, type |-> type, len |-> len, lits |-> lits]
Identifier == <<Chunk("identifier", 6, {0})>>
SoundChunks == {Chunk("compressed", 5, {3}), Chunk("compressed", 5, {Big}), Chunk("raw", 6, {2}), Chunk("padding", 2, {0})}
OddChunks ==
    {Chunk("compressed", 3, {}), Chunk("compressed", 5, {}), Chunk("raw", 4, {0}), Chunk("reserved", 1, {0}),
     Chunk("padding", 8, {0})}
SnappyInputs ==
    Cuts(Closed(Then({<<>>, Identifier}, Upto(SoundChunks, 3) \cup Upto(SoundChunks \cup OddChunks, 2))), 1, 3)

-----------------------------------------------------------------------------

ZstdB(last, type, size, lits) ==
    [kind |-> "zstd_block", at |-> 0, last |-> last, type |-> type, size |-> size, lits |-> lits]
ZstdF(valid, sum) == <<[kind |-> "zstd_frame", at |-> 0, bytes |-> 6, valid |-> valid, checksum |-> sum]>>
Checksum == <<[kind |-> "zstd_checksum", at |-> 0]>>
Skip == [kind |-> "skippable", at |-> 0, size |-> 1]
Junk == <<[kind |-> "junk", at |-> 0, bytes |-> 5]>>

ZstdBs(last) ==
    {ZstdB(last, "raw", 2, {2}), ZstdB(last, "rle", 5, {5}), ZstdB(last, "compressed", 2, {1}),
     ZstdB(last, "compressed", 2, {Big}), ZstdB(last, "compressed", 2, {}), ZstdB(last, "reserved", 1, {}),
     ZstdB(last, "rle", 6, {6})}
Plain(last) == {ZstdB(last, "raw", 2, {2}), ZstdB(last, "rle", 5, {5})}
One(S) == {<<x>> : x \in S}
Frame(bodies) == Then(Then({ZstdF(TRUE, TRUE)}, bodies), {Checksum}) \cup Then({ZstdF(TRUE, FALSE)}, bodies)
Bodies == One(ZstdBs(TRUE)) \cup Then(One(ZstdBs(FALSE)), One(ZstdBs(TRUE)))
Long == Then(Upto(Plain(FALSE), 3), One(Plain(TRUE)))
Small == Frame(One(Plain(TRUE)))
Skips == {[i \in 1..n |-> Skip] : n \in 0..3}
ZstdInputs ==
    Cuts(Closed({<<>>} \cup Frame(Bodies \cup Long) \cup Then({ZstdF(FALSE, FALSE)}, One(Plain(TRUE)))
           \cup Skips \cup Then(Skips, Then(Small, Skips)) \cup Then(Small, Then(Skips, Small)) \cup Then(Small, {Junk})
           \cup Then(Small, Then(Small, Small))), 1, 5)

-----------------------------------------------------------------------------

GzipH(bytes, valid) == <<[kind |-> "gzip_header", at |-> 0, bytes |-> bytes, valid |-> valid]>>
GzipB(final, bits, lits, matches) ==
    [kind |-> "deflate", at |-> 0, final |-> final, bits |-> bits, lits |-> lits, matches |-> matches]
GzipT(crc, decodes, size) == <<[kind |-> "gzip_trailer", at |-> 0, crc |-> crc, decodes |-> decodes, size |-> size]>>

GzipBs(final) ==
    {GzipB(final, 11, {1}, FALSE), GzipB(final, 16, {2}, TRUE), GzipB(final, 16, {Big}, FALSE),
     GzipB(final, 11, {Big + 1}, FALSE), GzipB(final, 11, {}, FALSE)}
Trailers == {GzipT(TRUE, TRUE, 4), GzipT(FALSE, FALSE, 4), GzipT(TRUE, FALSE, 4)}
Ends(S) == Then(S, {GzipT(TRUE, TRUE, 4)})
Member == Ends(Then({GzipH(10, TRUE)}, One({GzipB(TRUE, 11, {1}, FALSE), GzipB(TRUE, 16, {2}, TRUE)})))
GzipBodies == One(GzipBs(TRUE)) \cup Then(One(GzipBs(FALSE)), One(GzipBs(TRUE)))
GzipInputs ==
    Cuts(Closed({<<>>} \cup Then(Then({GzipH(10, TRUE), GzipH(12, TRUE)}, GzipBodies), Trailers)
           \cup Ends(Then({GzipH(10, FALSE)}, One(GzipBs(TRUE))))
           \cup Then(Then({GzipH(10, TRUE)}, One({GzipB(TRUE, 16, {2}, TRUE)})), {GzipT(TRUE, TRUE, 21)})
           \cup Ends({GzipH(10, TRUE) \o [i \in 1..3 |-> GzipB(FALSE, 11, {1}, FALSE)] \o <<GzipB(TRUE, 16, {2}, TRUE)>>})
           \cup Then(Member, Member) \cup Then(Member, Then(Member, Member))), 8, 3)

-----------------------------------------------------------------------------

MCInputs ==
    [f \in Formats |-> CASE f = "lz4"    -> Lz4Inputs
                         [] f = "snappy" -> SnappyInputs
                         [] f = "zstd"   -> ZstdInputs
                         [] f = "gzip"   -> GzipInputs]
MCMaxBlockSize ==
    [f \in Formats |-> CASE f = "lz4" -> 3 [] f = "snappy" -> 7 [] f = "zstd" -> 5 [] f = "gzip" -> Big]
MCMaxBlocks == [f \in Formats |-> 3]

=============================================================================
