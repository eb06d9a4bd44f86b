--------------------------- MODULE StreamFormats ----------------------------
(***************************************************************************)
(* What an input means, independent of how it is parsed: where each format *)
(* ends a segment (SegEnd), the literal bytes the segment carries          *)
(* (SegLiterals), whether a decoder takes it (SegSound), and in which order*)
(* segments follow each other.                                             *)
(***************************************************************************)
EXTENDS StreamBase, Functions

\* Sizes are sizes, and a block has one number of literals or none.
SegOK(s) ==
    /\ s.at \in Nat
    /\ s.kind \in {"lz4_block", "skippable", "zstd_block"} => s.size \in Nat
    /\ s.kind = "chunk" => s.len \in Nat /\ s.type \in {"identifier", "compressed", "raw", "padding", "reserved"}
    /\ s.kind = "chunk" /\ s.type = "compressed" /\ s.len < 4 => s.lits = {}
    /\ s.kind \in {"zstd_frame", "gzip_header", "junk"} => s.bytes \in Nat \ {0}
    /\ s.kind = "zstd_frame" => s.bytes >= 4
    /\ s.kind = "gzip_header" /\ s.valid => s.bytes >= 10
    /\ s.kind = "zstd_block" => s.type \in {"raw", "rle", "compressed", "reserved"}
    /\ s.kind = "deflate" => s.bits \in Nat \ {0}
    /\ s.kind \in {"lz4_block", "chunk", "zstd_block", "deflate"} =>
          s.lits \subseteq Nat /\ \A m, n \in s.lits : m = n

ASSUME InputTypes ==
    /\ \A f \in Formats : \A d \in Inputs[f] : d.len \in Nat /\ \A i \in DOMAIN d.segs : SegOK(d.segs[i])
    /\ \A h \in Garbage : h.kind = "lz4_block" /\ SegOK(h)

\* The dictionary id of an LZ4 frame takes four bytes.
SegEnd(s) ==
    s.at + CASE s.kind = "lz4_frame"    -> 7 + (IF s.content_size THEN 8 ELSE 0) + (IF s.dict_id THEN 4 ELSE 0)
             [] s.kind = "lz4_block"    -> 4 + s.size
             [] s.kind = "chunk"        -> 4 + s.len
             [] s.kind = "zstd_frame"   -> s.bytes
             [] s.kind = "skippable"    -> 8 + s.size
             [] s.kind = "zstd_block"   -> 3 + (IF s.type = "rle" THEN 1 ELSE s.size)
             [] s.kind = "zstd_checksum" -> 4
             [] s.kind = "junk"         -> s.bytes
             [] s.kind = "gzip_header"  -> 8 * s.bytes
             [] s.kind = "deflate"      -> s.bits
             [] s.kind = "gzip_trailer" -> 64

SegLiterals(s) ==
    CASE s.kind = "lz4_block"  -> IF s.raw THEN {s.size} ELSE s.lits
      [] s.kind = "chunk"      -> CASE s.type = "compressed" -> s.lits
                                    [] s.type = "raw"        -> {s.len - 4}
                                    [] OTHER                 -> {0}
      [] s.kind = "zstd_block" -> IF s.type = "compressed" THEN s.lits ELSE {s.size}
      [] s.kind = "deflate"    -> s.lits
      [] OTHER                 -> {0}

\* Whether a decoder of the format takes the segment.
SegSound(s) ==
    /\ SegLiterals(s) # {}
    /\ s.kind = "lz4_frame" => s.version_ok
    /\ s.kind \in {"zstd_frame", "gzip_header"} => s.valid
    /\ s.kind = "gzip_trailer" => s.crc /\ s.decodes
    /\ s.kind = "chunk" => s.type # "reserved" /\ (s.type = "raw" => s.len > 4)
    /\ s.kind = "zstd_block" => s.type # "reserved"
    /\ s.kind # "junk"

-----------------------------------------------------------------------------
(* The order of segments.                                                   *)

KindsOf(f) ==
    CASE f = "lz4"    -> {"lz4_frame", "lz4_block"}
      [] f = "snappy" -> {"chunk"}
      [] f = "zstd"   -> {"zstd_frame", "skippable", "zstd_block", "zstd_checksum", "junk"}
      [] f = "gzip"   -> {"gzip_header", "deflate", "gzip_trailer"}

\* S lies from 0 on without a gap, as far as it goes.
Gapless(S) ==
    /\ S # {} => \E s \in S : s.at = 0
    /\ \A s \in S : (\E t \in S : t.at = SegEnd(s)) \/ (\A t \in S : SegEnd(t) <= SegEnd(s))

\* Kinds a Zstd frame or what stands in front of one may start with.
Heads == {"zstd_frame", "skippable", "junk"}

\* The block b ends the frame whose header is f.
ClosesFrame(S, f, b) ==
    /\ f.kind = "zstd_frame" /\ b.kind = "zstd_block" /\ b.last /\ f.at < b.at
    /\ \A t \in S : f.at < t.at /\ t.at < b.at => t.kind = "zstd_block" /\ ~t.last

\* The order of segments in each format.  LZ4: a frame header leads, an end
\* mark trails.  Snappy: the identifier is "sNaPpY".  Zstd: a frame ends in its
\* checksum if it has one; what is no frame at all stands last.  gzip: a trailer
\* is at the next byte.
LaidOut(f, S) ==
    CASE f = "lz4" ->
            /\ \A s \in S : s.kind = "lz4_frame" => s.at = 0
            /\ \A s \in S : s.kind = "lz4_block" /\ s.size = 0 =>
                  SegLiterals(s) = {0} /\ \A t \in S : t.at <= s.at
      [] f = "snappy" -> \A s \in S : s.at = 0 /\ s.type = "identifier" => s.len = 6
      [] f = "zstd" ->
            /\ \A s \in S : s.at = 0 => s.kind \in Heads
            /\ \A s, t \in S : s.kind \in {"skippable", "zstd_checksum"} /\ t.at = SegEnd(s) => t.kind \in Heads
            /\ \A s, b, t \in S : ClosesFrame(S, s, b) /\ t.at = SegEnd(b) =>
                  t.kind \in (IF s.checksum THEN {"zstd_checksum"} ELSE Heads)
            /\ \A s, t \in S : s.kind = "junk" => t.at <= s.at
      [] f = "gzip" ->
            \A s, t \in S : s.kind = "deflate" /\ s.final /\ SegEnd(s) <= t.at => 8 * CeilDiv(SegEnd(s), 8) <= t.at

\* What a writer that closed the stream has not left out: the blocks, the last
\* of them, and what follows it.
Finished(f, S) ==
    CASE f = "zstd" ->
            /\ \A s \in S : s.kind = "zstd_frame" \/ (s.kind = "zstd_block" /\ ~s.last) =>
                  \E t \in S : t.kind = "zstd_block" /\ t.at = SegEnd(s)
            /\ \A s, b \in S : ClosesFrame(S, s, b) /\ s.checksum => \E t \in S : t.at = SegEnd(b)
      [] f = "gzip" ->
            /\ S # {} => \E s \in S : s.kind = "gzip_header" /\ s.at = 0
            /\ \A s \in S : s.kind = "gzip_header" \/ (s.kind = "deflate" /\ ~s.final) =>
                  \E t \in S : t.kind = "deflate" /\ t.at = SegEnd(s)
            /\ \A s \in S : s.kind = "deflate" /\ s.final =>
                  \E t \in S : t.kind = "gzip_trailer" /\ t.at = 8 * CeilDiv(SegEnd(s), 8)
            /\ \A s \in S : s.kind = "gzip_trailer" =>
                  \/ \E t \in S : t.kind = "gzip_header" /\ t.at = SegEnd(s)
                  \/ \A t \in S : SegEnd(t) <= SegEnd(s)
      [] OTHER -> TRUE

\* An input is what a writer laid out, one segment behind the other, cut
\* anywhere.
ASSUME InputLayout ==
    \A f \in Formats : \A d \in Inputs[f] :
        LET S == {d.segs[i] : i \in DOMAIN d.segs}
        IN  /\ IsFiniteSet(S) /\ Len(d.segs) \in Nat /\ DOMAIN d.segs = 1..Len(d.segs)
            /\ \A s \in S : s.kind \in KindsOf(f)
            /\ \A s, t \in S : s = t \/ SegEnd(s) <= t.at \/ SegEnd(t) <= s.at
            /\ \A i, j \in DOMAIN d.segs : i < j => d.segs[i].at < d.segs[j].at
            /\ f # "gzip" => Gapless(S)
            /\ LaidOut(f, S)
            /\ d.closed => Finished(f, S)
            /\ d.len > 0 => \E s \in S : d.len <= CeilDiv(SegEnd(s), IF f = "gzip" THEN 8 ELSE 1)

-----------------------------------------------------------------------------
(* What the input at hand holds.                                           *)

Scale == IF format = "gzip" THEN 8 ELSE 1

Segs == {data.segs[i] : i \in DOMAIN data.segs}

\* The segments that are there to their last byte.
Present(s) == SegEnd(s) <= Scale * data.len

LiteralsIn(s) == IF SegLiterals(s) = {} THEN 0 ELSE CHOOSE n \in SegLiterals(s) : TRUE
LiteralsOf(S) == SumFunction([s \in S |-> LiteralsIn(s)])

\* The code reads a dictionary id as one byte, and is out of step behind it.
InStep == \A s \in Segs : s.kind = "lz4_frame" => ~s.dict_id

\* A whole stream, as an encoder leaves it.
Whole == InStep /\ data.len > 0 /\ data.closed /\ \A s \in Segs : SegSound(s) /\ Present(s)

=============================================================================
