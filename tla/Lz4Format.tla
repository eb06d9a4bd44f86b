----------------------------- MODULE Lz4Format ------------------------------
(***************************************************************************)
(* The LZ4 block format, as an encoder writes it and a decoder reads it,   *)
(* independent of the parser: what the literals are meant to stand for.    *)
(*                                                                         *)
(* A block is a sequence of [lits, offset, match]: literal bytes, then a   *)
(* copy of "match" bytes from "offset" bytes back.  The last has no copy.  *)
(* The radix is a parameter: a byte is at most ByteMax (255), half a token *)
(* at most NibbleMax (15).                                                 *)
(***************************************************************************)
EXTENDS Integers, Sequences, SequencesExt

CONSTANTS ByteMax, NibbleMax, MinMatch

ASSUME FormatConstants ==
    /\ NibbleMax \in Nat \ {0}
    /\ ByteMax = NibbleMax * (NibbleMax + 1) + NibbleMax
    /\ MinMatch \in Nat

Bytes == 0..ByteMax

Least(a, b) == IF a <= b THEN a ELSE b

\* The bytes of a length that does not fit its half of the token.
LengthBytes(n) ==
    IF n < NibbleMax THEN <<>>
    ELSE [i \in 1..((n - NibbleMax) \div ByteMax) |-> ByteMax] \o <<(n - NibbleMax) % ByteMax>>

EncodeSequence(s, last) ==
    LET copied == IF last THEN 0 ELSE s.match - MinMatch
        token  == Least(Len(s.lits), NibbleMax) * (NibbleMax + 1) + Least(copied, NibbleMax)
    IN  <<token>> \o LengthBytes(Len(s.lits)) \o s.lits \o
        IF last THEN <<>>
        ELSE <<s.offset % (ByteMax + 1), s.offset \div (ByteMax + 1)>> \o LengthBytes(copied)

Encode(source) == FlattenSeq([i \in DOMAIN source |-> EncodeSequence(source[i], i = Len(source))])

LiteralsIn(source) == FlattenSeq([i \in DOMAIN source |-> source[i].lits])

\* "out" with n bytes from "offset" back appended: a copy may overlap itself.
CopyBack(out, offset, n) ==
    out \o [j \in 1..n |-> out[Len(out) - offset + 1 + ((j - 1) % offset)]]

Decode(source) ==
    LET upto[i \in 0..Len(source)] ==
            IF i = 0 THEN <<>>
            ELSE LET out == upto[i - 1] \o source[i].lits
                 IN  IF i = Len(source) THEN out ELSE CopyBack(out, source[i].offset, source[i].match)
    IN  upto[Len(source)]

\* A copy reaches back into what is there.
WellFormed(source) ==
    \A i \in 1..(Len(source) - 1) :
        /\ source[i].match >= MinMatch
        /\ source[i].offset \in 1..Len(Decode(SubSeq(source, 1, i - 1) \o <<source[i]>>))

=============================================================================
