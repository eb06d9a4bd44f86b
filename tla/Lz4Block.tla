------------------------------ MODULE Lz4Block ------------------------------
(***************************************************************************)
(* lz4::extract_literals: the sequences of a block are walked, the literal *)
(* runs gathered up to max_output, the copies skipped.                     *)
(***************************************************************************)
EXTENDS Lz4Format

CONSTANTS
    Sources,        \* blocks an encoder wrote; each is also read cut short
    Arbitrary,      \* byte strings nobody encoded
    Outputs,        \* values of max_output
    MaxBlockSize,   \* MAX_BLOCK_SIZE
    MaxSequences    \* MAX_SEQUENCES_PER_BLOCK

SourceSequences == [lits : Seq(Bytes), offset : Nat, match : Nat]

\* The format holds an offset in two bytes; no run and no copy is longer than
\* the largest block.
Encodable(s) ==
    /\ s \in Seq(SourceSequences)
    /\ \A i \in DOMAIN s : Len(s[i].lits) <= MaxBlockSize
    /\ \A i \in 1..(Len(s) - 1) :
          s[i].match - MinMatch <= MaxBlockSize /\ s[i].offset \div (ByteMax + 1) \in Bytes

ASSUME BlockConstants ==
    /\ Arbitrary \subseteq Seq(Bytes)
    /\ \A s \in Sources : Encodable(s) /\ WellFormed(s)
    /\ Outputs \subseteq Nat
    /\ MaxBlockSize \in Nat /\ MaxSequences \in Nat

VARIABLES
    source,          \* ghost: what was encoded, as a set of one, or none
    compressed,      \* the block
    max_output,
    status,          \* "running", "ok" or "error"
    pos,
    literals,
    sequence_count

vars == <<source, compressed, max_output, status, pos, literals, sequence_count>>

-----------------------------------------------------------------------------

\* decode_length at p: the length and where its bytes end, as a set of one, or
\* none when they run out or the sum passes the largest block.
DecodeLength(p, initial) ==
    {[len |-> initial + k * ByteMax + compressed[p + k + 1], next |-> p + k + 1] :
        k \in {k \in 0..(Len(compressed) - p - 1) :
                  /\ compressed[p + k + 1] < ByteMax
                  /\ \A j \in 0..(k - 1) : compressed[p + j + 1] = ByteMax
                  /\ k > 0 => initial + k * ByteMax <= MaxBlockSize}}

Length(p, nibble) ==
    IF nibble = NibbleMax THEN DecodeLength(p, nibble) ELSE {[len |-> nibble, next |-> p]}

\* The literal run of the sequence at pos, if it lies within the block.
Run ==
    {r \in Length(pos + 1, compressed[pos + 1] \div (NibbleMax + 1)) :
        r.len <= MaxBlockSize /\ r.next + r.len <= Len(compressed)}

\* Where the copy behind p ends: two bytes of offset and the match length.
\* Mutant: the offset is taken to be one byte.
AfterCopyShort(p) ==
    IF p >= Len(compressed) THEN {p}
    ELSE {m.next : m \in {m \in Length(p + 1, compressed[pos + 1] % (NibbleMax + 1)) : p + 1 <= Len(compressed)}}

AfterCopy(p) ==
    IF p >= Len(compressed) THEN {p}
    ELSE {m.next : m \in {m \in Length(p + 2, compressed[pos + 1] % (NibbleMax + 1)) : p + 2 <= Len(compressed)}}

\* Mutant: the cap is compared before the copy and not applied to it.
TakeUncapped(r) == literals \o SubSeq(compressed, r.next + 1, r.next + r.len)

\* Mutant: the run is taken from the last byte of its length on.
TakeFromLength(r) ==
    literals \o SubSeq(compressed, r.next, r.next + Least(r.len, max_output - Len(literals)))

\* Mutant: the run is copied up to the last byte but one.
TakeShort(r) ==
    literals \o SubSeq(compressed, r.next + 1, r.next + Least(r.len, max_output - Len(literals)) - 1)

\* The run, truncated to what max_output still allows.
Take(r) ==
    literals \o SubSeq(compressed, r.next + 1, r.next + Least(r.len, max_output - Len(literals)))

-----------------------------------------------------------------------------

Init ==
    /\ \/ \E s \in Sources : \E n \in 0..Len(Encode(s)) :
             source = {s} /\ compressed = SubSeq(Encode(s), 1, n)
       \/ source = {} /\ compressed \in Arbitrary
    /\ max_output \in Outputs
    /\ status = "running"
    /\ pos = 0 /\ literals = <<>> /\ sequence_count = 0

More == pos < Len(compressed) /\ Len(literals) < max_output

Sequence ==
    /\ status = "running" /\ More
    /\ sequence_count + 1 < MaxSequences
    /\ \E r \in Run : \E next \in AfterCopy(r.next + r.len) :
          /\ pos' = next
          /\ literals' = Take(r)
          /\ sequence_count' = sequence_count + 1
    /\ UNCHANGED <<source, compressed, max_output, status>>

Refuse ==
    /\ status = "running" /\ More
    /\ \/ sequence_count + 1 >= MaxSequences
       \/ \A r \in Run : AfterCopy(r.next + r.len) = {}
    /\ status' = "error"
    /\ UNCHANGED <<source, compressed, max_output, pos, literals, sequence_count>>

Return ==
    /\ status = "running" /\ ~More
    /\ status' = "ok"
    /\ UNCHANGED <<source, compressed, max_output, pos, literals, sequence_count>>

Next == Sequence \/ Refuse \/ Return

Spec == Init /\ [][Next]_vars

-----------------------------------------------------------------------------
(* Properties.                                                             *)

\* pos never passes the end, nor the literals the cap.
TypeOK ==
    /\ \A s \in source : Encodable(s)
    /\ compressed \in Seq(Bytes)
    /\ max_output \in Outputs
    /\ status \in {"running", "ok", "error"}
    /\ pos \in 0..Len(compressed)
    /\ literals \in Seq(Bytes) /\ Len(literals) <= max_output
    /\ sequence_count \in Nat

Intact(s) == compressed = Encode(s)

\* What is gathered is, at every moment, a prefix of the literals the encoder
\* wrote; on the block left whole it is all of them up to the cap, and the
\* block is refused for its number of sequences alone.
ExtractsLiterals ==
    \A s \in source :
        LET wanted == LiteralsIn(s)
        IN  /\ IsPrefix(literals, wanted)
            /\ Intact(s) /\ status = "ok" => Len(literals) = Least(Len(wanted), max_output)
            /\ Intact(s) /\ status = "error" => Len(s) >= MaxSequences

\* "Their total can never exceed the compressed length (tokens, offsets, and
\* match-length bytes consume the rest)": the reservation made up front is never
\* outgrown, and the sequences are no more than the bytes.
CapacitySuffices == Len(literals) + sequence_count <= pos

\* Every byte of the decompressed block is a byte of its literals: a pattern of
\* one byte is never missed, although the copies are skipped.
AlphabetKept ==
    \A s \in source :
        status = "ok" /\ Intact(s) /\ Len(LiteralsIn(s)) <= max_output =>
            ToSet(Decode(s)) \subseteq ToSet(literals)

\* "If your search pattern isn't in the literals, it can't be in the
\* decompressed data": of patterns of any length.
Occurs(p, s) == \E o \in 0..(Len(s) - Len(p)) : p = SubSeq(s, o + 1, o + Len(p))

PatternsKept ==
    \A s \in source :
        status = "ok" /\ Intact(s) /\ Len(LiteralsIn(s)) <= max_output =>
            \A p \in {SubSeq(Decode(s), i, j) : i, j \in DOMAIN Decode(s)} : Occurs(p, literals)

=============================================================================
