----------------------------- MODULE BitReader ------------------------------
(***************************************************************************)
(* gzip::bitstream::BitReader: bits are taken from a word that is refilled *)
(* with whole bytes, while byte_pos and bit_pos say where the next bit is. *)
(*                                                                         *)
(* The data d is a sequence of bits, those of a byte from the lowest up.   *)
(* So is the word.  A read that may fail is a set of at most one result.   *)
(***************************************************************************)
EXTENDS Integers, Sequences

CONSTANT WordBits  \* the width of "buffer": 64

ASSUME ReaderConstants == WordBits \in Nat /\ WordBits >= 8

Bit == {0, 1}

\* The "?" of the code: what follows each result there is, and a result on a
\* condition.
Then(results, F(_)) == UNION {F(a) : a \in results}
OnlyIf(condition, result) == IF condition THEN {result} ELSE {}

\* The value of up to eight bits, the lowest first; no wider value is kept whole.
Number(bits) ==
    LET b(i) == IF i <= Len(bits) THEN bits[i] ELSE 0
        half(i) == b(i) + 2 * b(i + 1) + 4 * b(i + 2) + 8 * b(i + 3)
    IN  half(1) + 16 * half(5)

Zeros(n) == [i \in 1..n |-> 0]

NewReader(start) ==
    [byte_pos |-> start, bit_pos |-> 0, buffer |-> Zeros(WordBits),
     bits_in_buffer |-> 0, next_byte_to_pull |-> start]

\* bit_offset.
Position(r) == 8 * r.byte_pos + r.bit_pos

\* Bytes fit while eight bits of the word are free.
Pulled(d, r) ==
    LET free == (WordBits - r.bits_in_buffer) \div 8
        left == Len(d) \div 8 - r.next_byte_to_pull
    IN  IF free <= left THEN free ELSE left

\* The bytes are OR-ed in above the bits that are there.
Refill(d, r) ==
    LET n == 8 * Pulled(d, r)
    IN  [byte_pos |-> r.byte_pos, bit_pos |-> r.bit_pos,
         buffer |-> [i \in 1..WordBits |->
            IF /\ r.bits_in_buffer < i /\ i <= r.bits_in_buffer + n
               /\ d[8 * r.next_byte_to_pull + (i - r.bits_in_buffer)] = 1
            THEN 1 ELSE r.buffer[i]],
         bits_in_buffer |-> r.bits_in_buffer + n,
         next_byte_to_pull |-> r.next_byte_to_pull + Pulled(d, r)]

\* Mutant: whole bytes are not carried over.
AdvanceInByte(r, n) ==
    [byte_pos |-> r.byte_pos, bit_pos |-> (r.bit_pos + n) % 8,
     buffer |-> SubSeq(r.buffer, n + 1, WordBits) \o Zeros(n),
     bits_in_buffer |-> r.bits_in_buffer - n,
     next_byte_to_pull |-> r.next_byte_to_pull]

\* The word shifted by n bits and the position moved over them.
Advance(r, n) ==
    [byte_pos |-> r.byte_pos + (r.bit_pos + n) \div 8, bit_pos |-> (r.bit_pos + n) % 8,
     buffer |-> SubSeq(r.buffer, n + 1, WordBits) \o Zeros(n),
     bits_in_buffer |-> r.bits_in_buffer - n,
     next_byte_to_pull |-> r.next_byte_to_pull]

Lowest(r, n) == SubSeq(r.buffer, 1, n)

\* read_bits.
Enough(d, r, n) == IF r.bits_in_buffer < n THEN Refill(d, r) ELSE r

ReadBits(d, r, n) ==
    LET f == Enough(d, r, n)
    IN  OnlyIf(f.bits_in_buffer >= n, [reader |-> Advance(f, n), bits |-> Lowest(f, n)])

\* n calls of read_bit: the word is refilled once it is empty.
ReadEachBit(d, r, n) ==
    IF n <= r.bits_in_buffer
    THEN {[reader |-> Advance(r, n), bits |-> Lowest(r, n)]}
    ELSE Then(ReadBits(d, Advance(r, r.bits_in_buffer), n - r.bits_in_buffer), LAMBDA a :
         {[reader |-> a.reader, bits |-> Lowest(r, r.bits_in_buffer) \o a.bits]})

AlignToByte(d, r) ==
    IF r.bit_pos = 0 THEN {r}
    ELSE Then(ReadBits(d, r, 8 - r.bit_pos), LAMBDA a : {a.reader})

ReadU8(d, r) ==
    IF r.bit_pos # 0 THEN {}
    ELSE Then(ReadBits(d, r, 8), LAMBDA a : {[reader |-> a.reader, value |-> Number(a.bits)]})

ReadU16(d, r) ==
    Then(ReadU8(d, r), LAMBDA lo :
    Then(ReadU8(d, lo.reader), LAMBDA hi :
    {[reader |-> hi.reader, value |-> lo.value + 256 * hi.value]}))

\* read_u32_le: the value as its two halves.
ReadU32(d, r) ==
    Then(ReadU16(d, r), LAMBDA lo :
    Then(ReadU16(d, lo.reader), LAMBDA hi :
    {[reader |-> hi.reader, value |-> <<lo.value, hi.value>>]}))

\* Mutant: what is left in the word stays there.
JumpKeepsBuffer(r, end) ==
    [byte_pos |-> end, bit_pos |-> 0, buffer |-> r.buffer,
     bits_in_buffer |-> 0, next_byte_to_pull |-> end]

\* The word is dropped: bytes pulled ahead of the position are pulled again.
Jump(r, end) == NewReader(end)

\* read_bytes takes them from the data, past the word.
ReadBytes(d, r, count) ==
    OnlyIf(r.bit_pos = 0 /\ r.byte_pos + count <= Len(d) \div 8,
           [reader |-> Jump(r, r.byte_pos + count),
            bytes |-> [k \in 1..count |->
                Number(SubSeq(d, 8 * (r.byte_pos + k - 1) + 1, 8 * (r.byte_pos + k)))]])

-----------------------------------------------------------------------------

\* The word holds the bits of the data from the position on, and nothing above
\* them; what was pulled ends where the word's bits end.
ReaderOK(d, r) ==
    /\ r = [byte_pos |-> r.byte_pos, bit_pos |-> r.bit_pos, buffer |-> r.buffer,
            bits_in_buffer |-> r.bits_in_buffer, next_byte_to_pull |-> r.next_byte_to_pull]
    /\ r.byte_pos \in Nat /\ r.bit_pos \in 0..7
    /\ r.bits_in_buffer \in 0..WordBits
    /\ r.next_byte_to_pull \in 0..(Len(d) \div 8)
    /\ Position(r) + r.bits_in_buffer = 8 * r.next_byte_to_pull
    /\ r.buffer \in Seq(Bit) /\ Len(r.buffer) = WordBits
    /\ \A i \in 1..WordBits :
          r.buffer[i] = IF i <= r.bits_in_buffer THEN d[Position(r) + i] ELSE 0

=============================================================================
