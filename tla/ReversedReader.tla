--------------------------- MODULE ReversedReader ---------------------------
(***************************************************************************)
(* zstd::bit_io: bits read forwards from a place, and BitReaderReversed,   *)
(* which reads the bits of a string from its last to its first through a   *)
(* word that is refilled with whole bytes, and zeroes behind the first.    *)
(*                                                                         *)
(* A string is a sequence of bits, those of a byte from the lowest up; so  *)
(* is the word.                                                            *)
(***************************************************************************)
EXTENDS Integers, Sequences

CONSTANT WordBits  \* the width of "bit_container": 64

ASSUME ReaderConstants == WordBits \in Nat /\ WordBits % 8 = 0 /\ WordBits >= 16

Bit == {0, 1}
Zeros(n) == [i \in 1..n |-> 0]

\* The number whose bits these are, the lowest first.
ValueOf(bits) ==
    LET from[n \in 0..Len(bits)] == IF n = 0 THEN 0 ELSE bits[Len(bits) - n + 1] + 2 * from[n - 1]
    IN  from[Len(bits)]

\* BitReader::get_bits: the n bits at a place, as a set of one, or of none.
BitsAt(d, at, n) == IF at + n <= Len(d) THEN {SubSeq(d, at + 1, at + n)} ELSE {}

-----------------------------------------------------------------------------

NewReversed(s) ==
    [index |-> Len(s) \div 8, bits_consumed |-> WordBits, extra_bits |-> 0, bit_container |-> Zeros(WordBits)]

BitsRemaining(r) == 8 * r.index + (WordBits - r.bits_consumed) - r.extra_bits

\* The word whose lowest byte is byte i; of a string too short, with zeroes above.
Word(s, i) == [k \in 1..WordBits |-> IF 8 * i + k <= Len(s) THEN s[8 * i + k] ELSE 0]

\* Mutant: by whole bytes only.
ShiftUpBytes(word, n) == [k \in 1..WordBits |-> IF k <= 8 * (n \div 8) THEN 0 ELSE word[k - 8 * (n \div 8)]]
ShiftUp(word, n) == [k \in 1..WordBits |-> IF k <= n THEN 0 ELSE word[k - n]]

\* extra_bits: what was read behind the first bit.  Mutant: they are not counted.
ExtraUncounted(r, over) == r.extra_bits
Extra(r, over) == r.extra_bits + over

\* refill: the word moves down by the bytes that are used up, or to the first
\* byte of the string, or makes room by zeroes below.
Refill(s, r) ==
    LET bytes == r.bits_consumed \div 8
        over == r.bits_consumed - 8 * r.index
    IN  IF bytes = 0 THEN r
        ELSE IF bytes <= r.index
        THEN [index |-> r.index - bytes, bits_consumed |-> r.bits_consumed % 8,
              extra_bits |-> r.extra_bits, bit_container |-> Word(s, r.index - bytes)]
        ELSE [index |-> 0, bits_consumed |-> 0, extra_bits |-> Extra(r, over),
              bit_container |-> ShiftUp(IF r.index > 0 THEN Word(s, 0) ELSE r.bit_container, over)]

\* get_bits: the reader it leaves, and the bits, the lowest first.
Room(s, r, n) == IF r.bits_consumed + n > WordBits THEN Refill(s, r) ELSE r

Consume(s, r, n) == [Room(s, r, n) EXCEPT !.bits_consumed = @ + n]

Peek(s, r, n) ==
    LET f == Room(s, r, n)
    IN  SubSeq(f.bit_container, WordBits - f.bits_consumed - n + 1, WordBits - f.bits_consumed)

-----------------------------------------------------------------------------
(* What it is meant to read.                                               *)

\* Bit number k, from 0, of the string read backwards.
Backwards(s, k) == IF k < Len(s) THEN s[Len(s) - k] ELSE 0

\* The word lies within the string, and holds at its top what comes next.
AheadAgrees(s, r) ==
    /\ r \in [index : 0..(Len(s) \div 8), bits_consumed : 0..WordBits, extra_bits : Nat,
              bit_container : [1..WordBits -> Bit]]
    /\ \/ r.index = 0
       \/ /\ r.extra_bits = 0
          /\ \/ 8 * r.index = Len(s) /\ r.bits_consumed = WordBits
             \/ 8 * r.index + WordBits <= Len(s)
    /\ \A k \in 0..(WordBits - r.bits_consumed - 1) :
          r.bit_container[WordBits - r.bits_consumed - k] = Backwards(s, Len(s) - BitsRemaining(r) + k)

=============================================================================
