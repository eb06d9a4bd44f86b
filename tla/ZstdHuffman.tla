----------------------------- MODULE ZstdHuffman -----------------------------
(***************************************************************************)
(* zstd::huffman, HuffmanTable::build_table_from_weights: from the weights *)
(* of the symbols, all but the last, the table that decodes them.          *)
(***************************************************************************)
EXTENDS ZstdFse

CONSTANT MaxMaxNumBits  \* MAX_MAX_NUM_BITS: 11

ASSUME HuffmanConstants == MaxMaxNumBits \in Nat

Kraft(weights) == SumFunction([i \in DOMAIN weights |-> IF weights[i] > 0 THEN 2^(weights[i] - 1) ELSE 0])

PowersOfTwo == {2^n : n \in 0..MaxMaxNumBits}

\* The weight that is not written.  Mutant: one less.
LastWeightShort(left) == HighestBitSet(left) - 1
LastWeight(left) == HighestBitSet(left)

\* The widest code, and the number of bits of every symbol, 0 where it has none;
\* the last symbol has what is left over to the next power of two.
CodeBits(weights) ==
    LET max == HighestBitSet(Kraft(weights))
        bits(w) == IF w > 0 THEN max + 1 - w ELSE 0
    IN  {[max |-> max, bits |-> [i \in DOMAIN weights |-> bits(weights[i])] \o <<bits(LastWeight(left))>>] :
            left \in {n \in PowersOfTwo : /\ \A i \in DOMAIN weights : weights[i] <= MaxMaxNumBits
                                          /\ Kraft(weights) > 0 /\ max <= MaxMaxNumBits
                                          /\ n = 2^max - Kraft(weights)}}

\* rank_indexes once the ranks are summed: where the codes of a width begin.
Rank(c, bits) ==
    SumFunction([i \in DOMAIN c.bits |-> IF c.bits[i] > bits THEN 2^(c.max - c.bits[i]) ELSE 0])

\* The entries of symbol i, counted from 1.
Entries(c, i) ==
    LET before == Cardinality({j \in 1..(i - 1) : c.bits[j] = c.bits[i]})
        first == Rank(c, c.bits[i]) + before * 2^(c.max - c.bits[i])
    IN  IF c.bits[i] = 0 THEN {} ELSE first..(first + 2^(c.max - c.bits[i]) - 1)

\* The table: a set of one, or of none.  A symbol is a byte, entries of a later
\* symbol are written over those of an earlier one.
HuffmanTables(weights) ==
    {LET own == [i \in DOMAIN c.bits |-> Entries(c, i)]
         owners(idx) == {i \in DOMAIN own : idx \in own[i]}
         entry(i) == [symbol |-> (i - 1) % 256, num_bits |-> c.bits[i]]
     IN  [max |-> c.max,
          decode |-> [idx \in 0..(2^c.max - 1) |->
             IF owners(idx) = {} THEN [symbol |-> 0, num_bits |-> 0]
             ELSE entry(CHOOSE i \in owners(idx) : \A j \in owners(idx) : j <= i)]] :
        c \in {c \in CodeBits(weights) : Rank(c, 0) = 2^c.max}}

=============================================================================
