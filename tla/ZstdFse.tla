------------------------------- MODULE ZstdFse -------------------------------
(***************************************************************************)
(* zstd::fse: the distribution an FSE table is described by, and the       *)
(* decoding table that is built from it.                                   *)
(***************************************************************************)
EXTENDS ReversedReader, SequencesExt, FiniteSets

CONSTANTS
    AccLogOffset,  \* ACC_LOG_OFFSET: 5
    MaxSymbol      \* max_symbol: 255

\* A step of the spread is odd from 16 cells on; a weight of four bits is a symbol.
ASSUME FseConstants == AccLogOffset \in Nat /\ AccLogOffset >= 4 /\ MaxSymbol \in Nat /\ MaxSymbol >= 15

HighestBitSet(x) == CHOOSE n \in 0..x : x < 2^n /\ (n = 0 \/ 2^(n - 1) <= x)

\* The next probability, of which "left" are still to be given, and the bits it
\* takes, one fewer where the value is small.
ProbabilityAt(d, at, left) ==
    LET most == left + 1
        n == HighestBitSet(most)
        low == (2^n - 1) - most
        small(v) == v % 2^(n - 1)
        read(v) == IF small(v) < low THEN [prob |-> small(v) - 1, used |-> n - 1]
                   ELSE IF v >= 2^(n - 1) THEN [prob |-> v - low - 1, used |-> n]
                   ELSE [prob |-> v - 1, used |-> n]
    IN  {read(ValueOf(bits)) : bits \in BitsAt(d, at, n)}

\* What a probability takes of the table.
Share(p) == IF p = -1 THEN 1 ELSE p
Shared(probs) == SumFunction([i \in DOMAIN probs |-> Share(probs[i])])

NextPosition(p, size) == (p + size \div 2 + size \div 8 + 3) % size

\* The next position that is not below the entries of probability -1.
NextFree(p, size, top) ==
    LET at[j \in 0..size] == IF j = 0 THEN p ELSE NextPosition(at[j - 1], size)
        j == CHOOSE j \in 1..size : at[j] < top /\ \A i \in 1..(j - 1) : at[i] >= top
    IN  at[j]

\* Every symbol as often as its probability says.
Occurrences(probs) ==
    FlattenSeq([i \in DOMAIN probs |-> [k \in 1..(IF probs[i] > 0 THEN probs[i] ELSE 0) |-> i - 1]])

Put(s, size, top, symbol) ==
    [position |-> NextFree(s.position, size, top), cells |-> [s.cells EXCEPT ![s.position] = symbol]]

\* The symbols in the cells below top, spread over them.
Spread(size, top, probs) ==
    LET symbols == Occurrences(probs)
        after[k \in 0..Len(symbols)] ==
            IF k = 0 THEN [position |-> 0, cells |-> [idx \in 0..(top - 1) |-> 0]]
            ELSE Put(after[k - 1], size, top, symbols[k])
    IN  after[Len(symbols)].cells

\* A power of two of slices, at least one for each state.  Mutant: rounded down.
SlicesDown(prob) == 2^(HighestBitSet(prob) - 1)
Slices(prob) == IF 2^(HighestBitSet(prob) - 1) = prob THEN prob ELSE 2^HighestBitSet(prob)

\* calc_baseline_and_numbits of state n of a symbol; the first take two slices.
Baseline(size, prob, n) ==
    LET double == Slices(prob) - prob
        width == size \div Slices(prob)
        bits == HighestBitSet(width) - 1
    IN  IF n < double
        THEN [base_line |-> (prob - double) * width + n * width * 2, num_bits |-> bits + 1]
        ELSE [base_line |-> (n - double) * width, num_bits |-> bits]

\* build_decoding_table: a set of one table, or of none.
DecodingTable(log, probs) ==
    LET size == 2^log
        rare == {i \in DOMAIN probs : probs[i] = -1}
        top == size - Cardinality(rare)
        cells == Spread(size, top, probs)
        low(idx) == LET n == Cardinality({i \in 0..(idx - 1) : cells[i] = cells[idx]})
                        b == Baseline(size, probs[cells[idx] + 1], n)
                    IN  [symbol |-> cells[idx], base_line |-> b.base_line, num_bits |-> b.num_bits]
        high(idx) == LET i == CHOOSE i \in rare : Cardinality({j \in rare : j <= i}) = size - idx
                     IN  [symbol |-> i - 1, base_line |-> 0, num_bits |-> log]
        table == [idx \in 0..(size - 1) |-> IF idx < top THEN low(idx) ELSE high(idx)]
    IN  IF Len(probs) <= MaxSymbol + 1 /\ \A idx \in 0..(top - 1) : table[idx].num_bits <= log
        THEN {table} ELSE {}

=============================================================================
