------------------------- MODULE ZstdLiteralsFormat -------------------------
(***************************************************************************)
(* The literals section of Zstd as an encoder writes it: sizes, a Huffman  *)
(* tree given by the weights of all symbols but the last, plainly or FSE   *)
(* coded, and one stream or four that are read from their ends.            *)
(***************************************************************************)
EXTENDS Integers, Sequences, SequencesExt, FiniteSets

LowFirst(n, w) == [k \in 1..w |-> (n \div 2^(k - 1)) % 2]
HighFirst(n, w) == Reverse(LowFirst(n, w))
ByteBits(bytes) == FlattenSeq([i \in DOMAIN bytes |-> LowFirst(bytes[i], 8)])

\* What a reader from the end is to see, behind a one that ends the padding.
FromEnd(seen) ==
    LET pad == (7 * (Len(seen) + 1)) % 8
    IN  Reverse([i \in 1..pad |-> 0] \o <<1>> \o seen)

\* The header of a section of a type: 0 raw, 1 RLE, 2 compressed.
Widths(type, format) ==
    IF type < 2 THEN (CASE format \in {0, 2} -> <<5>> [] format = 1 -> <<12>> [] format = 3 -> <<20>>)
    ELSE (CASE format \in {0, 1} -> <<10, 10>> [] format = 2 -> <<14, 14>> [] format = 3 -> <<18, 18>>)

SectionHeader(type, format, size, coded) ==
    LET w == Widths(type, format)
        short == type < 2 /\ format \in {0, 2}
    IN  LowFirst(type, 2) \o (IF short THEN LowFirst(format, 1) ELSE LowFirst(format, 2))
        \o LowFirst(size, w[1]) \o (IF type < 2 THEN <<>> ELSE LowFirst(coded, w[2]))

RawSection(format, lits) == SectionHeader(0, format, Len(lits), 0) \o ByteBits(lits)
RleSection(format, lits) == SectionHeader(1, format, Len(lits), 0) \o LowFirst(lits[1], 8)

-----------------------------------------------------------------------------
(* The prefix code of a list of weights that is complete.                  *)

Weighs(w) == IF w = 0 THEN 0 ELSE 2^(w - 1)
TotalWeight(ws) == FoldLeft(LAMBDA sum, w : sum + Weighs(w), 0, ws)

\* On a line as long as all of them, lighter symbols come first.
CodeOf(ws, i) ==
    LET wide == CHOOSE n \in 0..20 : 2^n = TotalWeight(ws)
        before == SelectSeq([j \in DOMAIN ws |-> IF ws[j] < ws[i] \/ (ws[j] = ws[i] /\ j < i) THEN ws[j] ELSE 0],
                            LAMBDA w : w > 0)
    IN  HighFirst(TotalWeight(before) \div Weighs(ws[i]), wide + 1 - ws[i])

\* Literals are symbols, from 0.
Stream(ws, lits) == FromEnd(FlattenSeq([i \in DOMAIN lits |-> CodeOf(ws, lits[i] + 1)]))

FourStreams(ws, parts) ==
    LET s == [k \in 1..4 |-> IF parts[k] = <<>> THEN <<>> ELSE Stream(ws, parts[k])]
    IN  LowFirst(Len(s[1]) \div 8, 16) \o LowFirst(Len(s[2]) \div 8, 16) \o LowFirst(Len(s[3]) \div 8, 16)
        \o s[1] \o s[2] \o s[3] \o s[4]

CodedSection(format, description, ws, parts) ==
    LET body == description \o IF format = 0 THEN Stream(ws, parts[1]) ELSE FourStreams(ws, parts)
    IN  SectionHeader(2, format, Len(FlattenSeq(parts)), Len(body) \div 8) \o body

\* Two weights to a byte, the first above the second.
DirectTree(ws) ==
    LET explicit == Front(ws)
        w(i) == IF i <= Len(explicit) THEN explicit[i] ELSE 0
    IN  LowFirst(127 + Len(explicit), 8)
        \o FlattenSeq([k \in 1..((Len(explicit) + 1) \div 2) |-> LowFirst(16 * w(2 * k - 1) + w(2 * k), 8)])

-----------------------------------------------------------------------------
(* Weights that are FSE coded.  A distribution gives each weight, from 0   *)
(* up, its part of 2^log, -1 for a part of one at the end of the table.    *)

Part(p) == IF p = -1 THEN 1 ELSE p
Given(probs, i) == FoldLeft(LAMBDA sum, p : sum + Part(p), 0, SubSeq(probs, 1, i - 1))

\* A value of most + 1, in as few bits as tell them apart.
Shortest(v, most) ==
    LET n == CHOOSE n \in 1..20 : 2^(n - 1) <= most /\ most < 2^n
        spare == 2^n - 1 - most
    IN  IF v < spare THEN LowFirst(v, n - 1)
        ELSE IF v < 2^(n - 1) THEN LowFirst(v, n) ELSE LowFirst(v + spare, n)

\* A zero is followed by the number of zeros behind it, by threes.
Distribution(log, probs) ==
    LET behind(i) == Cardinality({j \in (i + 1)..Len(probs) : \A k \in i..j : probs[k] = 0})
        written(i) == probs[i] # 0 \/ i = 1 \/ probs[i - 1] # 0
        bits(i) == Shortest(probs[i] + 1, 2^log - Given(probs, i) + 1)
                   \o IF probs[i] # 0 THEN <<>>
                      ELSE [k \in 1..(2 * (behind(i) \div 3)) |-> 1] \o LowFirst(behind(i) % 3, 2)
        all == LowFirst(log - 5, 4) \o FlattenSeq([i \in DOMAIN probs |-> IF written(i) THEN bits(i) ELSE <<>>])
    IN  all \o [k \in 1..((7 * Len(all)) % 8) |-> 0]

\* The cells each symbol gets, dealt out over the table by a fixed step.
Cells(log, probs) ==
    LET size == 2^log
        rare == {i \in DOMAIN probs : probs[i] = -1}
        dealt == SelectSeq([k \in 1..size |-> ((k - 1) * (size \div 2 + size \div 8 + 3)) % size],
                           LAMBDA cell : cell < size - Cardinality(rare))
        before(i) == FoldLeft(LAMBDA sum, p : sum + (IF p > 0 THEN p ELSE 0), 0, SubSeq(probs, 1, i - 1))
    IN  [i \in DOMAIN probs |->
            IF i \in rare THEN {size - Cardinality({j \in rare : j <= i})}
            ELSE {dealt[k] : k \in (before(i) + 1)..(before(i) + probs[i])}]

\* The states of a symbol with p cells are numbered from p up; one of number x
\* leads on to the 2^bits states from "first", so that x * 2^bits is about 2^log.
Move(log, own, cell) ==
    LET x == Cardinality(own) + Cardinality({c \in own : c < cell})
        bits == CHOOSE n \in 0..log : 2^log <= x * 2^n /\ x * 2^n < 2^(log + 1)
    IN  [bits |-> bits, first |-> x * 2^bits - 2^log]

\* Two coders take turns.  The last state of each is the first of its symbol, and
\* every other is the one that leads on to the next of its coder.
FseWeights(log, probs, ws) ==
    LET cells == Cells(log, probs)
        own(k) == cells[ws[k] + 1]
        move(k, cell) == Move(log, own(k), cell)
        leads(m, to) == to \in m.first..(m.first + 2^m.bits - 1)
        at[k \in DOMAIN ws] ==
            IF k > Len(ws) - 2 THEN CHOOSE c \in own(k) : \A d \in own(k) : c <= d
            ELSE CHOOSE c \in own(k) : leads(move(k, c), at[k + 2])
        coded(k) == LET m == move(k, at[k]) IN HighFirst(at[k + 2] - m.first, m.bits)
    IN  FromEnd(HighFirst(at[1], log) \o HighFirst(at[2], log) \o FlattenSeq([k \in 1..(Len(ws) - 2) |-> coded(k)]))

FseTree(log, probs, ws) ==
    LET body == Distribution(log, probs) \o FseWeights(log, probs, Front(ws))
    IN  LowFirst(Len(body) \div 8, 8) \o body

=============================================================================
