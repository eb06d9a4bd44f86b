---------------------------- MODULE DeflateProofs ----------------------------
(***************************************************************************)
(* The DEFLATE decoder keeps its bit reader, its limits and its types on   *)
(* any input, every pass that goes on moves the reader, and of what an     *)
(* encoder wrote it reads exactly that, wherever it is cut.                *)
(*                                                                         *)
(* In order: the bit reader; what it reads of bits that lie in the data;   *)
(* the canonical codes; where the parts of a member lie; the invariant of  *)
(* types and limits; what each pass reads; where the decoder stands in a   *)
(* member (Follows) and that every step leads from there to there.         *)
(***************************************************************************)
EXTENDS DeflateDecoder, DataLemmas

-----------------------------------------------------------------------------
(* Every operation of the bit reader keeps the word in step with the       *)
(* position, for every width of the word and every input, and moves the    *)
(* position by what it read.                                               *)

\* The word of the bit buffer is at least a byte.
LEMMA WordNat == WordBits \in Nat /\ WordBits >= 8
PROOF
  BY ReaderConstants

\* A word of zeroes.
LEMMA ZerosSeq == ASSUME NEW n \in Nat
                  PROVE  Zeros(n) \in Seq(Bit) /\ Len(Zeros(n)) = n /\ \A i \in 1..n : Zeros(n)[i] = 0
PROOF
  BY DEF Zeros, Bit

\* A number of bits, as whole bytes and the rest.
LEMMA Bytes == ASSUME NEW a \in Nat
               PROVE  a \div 8 \in Nat /\ a % 8 \in 0..7 /\ a = 8 * (a \div 8) + (a % 8)
PROOF
  OBVIOUS

\* Eight bits and no more make a byte.
LEMMA Half ==
    ASSUME NEW a \in Nat, NEW b \in Nat, NEW c \in Nat, NEW e \in Nat, a <= 1, b <= 1, c <= 1, e <= 1
    PROVE  a + 2 * b + 4 * c + 8 * e \in Nat /\ a + 2 * b + 4 * c + 8 * e <= 15
PROOF
  OBVIOUS

\* A byte's worth of bits has a number.
LEMMA NumberNat == ASSUME NEW bits \in Seq(Bit) PROVE Number(bits) \in Nat /\ Number(bits) <= 255
PROOF
<1> DEFINE b(i) == IF i <= Len(bits) THEN bits[i] ELSE 0
           half(i) == b(i) + 2 * b(i + 1) + 4 * b(i + 2) + 8 * b(i + 3)
<1>1. ASSUME NEW i \in Nat, i > 0 PROVE b(i) \in Nat /\ b(i) <= 1
  BY <1>1 DEF Bit
<1>2. Number(bits) = half(1) + 16 * half(5)
  BY DEF Number
<1> HIDE DEF b
<1>3. ASSUME NEW i \in Nat, i > 0 PROVE half(i) \in Nat /\ half(i) <= 15
  <2>1. /\ b(i) \in Nat /\ b(i) <= 1
        /\ b(i + 1) \in Nat /\ b(i + 1) <= 1
        /\ b(i + 2) \in Nat /\ b(i + 2) <= 1
        /\ b(i + 3) \in Nat /\ b(i + 3) <= 1
    BY <1>1, <1>3
  <2>2. QED
    BY <2>1, Half
<1> HIDE DEF half
<1>4. half(1) \in Nat /\ half(1) <= 15 /\ half(5) \in Nat /\ half(5) <= 15
  BY <1>3
<1>5. QED
  BY <1>2, <1>4

\* ReaderOK as facts about numbers, and the other way round.
LEMMA ReaderNumbers ==
    ASSUME NEW d \in Seq(Bit), NEW r, ReaderOK(d, r)
    PROVE  /\ r.byte_pos \in Nat /\ r.bit_pos \in Nat /\ r.bit_pos <= 7
           /\ r.bits_in_buffer \in Nat /\ r.bits_in_buffer <= WordBits
           /\ r.next_byte_to_pull \in Nat /\ r.next_byte_to_pull <= Len(d) \div 8
           /\ Position(r) \in Nat /\ Position(r) = 8 * r.byte_pos + r.bit_pos
           /\ Position(r) + r.bits_in_buffer = 8 * r.next_byte_to_pull
           /\ Position(r) + r.bits_in_buffer <= Len(d)
PROOF
<1>1. WordBits \in Nat /\ Len(d) \in Nat /\ Len(d) \div 8 \in Nat /\ 8 * (Len(d) \div 8) <= Len(d)
  BY WordNat, Bytes
<1>2. /\ r.byte_pos \in Nat /\ r.bit_pos \in Nat /\ r.bit_pos <= 7
      /\ r.bits_in_buffer \in Nat /\ r.bits_in_buffer <= WordBits
      /\ r.next_byte_to_pull \in Nat /\ r.next_byte_to_pull <= Len(d) \div 8
      /\ Position(r) + r.bits_in_buffer = 8 * r.next_byte_to_pull
  BY <1>1 DEF ReaderOK
<1>3. Position(r) \in Nat /\ Position(r) = 8 * r.byte_pos + r.bit_pos
  BY <1>2 DEF Position
<1>4. 8 * r.next_byte_to_pull <= Len(d)
  BY <1>1, <1>2
<1>5. QED
  BY <1>2, <1>3, <1>4

\* A reader that begins on a byte has nothing in its word.
LEMMA NewReaderOK ==
    ASSUME NEW d \in Seq(Bit), NEW start \in Nat, start <= Len(d) \div 8
    PROVE  ReaderOK(d, NewReader(start)) /\ Position(NewReader(start)) = 8 * start
PROOF
<1> DEFINE f == NewReader(start)
<1>1. /\ f.byte_pos = start /\ f.bit_pos = 0 /\ f.bits_in_buffer = 0
      /\ f.next_byte_to_pull = start /\ f.buffer = Zeros(WordBits)
      /\ f = [byte_pos |-> f.byte_pos, bit_pos |-> f.bit_pos, buffer |-> f.buffer,
              bits_in_buffer |-> f.bits_in_buffer, next_byte_to_pull |-> f.next_byte_to_pull]
  BY DEF NewReader
<1> HIDE DEF f
<1>2. Position(f) = 8 * start
  BY <1>1 DEF Position
<1>3. /\ f.buffer \in Seq(Bit) /\ Len(f.buffer) = WordBits
      /\ \A i \in 1..WordBits : f.buffer[i] = 0 /\ ~(i <= f.bits_in_buffer)
  BY <1>1, WordNat, ZerosSeq
<1>4. Len(d) \div 8 \in Nat
  BY Bytes
<1>5. ReaderOK(d, f)
  BY <1>1, <1>2, <1>3, <1>4, WordNat DEF ReaderOK
<1>6. QED
  BY <1>2, <1>5 DEF f

\* What a refill pulls fits in the word.
LEMMA PullFits ==
    ASSUME NEW w \in Nat, NEW had \in Nat, had <= w, NEW bytes \in Nat, NEW from \in Nat, from <= bytes,
           NEW k, k = IF (w - had) \div 8 <= bytes - from THEN (w - had) \div 8 ELSE bytes - from
    PROVE  k \in Nat /\ had + 8 * k <= w /\ from + k <= bytes
PROOF
<1>1. w - had \in Nat
  OBVIOUS
<1>2. (w - had) \div 8 \in Nat /\ 8 * ((w - had) \div 8) <= w - had
  BY <1>1, Bytes
<1>3. QED
  BY <1>1, <1>2

\* A refill pulls bytes ahead, as many as fit and are there, and moves nothing.
LEMMA RefillOK ==
    ASSUME NEW d \in Seq(Bit), NEW r, ReaderOK(d, r)
    PROVE  /\ ReaderOK(d, Refill(d, r))
           /\ Position(Refill(d, r)) = Position(r)
           /\ Refill(d, r).bits_in_buffer >= r.bits_in_buffer
PROOF
<1> DEFINE had == r.bits_in_buffer
           from == r.next_byte_to_pull
           at == Position(r)
           bytes == Len(d) \div 8
           k == Pulled(d, r)
           f == Refill(d, r)
<1>1. /\ r.byte_pos \in Nat /\ r.bit_pos \in Nat /\ r.bit_pos <= 7
      /\ had \in Nat /\ had <= WordBits /\ from \in Nat /\ from <= bytes
      /\ at \in Nat /\ at + had = 8 * from
  BY ReaderNumbers
<1>2. bytes \in Nat /\ Len(d) \in Nat /\ 8 * bytes <= Len(d) /\ WordBits \in Nat
  <2>1. Len(d) \in Nat
    OBVIOUS
  <2>2. bytes \in Nat /\ Len(d) = 8 * bytes + (Len(d) % 8) /\ Len(d) % 8 \in 0..7
    BY <2>1, Bytes
  <2>3. QED
    BY <2>1, <2>2, WordNat
<1>3. k \in Nat /\ had + 8 * k <= WordBits /\ from + k <= bytes
  <2>1. k = IF (WordBits - had) \div 8 <= bytes - from THEN (WordBits - had) \div 8 ELSE bytes - from
    BY DEF Pulled
  <2> HIDE DEF k, had, from, bytes
  <2>2. QED
    BY <1>1, <1>2, <2>1, PullFits
<1>4. /\ r.buffer \in Seq(Bit) /\ Len(r.buffer) = WordBits
      /\ \A i \in 1..WordBits : r.buffer[i] = IF i <= had THEN d[at + i] ELSE 0
  BY DEF ReaderOK
<1>5. /\ f.byte_pos = r.byte_pos /\ f.bit_pos = r.bit_pos
      /\ f.bits_in_buffer = had + 8 * k /\ f.next_byte_to_pull = from + k
      /\ f.buffer = [i \in 1..WordBits |->
            IF had < i /\ i <= had + 8 * k /\ d[8 * from + (i - had)] = 1 THEN 1 ELSE r.buffer[i]]
      /\ f = [byte_pos |-> f.byte_pos, bit_pos |-> f.bit_pos, buffer |-> f.buffer,
              bits_in_buffer |-> f.bits_in_buffer, next_byte_to_pull |-> f.next_byte_to_pull]
  BY DEF Refill
<1>6. Position(f) = at
  BY <1>5 DEF Position
<1> HIDE DEF k, f, had, from, at, bytes
<1>7. ASSUME NEW i \in 1..WordBits
      PROVE  f.buffer[i] = IF i <= had + 8 * k THEN d[at + i] ELSE 0
  <2>1. CASE i <= had
    <3>1. ~(had < i) /\ i <= had + 8 * k
      BY <1>1, <1>3, <2>1
    <3>2. QED
      BY <1>4, <1>5, <2>1, <3>1
  <2>2. CASE had < i /\ i <= had + 8 * k
    <3>1. 8 * from + (i - had) = at + i
      BY <1>1, <1>3, <2>2
    <3>2. at + i \in Nat /\ at + i >= 1 /\ at + i <= Len(d)
      BY <1>1, <1>2, <1>3, <2>2
    <3>3. d[at + i] \in Bit
      BY <3>2
    <3>4. r.buffer[i] = 0
      BY <1>1, <1>4, <2>2
    <3>5. f.buffer[i] = IF d[at + i] = 1 THEN 1 ELSE 0
      BY <1>5, <2>2, <3>1, <3>4
    <3>6. QED
      BY <2>2, <3>3, <3>5 DEF Bit
  <2>3. CASE ~(i <= had + 8 * k)
    <3>1. ~(i <= had)
      BY <1>1, <1>3, <2>3
    <3>2. QED
      BY <1>4, <1>5, <2>3, <3>1
  <2>4. QED
    BY <1>1, <1>3, <2>1, <2>2, <2>3
<1>8. f.buffer \in Seq(Bit) /\ Len(f.buffer) = WordBits
  <2>1. ASSUME NEW i \in 1..WordBits PROVE f.buffer[i] \in Bit
    <3>1. r.buffer[i] \in Bit
      BY <1>4
    <3>2. f.buffer[i] = 1 \/ f.buffer[i] = r.buffer[i]
      BY <1>5
    <3>3. QED
      BY <3>1, <3>2 DEF Bit
  <2>2. f.buffer = [i \in 1..WordBits |-> f.buffer[i]]
    BY <1>5
  <2>3. QED
    BY <1>2, <2>1, <2>2
<1>9. ReaderOK(d, f)
  <2>1. /\ f.byte_pos \in Nat /\ f.bit_pos \in 0..7
        /\ f.bits_in_buffer \in 0..WordBits
        /\ f.next_byte_to_pull \in 0..bytes
    <3>1. had + 8 * k \in 0..WordBits /\ from + k \in 0..bytes
      BY <1>1, <1>2, <1>3
    <3>2. r.byte_pos \in Nat /\ r.bit_pos \in 0..7
      BY <1>1
    <3>3. QED
      BY <1>5, <3>1, <3>2, Zenon
  <2>2. Position(f) + f.bits_in_buffer = 8 * f.next_byte_to_pull
    <3>1. at + (had + 8 * k) = 8 * (from + k)
      BY <1>1, <1>3
    <3>2. QED
      BY <1>5, <1>6, <3>1
  <2>3. \A i \in 1..WordBits :
          f.buffer[i] = IF i <= f.bits_in_buffer THEN d[Position(f) + i] ELSE 0
    BY <1>5, <1>6, <1>7
  <2>4. QED
    BY <1>5, <1>8, <2>1, <2>2, <2>3 DEF ReaderOK, bytes
<1>10. f.bits_in_buffer >= had
  BY <1>1, <1>3, <1>5
<1>11. QED
  BY <1>6, <1>9, <1>10 DEF f, at, had

\* How far an advance moves, in bytes and bits.
LEMMA Moved ==
    ASSUME NEW byte \in Nat, NEW bit \in Nat, NEW n \in Nat
    PROVE  /\ byte + ((bit + n) \div 8) \in Nat /\ (bit + n) % 8 \in 0..7
           /\ 8 * (byte + ((bit + n) \div 8)) + ((bit + n) % 8) = 8 * byte + bit + n
PROOF
<1>1. bit + n \in Nat
  OBVIOUS
<1>2. /\ (bit + n) \div 8 \in Nat /\ (bit + n) % 8 \in 0..7
      /\ bit + n = 8 * ((bit + n) \div 8) + ((bit + n) % 8)
  BY <1>1, Bytes
<1>3. QED
  BY <1>2

\* Moving over bits the word holds.
LEMMA AdvanceOK ==
    ASSUME NEW d \in Seq(Bit), NEW r, ReaderOK(d, r), NEW n \in Nat, n <= r.bits_in_buffer
    PROVE  /\ ReaderOK(d, Advance(r, n))
           /\ Position(Advance(r, n)) = Position(r) + n
           /\ Lowest(r, n) \in Seq(Bit) /\ Len(Lowest(r, n)) = n
PROOF
<1> DEFINE had == r.bits_in_buffer
           at == Position(r)
           from == r.next_byte_to_pull
           f == Advance(r, n)
           rest == SubSeq(r.buffer, n + 1, WordBits)
<1>1. /\ r.byte_pos \in Nat /\ r.bit_pos \in Nat /\ at = 8 * r.byte_pos + r.bit_pos
      /\ had \in Nat /\ had <= WordBits /\ n <= had
      /\ at \in Nat /\ at + had = 8 * from
  BY ReaderNumbers
<1>2. /\ r.buffer \in Seq(Bit) /\ Len(r.buffer) = WordBits /\ WordBits \in Nat
      /\ from \in 0..(Len(d) \div 8)
      /\ \A i \in 1..WordBits : r.buffer[i] = IF i <= had THEN d[at + i] ELSE 0
  BY WordNat DEF ReaderOK
<1>3. /\ f.byte_pos = r.byte_pos + ((r.bit_pos + n) \div 8) /\ f.bit_pos = (r.bit_pos + n) % 8
      /\ f.bits_in_buffer = had - n /\ f.next_byte_to_pull = from
      /\ f.buffer = rest \o Zeros(n)
      /\ f = [byte_pos |-> f.byte_pos, bit_pos |-> f.bit_pos, buffer |-> f.buffer,
              bits_in_buffer |-> f.bits_in_buffer, next_byte_to_pull |-> f.next_byte_to_pull]
  BY DEF Advance
<1>4. /\ rest \in Seq(Bit) /\ Len(rest) = WordBits - n
      /\ \A i \in 1..(WordBits - n) : rest[i] = r.buffer[n + i]
  <2>1. n + 1 \in Int /\ WordBits \in Int /\ \A i \in (n + 1)..WordBits : r.buffer[i] \in Bit
    BY <1>1, <1>2, SMTT(30)
  <2>2. /\ rest \in Seq(Bit)
        /\ Len(rest) = IF n + 1 <= WordBits THEN WordBits - (n + 1) + 1 ELSE 0
        /\ \A i \in 1 .. (WordBits - (n + 1) + 1) : rest[i] = r.buffer[(n + 1) + i - 1]
    BY <2>1, SubSeqProperties
  <2> HIDE DEF rest
  <2>3. Len(rest) = WordBits - n
    BY <1>1, <1>2, <2>2
  <2>4. ASSUME NEW i \in 1..(WordBits - n) PROVE rest[i] = r.buffer[n + i]
    <3>1. i \in 1 .. (WordBits - (n + 1) + 1) /\ (n + 1) + i - 1 = n + i
      BY <1>1, <1>2
    <3>2. QED
      BY <2>2, <3>1
  <2>5. QED
    BY <2>2, <2>3, <2>4
<1>5. /\ Zeros(n) \in Seq(Bit) /\ Len(Zeros(n)) = n /\ \A i \in 1..n : Zeros(n)[i] = 0
  BY ZerosSeq
<1> DEFINE zeros == Zeros(n)
<1> HIDE DEF f, had, at, from, rest, zeros
<1>6. Position(f) = at + n /\ f.byte_pos \in Nat /\ f.bit_pos \in 0..7
  <2> DEFINE byte == r.byte_pos + ((r.bit_pos + n) \div 8)
             bit == (r.bit_pos + n) % 8
  <2>1. r.byte_pos \in Nat /\ r.bit_pos \in Nat
    BY <1>1
  <2>2. /\ byte \in Nat /\ bit \in 0..7 /\ 8 * byte + bit = 8 * r.byte_pos + r.bit_pos + n
    BY <2>1, Moved
  <2>3. Position(f) = 8 * byte + bit /\ f.byte_pos = byte /\ f.bit_pos = bit
    BY <1>3 DEF Position
  <2> HIDE DEF byte, bit
  <2>4. QED
    BY <1>1, <2>2, <2>3
<1>7. /\ f.buffer \in Seq(Bit) /\ Len(f.buffer) = WordBits
      /\ \A i \in 1..WordBits :
            f.buffer[i] = IF i <= WordBits - n THEN rest[i] ELSE zeros[i - (WordBits - n)]
  <2>1. /\ f.buffer = rest \o zeros /\ rest \in Seq(Bit) /\ zeros \in Seq(Bit)
        /\ Len(rest) = WordBits - n /\ Len(zeros) = n
    BY <1>3, <1>4, <1>5 DEF zeros
  <2>2. (WordBits - n) + n = WordBits
    BY <1>2
  <2>3. /\ rest \o zeros \in Seq(Bit) /\ Len(rest \o zeros) = Len(rest) + Len(zeros)
        /\ \A i \in 1..(Len(rest) + Len(zeros)) :
              (rest \o zeros)[i] = IF i <= Len(rest) THEN rest[i] ELSE zeros[i - Len(rest)]
    BY <2>1, ConcatProperties, Zenon
  <2>4. QED
    BY <2>1, <2>2, <2>3
<1>8. ASSUME NEW i \in 1..WordBits
      PROVE  f.buffer[i] = IF i <= had - n THEN d[(at + n) + i] ELSE 0
  <2>1. CASE i <= WordBits - n
    <3>1. i \in 1..(WordBits - n) /\ n + i \in 1..WordBits
      BY <1>1, <1>2, <2>1
    <3>2. f.buffer[i] = r.buffer[n + i]
      BY <1>4, <1>7, <2>1, <3>1
    <3>3. r.buffer[n + i] = IF n + i <= had THEN d[at + (n + i)] ELSE 0
      BY <1>2, <3>1
    <3>4. at + (n + i) = (at + n) + i /\ (n + i <= had <=> i <= had - n)
      BY <1>1
    <3>5. QED
      BY <3>2, <3>3, <3>4
  <2>2. CASE ~(i <= WordBits - n)
    <3>1. i - (WordBits - n) \in 1..n /\ ~(i <= had - n)
      BY <1>1, <1>2, <2>2
    <3>2. f.buffer[i] = zeros[i - (WordBits - n)]
      BY <1>7, <2>2
    <3>3. QED
      BY <1>5, <3>1, <3>2 DEF zeros
  <2>3. QED
    BY <2>1, <2>2
<1>9. ReaderOK(d, f)
  <2>1. f.bits_in_buffer \in 0..WordBits
    <3>1. had - n \in 0..WordBits
      BY <1>1, <1>2
    <3>2. QED
      BY <1>3, <3>1
  <2>2. f.next_byte_to_pull \in 0..(Len(d) \div 8)
    BY <1>2, <1>3
  <2>3. Position(f) + f.bits_in_buffer = 8 * f.next_byte_to_pull
    <3>1. (at + n) + (had - n) = 8 * from
      BY <1>1
    <3>2. QED
      BY <1>3, <1>6, <3>1
  <2>4. \A i \in 1..WordBits :
          f.buffer[i] = IF i <= f.bits_in_buffer THEN d[Position(f) + i] ELSE 0
    BY <1>3, <1>6, <1>8
  <2>5. QED
    BY <1>3, <1>6, <1>7, <2>1, <2>2, <2>3, <2>4 DEF ReaderOK
<1>10. Lowest(r, n) \in Seq(Bit) /\ Len(Lowest(r, n)) = n
  <2> DEFINE low == SubSeq(r.buffer, 1, n)
  <2>1. 1 \in Int /\ n \in Int /\ \A i \in 1..n : r.buffer[i] \in Bit
    BY <1>1, <1>2
  <2>2. low \in Seq(Bit) /\ Len(low) = IF 1 <= n THEN (n - 1) + 1 ELSE 0
    BY <2>1, SubSeqProperties
  <2> HIDE DEF low
  <2>3. low \in Seq(Bit) /\ Len(low) = n
    BY <2>2
  <2>4. QED
    BY <2>3 DEF low, Lowest
<1>11. QED
  BY <1>6, <1>9, <1>10 DEF f, at

\* read_bits.
LEMMA ReadBitsOK ==
    ASSUME NEW d \in Seq(Bit), NEW r, ReaderOK(d, r), NEW n \in Nat, NEW a \in ReadBits(d, r, n)
    PROVE  /\ ReaderOK(d, a.reader)
           /\ Position(a.reader) = Position(r) + n
           /\ a.bits \in Seq(Bit) /\ Len(a.bits) = n
PROOF
<1> DEFINE f == Enough(d, r, n)
<1>1. ReaderOK(d, f) /\ Position(f) = Position(r)
  BY RefillOK DEF Enough
<1>2. f.bits_in_buffer >= n /\ a.reader = Advance(f, n) /\ a.bits = Lowest(f, n)
  BY DEF ReadBits, OnlyIf
<1> HIDE DEF f
<1>3. n <= f.bits_in_buffer
  BY <1>1, <1>2, ReaderNumbers
<1>4. /\ ReaderOK(d, Advance(f, n)) /\ Position(Advance(f, n)) = Position(f) + n
      /\ Lowest(f, n) \in Seq(Bit) /\ Len(Lowest(f, n)) = n
  BY <1>1, <1>3, AdvanceOK
<1>5. QED
  BY <1>1, <1>2, <1>4

\* Single bits, one after the other.
LEMMA ReadEachBitOK ==
    ASSUME NEW d \in Seq(Bit), NEW r, ReaderOK(d, r), NEW n \in Nat, NEW a \in ReadEachBit(d, r, n)
    PROVE  ReaderOK(d, a.reader) /\ Position(a.reader) = Position(r) + n
PROOF
<1> DEFINE had == r.bits_in_buffer
           g == Advance(r, had)
<1>1. had \in Nat /\ Position(r) \in Nat
  BY ReaderNumbers
<1>2. CASE n <= had
  <2>1. ReadEachBit(d, r, n) = {[reader |-> Advance(r, n), bits |-> Lowest(r, n)]}
    BY <1>2, Zenon DEF ReadEachBit
  <2>2. a.reader = Advance(r, n)
    BY <2>1
  <2>3. ReaderOK(d, Advance(r, n)) /\ Position(Advance(r, n)) = Position(r) + n
    BY <1>2, AdvanceOK
  <2>4. QED
    BY <2>2, <2>3
<1>3. CASE ~(n <= had)
  <2> DEFINE both(b) == [reader |-> b.reader, bits |-> Lowest(r, had) \o b.bits]
  <2>1. PICK b \in ReadBits(d, g, n - had) : a.reader = b.reader
    <3>1. ReadEachBit(d, r, n) = UNION {{both(b)} : b \in ReadBits(d, g, n - had)}
      BY <1>3, Zenon DEF ReadEachBit, Then
    <3>2. \A b : both(b).reader = b.reader
      OBVIOUS
    <3> HIDE DEF both, had, g
    <3>3. QED
      BY <3>1, <3>2
  <2>2. had <= had /\ n - had \in Nat
    BY <1>1, <1>3
  <2>3. ReaderOK(d, g) /\ Position(g) = Position(r) + had
    BY <1>1, <2>2, AdvanceOK
  <2> HIDE DEF g
  <2>4. ReaderOK(d, b.reader) /\ Position(b.reader) = Position(g) + (n - had)
    BY <2>1, <2>2, <2>3, ReadBitsOK
  <2> HIDE DEF had
  <2>5. Position(g) + (n - had) = Position(r) + n
    BY <1>1, <2>3
  <2>6. QED
    BY <2>1, <2>4, <2>5
<1>4. QED
  BY <1>2, <1>3

\* align_to_byte ends on a byte and does not go back.
LEMMA AlignOK ==
    ASSUME NEW d \in Seq(Bit), NEW r, ReaderOK(d, r), NEW a \in AlignToByte(d, r)
    PROVE  ReaderOK(d, a) /\ Position(a) >= Position(r)
PROOF
<1>1. r.bit_pos \in Nat /\ r.bit_pos <= 7 /\ Position(r) \in Nat
  BY ReaderNumbers
<1>2. CASE r.bit_pos = 0
  <2>1. a = r
    BY <1>2 DEF AlignToByte
  <2>2. QED
    BY <1>1, <2>1
<1>3. CASE r.bit_pos # 0
  <2> DEFINE n == 8 - r.bit_pos
  <2>1. PICK b \in ReadBits(d, r, n) : a = b.reader
    BY <1>3 DEF AlignToByte, Then
  <2>2. n \in Nat
    BY <1>1
  <2> HIDE DEF n
  <2>3. ReaderOK(d, a) /\ Position(a) = Position(r) + n
    BY <2>1, <2>2, ReadBitsOK
  <2>4. QED
    BY <1>1, <2>2, <2>3
<1>4. QED
  BY <1>2, <1>3

\* read_u8.
LEMMA ReadU8OK ==
    ASSUME NEW d \in Seq(Bit), NEW r, ReaderOK(d, r), NEW a \in ReadU8(d, r)
    PROVE  ReaderOK(d, a.reader) /\ Position(a.reader) = Position(r) + 8 /\ a.value \in Nat
PROOF
<1>1. PICK b \in ReadBits(d, r, 8) : a.reader = b.reader /\ a.value = Number(b.bits)
  BY DEF ReadU8, Then
<1>2. ReaderOK(d, b.reader) /\ Position(b.reader) = Position(r) + 8 /\ b.bits \in Seq(Bit)
  BY <1>1, ReadBitsOK
<1>3. QED
  BY <1>1, <1>2, NumberNat

\* Two bytes, or four, one after the other.
LEMMA ReadU16OK ==
    ASSUME NEW d \in Seq(Bit), NEW r, ReaderOK(d, r), NEW a \in ReadU16(d, r)
    PROVE  ReaderOK(d, a.reader) /\ Position(a.reader) = Position(r) + 16 /\ a.value \in Nat
PROOF
<1>1. PICK lo \in ReadU8(d, r) :
        \E hi \in ReadU8(d, lo.reader) : a.reader = hi.reader /\ a.value = lo.value + 256 * hi.value
  BY DEF ReadU16, Then
<1>2. PICK hi \in ReadU8(d, lo.reader) : a.reader = hi.reader /\ a.value = lo.value + 256 * hi.value
  BY <1>1
<1>3. ReaderOK(d, lo.reader) /\ Position(lo.reader) = Position(r) + 8 /\ lo.value \in Nat
  BY <1>1, ReadU8OK
<1>4. ReaderOK(d, hi.reader) /\ Position(hi.reader) = Position(lo.reader) + 8 /\ hi.value \in Nat
  BY <1>2, <1>3, ReadU8OK
<1>5. Position(r) \in Nat
  BY ReaderNumbers
<1>6. lo.value + 256 * hi.value \in Nat
  BY <1>3, <1>4
<1>7. Position(hi.reader) = Position(r) + 16
  BY <1>3, <1>4, <1>5
<1>8. QED
  BY <1>2, <1>4, <1>6, <1>7

\* read_u32_le.
LEMMA ReadU32OK ==
    ASSUME NEW d \in Seq(Bit), NEW r, ReaderOK(d, r), NEW a \in ReadU32(d, r)
    PROVE  ReaderOK(d, a.reader)
PROOF
<1>1. PICK lo \in ReadU16(d, r) : \E hi \in ReadU16(d, lo.reader) : a.reader = hi.reader
  BY DEF ReadU32, Then
<1>2. PICK hi \in ReadU16(d, lo.reader) : a.reader = hi.reader
  BY <1>1
<1>3. ReaderOK(d, lo.reader)
  BY <1>1, ReadU16OK
<1>4. QED
  BY <1>2, <1>3, ReadU16OK

\* read_bytes drops the word and ends where a new reader would begin.
LEMMA ReadBytesOK ==
    ASSUME NEW d \in Seq(Bit), NEW r, ReaderOK(d, r), NEW count \in Nat, NEW a \in ReadBytes(d, r, count)
    PROVE  /\ ReaderOK(d, a.reader) /\ Position(a.reader) = Position(r) + 8 * count
           /\ a.bytes \in Seq(Nat) /\ Len(a.bytes) = count
PROOF
<1> DEFINE here == r.byte_pos
           first(k) == 8 * (here + k - 1) + 1
           last(k) == 8 * (here + k)
           byte(k) == Number(SubSeq(d, first(k), last(k)))
<1>1. /\ r.bit_pos = 0 /\ here + count <= Len(d) \div 8
      /\ a.reader = NewReader(here + count)
      /\ a.bytes = [k \in 1..count |-> byte(k)]
  BY DEF ReadBytes, OnlyIf, Jump
<1>2. here \in Nat /\ Position(r) = 8 * here /\ Len(d) \in Nat /\ Len(d) \div 8 \in Nat /\ 8 * (Len(d) \div 8) <= Len(d)
  <2>1. here \in Nat /\ Position(r) = 8 * here + r.bit_pos
    BY ReaderNumbers
  <2>2. Len(d) \in Nat
    OBVIOUS
  <2>3. Len(d) \div 8 \in Nat /\ Len(d) = 8 * (Len(d) \div 8) + (Len(d) % 8) /\ Len(d) % 8 \in 0..7
    BY <2>2, Bytes
  <2> HIDE DEF here
  <2>4. QED
    BY <1>1, <2>1, <2>2, <2>3
<1> HIDE DEF here
<1>3. ReaderOK(d, a.reader) /\ Position(a.reader) = Position(r) + 8 * count
  <2>1. here + count \in Nat /\ here + count <= Len(d) \div 8
    BY <1>1, <1>2
  <2>2. ReaderOK(d, NewReader(here + count)) /\ Position(NewReader(here + count)) = 8 * (here + count)
    BY <2>1, NewReaderOK
  <2>3. 8 * (here + count) = Position(r) + 8 * count
    BY <1>2
  <2>4. QED
    BY <1>1, <2>2, <2>3
<1>4. ASSUME NEW k \in 1..count PROVE byte(k) \in Nat
  <2>1. /\ first(k) \in Int /\ last(k) \in Int
        /\ \A i \in first(k)..last(k) : i \in 1..Len(d)
    <3>1. here + k <= Len(d) \div 8
      BY <1>1, <1>2
    <3>2. 8 * (here + k) <= Len(d)
      BY <1>2, <3>1
    <3>3. first(k) \in Int /\ first(k) >= 1 /\ last(k) \in Int /\ last(k) <= Len(d)
      BY <1>2, <3>2
    <3> HIDE DEF first, last
    <3>4. QED
      BY <1>2, <3>3
  <2>2. \A i \in first(k)..last(k) : d[i] \in Bit
    BY <2>1
  <2> HIDE DEF first, last
  <2>3. SubSeq(d, first(k), last(k)) \in Seq(Bit)
    BY <2>1, <2>2, SubSeqProperties
  <2>4. QED
    BY <2>3, NumberNat
<1> HIDE DEF byte
<1>5. QED
  BY <1>1, <1>3, <1>4

-----------------------------------------------------------------------------
(* The decoder.                                                            *)

\* What is assumed of the parameters, one at a time.
LEMMA Parameters ==
    /\ NumLiterals \in Nat /\ MaxCodeBits \in Nat /\ CodeLenBits \in Nat /\ CodeLenBits >= 1
    /\ MaxBlocks \in Nat /\ MaxBlockLiterals \in Nat /\ MaxInstructions \in Nat /\ MaxTotal \in Nat
    /\ MinHclen \in Nat
    /\ LengthExtra \in Seq(Nat) /\ DistanceExtra \in Seq(Nat)
    /\ \A k \in 1..3 : /\ Repeat[k].bits \in Nat /\ Repeat[k].base \in Nat
                       /\ SizeBits[k] \in Nat /\ SizeBits[k] >= 1
PROOF
<1>1. /\ NumLiterals \in Nat /\ MaxCodeBits \in Nat /\ CodeLenBits \in Nat /\ CodeLenBits >= 1
      /\ MinHclen \in Nat
  BY FormatConstants
<1>2. MaxBlocks \in Nat /\ MaxBlockLiterals \in Nat /\ MaxInstructions \in Nat /\ MaxTotal \in Nat
  BY DecoderConstants
<1>3. LengthExtra \in Seq(Nat) /\ DistanceExtra \in Seq(Nat)
  <2>1. LengthExtra \in Seq(0..(WordBits - 8)) /\ DistanceExtra \in Seq(0..(WordBits - 8))
    BY DecoderConstants
  <2>2. 0..(WordBits - 8) \subseteq Nat
    BY WordNat
  <2>3. QED
    BY <2>1, <2>2, SeqWithin
<1>4. ASSUME NEW k \in 1..3
      PROVE  /\ Repeat[k].bits \in Nat /\ Repeat[k].base \in Nat
             /\ SizeBits[k] \in Nat /\ SizeBits[k] >= 1
  <2>1. Repeat[k].bits \in 0..8 /\ Repeat[k].base \in Nat \ {0} /\ SizeBits[k] \in 1..8
    BY DecoderConstants, Zenon
  <2>2. QED
    BY <2>1
<1>5. QED
  BY <1>1, <1>2, <1>3, <1>4, Zenon

\* A symbol is found behind at least one bit.
LEMMA DecodeOK ==
    ASSUME NEW d \in Seq(Bit), NEW r, ReaderOK(d, r), NEW tree, NEW w \in Decode(d, tree, r)
    PROVE  ReaderOK(d, w.reader) /\ Position(w.reader) > Position(r)
PROOF
<1> DEFINE found(n) == Then(ReadEachBit(d, r, n), LAMBDA a :
                       {[reader |-> a.reader, symbol |-> c.symbol] :
                           c \in {c \in tree.codes : c.path = a.bits}})
<1>1. PICK n \in 1..tree.max_bits : w \in found(n)
  BY DEF Decode
<1>2. n \in Nat /\ n >= 1
  OBVIOUS
<1>3. PICK a \in ReadEachBit(d, r, n) : w.reader = a.reader
  BY <1>1 DEF Then
<1> HIDE DEF found
<1>4. ReaderOK(d, w.reader) /\ Position(w.reader) = Position(r) + n
  BY <1>2, <1>3, ReadEachBitOK
<1>5. Position(r) \in Nat
  BY ReaderNumbers
<1>6. QED
  BY <1>2, <1>4, <1>5

-----------------------------------------------------------------------------
(* What each step reads.                                                   *)

Reads == data \in Seq(Bit) /\ ReaderOK(data, reader)

\* A reader further on in the data.
Further(r) == ReaderOK(data, r) /\ Position(r) > Position(reader)

\* The head of a block takes three bits.
LEMMA HeaderReads ==
    ASSUME Reads, NEW h \in Header
    PROVE  Further(h.reader) /\ h.final \in BOOLEAN /\ ~(Len(blocks) >= MaxBlocks)
PROOF
<1>1. ~(Len(blocks) >= MaxBlocks)
  BY DEF Header
<1>2. PICK a \in ReadBits(data, reader, 1) :
        \E b \in ReadBits(data, a.reader, 2) : h.reader = b.reader /\ h.final = (a.bits[1] = 1)
  BY <1>1 DEF Header, Then
<1>3. PICK b \in ReadBits(data, a.reader, 2) : h.reader = b.reader /\ h.final = (a.bits[1] = 1)
  BY <1>2
<1>4. ReaderOK(data, a.reader) /\ Position(a.reader) = Position(reader) + 1
  BY ReadBitsOK DEF Reads
<1>5. ReaderOK(data, b.reader) /\ Position(b.reader) = Position(a.reader) + 2
  BY <1>4, ReadBitsOK DEF Reads
<1>6. Position(reader) \in Nat
  BY ReaderNumbers DEF Reads
<1>7. QED
  BY <1>1, <1>3, <1>4, <1>5, <1>6 DEF Further

\* A stored block is taken whole, and within its limit.
LEMMA StoredReads ==
    ASSUME Reads, block.literals = <<>>, NEW b \in Stored
    PROVE  /\ Further(b.reader) /\ b.bytes \in Seq(Nat)
           /\ Len(b.bytes) <= MaxBlockLiterals
PROOF
<1>1. PICK r \in AlignToByte(data, reader) :
        \E len \in ReadU16(data, r) : \E nlen \in ReadU16(data, len.reader) :
            Fits(len.value) /\ b \in ReadBytes(data, nlen.reader, len.value)
  BY DEF Stored, Then
<1>2. PICK len \in ReadU16(data, r) : \E nlen \in ReadU16(data, len.reader) :
            Fits(len.value) /\ b \in ReadBytes(data, nlen.reader, len.value)
  BY <1>1
<1>3. PICK nlen \in ReadU16(data, len.reader) :
            Fits(len.value) /\ b \in ReadBytes(data, nlen.reader, len.value)
  BY <1>2
<1>4. ReaderOK(data, r) /\ Position(r) >= Position(reader)
  BY <1>1, AlignOK DEF Reads
<1>5. /\ ReaderOK(data, len.reader) /\ Position(len.reader) = Position(r) + 16 /\ len.value \in Nat
  BY <1>2, <1>4, ReadU16OK DEF Reads
<1>6. ReaderOK(data, nlen.reader) /\ Position(nlen.reader) = Position(len.reader) + 16
  BY <1>3, <1>5, ReadU16OK DEF Reads
<1>7. /\ ReaderOK(data, b.reader) /\ Position(b.reader) = Position(nlen.reader) + 8 * len.value
      /\ b.bytes \in Seq(Nat) /\ Len(b.bytes) = len.value
  BY <1>3, <1>5, <1>6, ReadBytesOK DEF Reads
<1>8. Position(reader) \in Nat /\ Position(r) \in Nat
  BY <1>4, ReaderNumbers DEF Reads
<1>9. Position(b.reader) > Position(reader)
  BY <1>4, <1>5, <1>6, <1>7, <1>8
<1>10. len.value <= MaxBlockLiterals
  BY <1>3, <1>5, Parameters DEF Fits
<1>11. QED
  BY <1>7, <1>9, <1>10 DEF Further

\* The sizes are numbers.
LEMMA SizesRead ==
    ASSUME Reads, NEW h \in Sizes
    PROVE  Further(h.reader) /\ h.hlit \in Nat /\ h.hdist \in Nat /\ h.hclen \in Nat
PROOF
<1> DEFINE result(a, b, c) == /\ h.reader = c.reader /\ h.hlit = Number(a.bits) + NumLiterals + 1
                              /\ h.hdist = Number(b.bits) + 1 /\ h.hclen = Number(c.bits) + MinHclen
           n1 == SizeBits[1]
           n2 == SizeBits[2]
           n3 == SizeBits[3]
<1>1. PICK a \in ReadBits(data, reader, n1) : \E b \in ReadBits(data, a.reader, n2) :
        \E c \in ReadBits(data, b.reader, n3) : result(a, b, c)
  BY DEF Sizes, Then, OnlyIf
<1> HIDE DEF result
<1>2. PICK b \in ReadBits(data, a.reader, n2) :
        \E c \in ReadBits(data, b.reader, n3) : result(a, b, c)
  BY <1>1
<1>3. PICK c \in ReadBits(data, b.reader, n3) : result(a, b, c)
  BY <1>2
<1>4. n1 \in Nat /\ n1 >= 1 /\ n2 \in Nat /\ n3 \in Nat
  BY Parameters
<1> HIDE DEF n1, n2, n3
<1>5. ReaderOK(data, a.reader) /\ Position(a.reader) = Position(reader) + n1 /\ a.bits \in Seq(Bit)
  BY <1>1, <1>4, ReadBitsOK DEF Reads
<1>6. ReaderOK(data, b.reader) /\ Position(b.reader) = Position(a.reader) + n2 /\ b.bits \in Seq(Bit)
  BY <1>2, <1>4, <1>5, ReadBitsOK DEF Reads
<1>7. ReaderOK(data, c.reader) /\ Position(c.reader) = Position(b.reader) + n3 /\ c.bits \in Seq(Bit)
  BY <1>3, <1>4, <1>6, ReadBitsOK DEF Reads
<1>8. Number(a.bits) \in Nat /\ Number(b.bits) \in Nat /\ Number(c.bits) \in Nat
  BY <1>5, <1>6, <1>7, NumberNat
<1>9. Position(reader) \in Nat
  BY ReaderNumbers DEF Reads
<1>10. Position(c.reader) > Position(reader)
  BY <1>4, <1>5, <1>6, <1>7, <1>9
<1>11. h.hlit \in Nat /\ h.hdist \in Nat /\ h.hclen \in Nat
  <2>1. NumLiterals \in Nat /\ MinHclen \in Nat
    BY Parameters
  <2>2. /\ Number(a.bits) + NumLiterals + 1 \in Nat /\ Number(b.bits) + 1 \in Nat
        /\ Number(c.bits) + MinHclen \in Nat
    BY <1>8, <2>1
  <2>3. QED
    BY <1>3, <2>2 DEF result
<1>12. QED
  BY <1>3, <1>7, <1>10, <1>11 DEF result, Further

\* Code lengths read so far: one each, and no more than there are codes.
LengthsOK(l) == l \in Seq(0..MaxCodeBits) /\ Len(l) <= Wanted

\* A run of lengths stays within the list.
LEMMA FillKeeps ==
    ASSUME lengths \in Seq(0..MaxCodeBits), NEW value \in 0..MaxCodeBits, NEW n \in Nat,
           NEW l \in Fill(value, n)
    PROVE  LengthsOK(l)
PROOF
<1> DEFINE more == [k \in 1..n |-> value]
<1>1. more \in Seq(0..MaxCodeBits) /\ Len(more) = n
  OBVIOUS
<1>2. l = lengths \o more /\ Len(lengths) + n <= Wanted
  BY DEF Fill, OnlyIf
<1> HIDE DEF more
<1>3. lengths \o more \in Seq(0..MaxCodeBits) /\ Len(lengths \o more) = Len(lengths) + n
  BY <1>1, ConcatProperties
<1>4. QED
  BY <1>2, <1>3 DEF LengthsOK

\* So does a repetition.
LEMMA RepeatedReads ==
    ASSUME Reads, lengths \in Seq(0..MaxCodeBits), prev \in 0..MaxCodeBits,
           NEW w, Further(w.reader), NEW kind \in 1..3, NEW value \in 0..MaxCodeBits,
           NEW c \in Repeated(w, kind, value)
    PROVE  Further(c.reader) /\ LengthsOK(c.lengths) /\ c.prev \in 0..MaxCodeBits
PROOF
<1> DEFINE n == Repeat[kind].bits
           many(a) == Repeat[kind].base + Number(a.bits)
<1>1. PICK a \in ReadBits(data, w.reader, n) :
        \E l \in Fill(value, many(a)) : c.reader = a.reader /\ c.lengths = l /\ c.prev = prev
  BY DEF Repeated, Then
<1>2. n \in Nat /\ Repeat[kind].base \in Nat
  BY Parameters
<1>3. /\ ReaderOK(data, a.reader) /\ Position(a.reader) = Position(w.reader) + n
      /\ a.bits \in Seq(Bit)
  BY <1>1, <1>2, ReadBitsOK DEF Reads, Further
<1>4. many(a) \in Nat
  BY <1>2, <1>3, NumberNat
<1> HIDE DEF n, many
<1>5. Position(reader) \in Nat /\ Position(w.reader) \in Nat /\ Position(w.reader) > Position(reader)
  BY ReaderNumbers DEF Reads, Further
<1>6. Position(a.reader) > Position(reader)
  BY <1>2, <1>3, <1>5
<1>7. PICK l \in Fill(value, many(a)) : c.reader = a.reader /\ c.lengths = l /\ c.prev = prev
  BY <1>1
<1>8. LengthsOK(l)
  BY <1>4, <1>7, FillKeeps
<1>9. QED
  BY <1>3, <1>6, <1>7, <1>8 DEF Further

\* A code length's symbol is taken, and its lengths are of the code.
LEMMA CodeLengthReads ==
    ASSUME Reads, lengths \in Seq(0..MaxCodeBits), Wanted \in Nat, Len(lengths) < Wanted, prev \in 0..MaxCodeBits,
           NEW c \in CodeLength
    PROVE  /\ Further(c.reader) /\ LengthsOK(c.lengths) /\ c.prev \in 0..MaxCodeBits
           /\ ~(instructions >= MaxInstructions)
PROOF
<1>1. ~(instructions >= MaxInstructions)
  BY DEF CodeLength
<1>2. PICK w \in Decode(data, decoders.code_length, reader) :
        \/ /\ w.symbol \in 0..MaxCodeBits
           /\ c = [reader |-> w.reader, lengths |-> Append(lengths, w.symbol), prev |-> w.symbol]
        \/ c \in Repeated(w, 1, prev)
        \/ c \in Repeated(w, 2, 0)
        \/ c \in Repeated(w, 3, 0)
  BY <1>1 DEF CodeLength, Then
<1>3. Further(w.reader)
  BY <1>2, DecodeOK DEF Reads, Further
<1>4. 0 \in 0..MaxCodeBits
  BY Parameters
<1>5. CASE /\ w.symbol \in 0..MaxCodeBits
           /\ c = [reader |-> w.reader, lengths |-> Append(lengths, w.symbol), prev |-> w.symbol]
  <2> DEFINE l == Append(lengths, w.symbol)
  <2>1. l \in Seq(0..MaxCodeBits) /\ Len(l) = Len(lengths) + 1 /\ Len(lengths) \in Nat
    BY <1>5, AppendProperties
  <2>2. c.reader = w.reader /\ c.lengths = l /\ c.prev = w.symbol
    BY <1>5
  <2> HIDE DEF l
  <2>3. Len(l) <= Wanted
    BY <2>1
  <2>4. LengthsOK(c.lengths)
    BY <2>1, <2>2, <2>3 DEF LengthsOK
  <2>5. QED
    BY <1>1, <1>3, <1>5, <2>2, <2>4
<1>6. CASE c \in Repeated(w, 1, prev)
  BY <1>1, <1>3, <1>6, RepeatedReads
<1>7. CASE c \in Repeated(w, 2, 0)
  BY <1>1, <1>3, <1>4, <1>7, RepeatedReads
<1>8. CASE c \in Repeated(w, 3, 0)
  BY <1>1, <1>3, <1>4, <1>8, RepeatedReads
<1>9. QED
  BY <1>2, <1>5, <1>6, <1>7, <1>8

\* A symbol takes at least one bit.
LEMMA SymbolReads ==
    ASSUME Reads, NEW w \in Symbol
    PROVE  Further(w.reader) /\ ~(instructions >= MaxInstructions)
PROOF
<1>1. w \in Decode(data, decoders.literal, reader) /\ ~(instructions >= MaxInstructions)
  BY DEF Symbol
<1>2. QED
  BY <1>1, DecodeOK DEF Reads, Further

\* So does a match.
LEMMA MatchReads ==
    ASSUME Reads, NEW m \in SkippedMatch
    PROVE  Further(m.reader) /\ ~(instructions >= MaxInstructions)
PROOF
<1> DEFINE e(w) == LengthExtra[w.symbol - NumLiterals]
           x(t) == DistanceExtra[t.symbol + 1]
<1>1. PICK w \in Symbol :
        /\ w.symbol \in (NumLiterals + 1)..(NumLiterals + Len(LengthExtra))
        /\ m \in Match(w)
  BY DEF SkippedMatch, Then
<1>2. PICK a \in ReadBits(data, w.reader, e(w)) : \E t \in Decode(data, decoders.distance, a.reader) :
        t.symbol + 1 \in DOMAIN DistanceExtra /\ m \in ReadBits(data, t.reader, x(t))
  BY <1>1 DEF Match, Then
<1>3. PICK t \in Decode(data, decoders.distance, a.reader) :
        t.symbol + 1 \in DOMAIN DistanceExtra /\ m \in ReadBits(data, t.reader, x(t))
  BY <1>2
<1>4. e(w) \in Nat /\ x(t) \in Nat
  <2>1. NumLiterals \in Nat /\ LengthExtra \in Seq(Nat) /\ Len(LengthExtra) \in Nat /\ DistanceExtra \in Seq(Nat)
    BY Parameters
  <2>2. w.symbol - NumLiterals \in 1..Len(LengthExtra)
    BY <1>1, <2>1
  <2>3. e(w) \in Nat
    BY <2>1, <2>2
  <2>4. x(t) \in Nat
    BY <1>3, <2>1
  <2>5. QED
    BY <2>3, <2>4
<1> HIDE DEF e, x
<1>5. Further(w.reader) /\ ~(instructions >= MaxInstructions)
  BY <1>1, SymbolReads
<1>6. ReaderOK(data, a.reader) /\ Position(a.reader) = Position(w.reader) + e(w)
  BY <1>2, <1>4, <1>5, ReadBitsOK DEF Reads, Further
<1>7. ReaderOK(data, t.reader) /\ Position(t.reader) > Position(a.reader)
  BY <1>3, <1>6, DecodeOK DEF Reads
<1>8. ReaderOK(data, m.reader) /\ Position(m.reader) = Position(t.reader) + x(t)
  BY <1>3, <1>4, <1>7, ReadBitsOK DEF Reads
<1>9. /\ Position(reader) \in Nat /\ Position(w.reader) \in Nat /\ Position(a.reader) \in Nat
      /\ Position(t.reader) \in Nat /\ Position(w.reader) > Position(reader)
  BY <1>5, <1>6, <1>7, ReaderNumbers DEF Reads, Further
<1>10. Position(m.reader) > Position(reader)
  BY <1>4, <1>6, <1>7, <1>8, <1>9
<1>11. QED
  BY <1>5, <1>8, <1>10 DEF Further

\* The reader stays in step through the trailer.
LEMMA TrailerReads ==
    ASSUME Reads, NEW t \in Trailer PROVE ReaderOK(data, t.reader)
PROOF
<1>1. PICK r \in AlignToByte(data, reader) :
        \E c \in ReadU32(data, r) : \E i \in ReadU32(data, c.reader) : t.reader = i.reader
  BY DEF Trailer, Then
<1>2. PICK c \in ReadU32(data, r) : \E i \in ReadU32(data, c.reader) : t.reader = i.reader
  BY <1>1
<1>3. PICK i \in ReadU32(data, c.reader) : t.reader = i.reader
  BY <1>2
<1>4. ReaderOK(data, r)
  BY <1>1, AlignOK DEF Reads
<1>5. ReaderOK(data, c.reader)
  BY <1>2, <1>4, ReadU32OK DEF Reads
<1>6. QED
  BY <1>3, <1>5, ReadU32OK DEF Reads

-----------------------------------------------------------------------------
(* What is read of bits that lie at the position.                          *)

\* Behind p are the bits q, as far as the data goes.
Lies(d, p, q) == \A j \in 1..Len(q) : p + j <= Len(d) => d[p + j] = q[j]

\* The bits q are in the data behind p.
Holds(d, p, q) == p + Len(q) <= Len(d) /\ \A j \in 1..Len(q) : d[p + j] = q[j]

\* The data is the beginning of the bits.
Begins(d, bits) ==
    d \in Seq(Bit) /\ bits \in Seq(Bit) /\ Len(d) <= Len(bits) /\ \A i \in 1..Len(d) : d[i] = bits[i]

\* What bits hold lies in their beginning, as far as it goes.
LEMMA BeginningLies ==
    ASSUME NEW d, NEW bits, Begins(d, bits), NEW p \in Nat, NEW q \in Seq(Bit), Holds(bits, p, q)
    PROVE  Lies(d, p, q) /\ (d = bits => p + Len(q) <= Len(d))
PROOF
<1>1. Len(d) \in Nat /\ Len(q) \in Nat /\ \A i \in 1..Len(d) : d[i] = bits[i]
  BY DEF Begins
<1>2. p + Len(q) <= Len(bits) /\ \A j \in 1..Len(q) : bits[p + j] = q[j]
  BY DEF Holds
<1>3. ASSUME NEW j \in 1..Len(q), p + j <= Len(d) PROVE d[p + j] = q[j]
  <2>1. p + j \in 1..Len(d)
    BY <1>1, <1>3
  <2>2. QED
    BY <1>1, <1>2, <2>1
<1>4. QED
  BY <1>2, <1>3 DEF Lies

\* What begins with one part has the other behind it.
LEMMA HoldsSplit ==
    ASSUME NEW d, NEW p \in Nat, NEW x \in Seq(Bit), NEW y \in Seq(Bit), Holds(d, p, x \o y), Len(d) \in Nat
    PROVE  Holds(d, p, x) /\ Holds(d, p + Len(x), y) /\ Len(x \o y) = Len(x) + Len(y)
PROOF
<1> DEFINE z == x \o y
<1>1. z \in Seq(Bit) /\ IsJoin(z, x, y)
  BY Joined
<1>2. p + Len(z) <= Len(d) /\ \A j \in 1..Len(z) : d[p + j] = z[j]
  BY DEF Holds
<1> HIDE DEF z
<1>3. /\ Len(x) \in Nat /\ Len(y) \in Nat /\ Len(z) = Len(x) + Len(y)
      /\ \A j \in 1..Len(x) : z[j] = x[j]
      /\ \A j \in 1..Len(y) : z[Len(x) + j] = y[j]
  BY <1>1 DEF IsJoin
<1>4. Holds(d, p, x)
  BY <1>2, <1>3 DEF Holds
<1>5. ASSUME NEW j \in 1..Len(y) PROVE d[(p + Len(x)) + j] = y[j]
  <2>1. Len(x) + j \in 1..Len(z) /\ (p + Len(x)) + j = p + (Len(x) + j)
    BY <1>3
  <2>2. QED
    BY <1>2, <1>3, <2>1
<1>6. (p + Len(x)) + Len(y) <= Len(d)
  BY <1>2, <1>3
<1>7. QED
  BY <1>3, <1>4, <1>5, <1>6 DEF z, Holds

\* Bits that are in the data and that lie there are the same.
LEMMA LiesSame ==
    ASSUME NEW d, NEW p \in Nat, NEW x \in Seq(Bit), NEW y \in Seq(Bit), Lies(d, p, x), Lies(d, p, y),
           Len(x) <= Len(y), p + Len(x) <= Len(d), Len(d) \in Nat
    PROVE  \A j \in 1..Len(x) : x[j] = y[j]
PROOF
<1>1. SUFFICES ASSUME NEW j \in 1..Len(x) PROVE x[j] = y[j]
  OBVIOUS
<1>2. j \in 1..Len(y) /\ p + j <= Len(d)
  OBVIOUS
<1>3. QED
  BY <1>2 DEF Lies

\* The lowest bits of the word are those at the position.
LEMMA LowestIs ==
    ASSUME NEW d \in Seq(Bit), NEW r, ReaderOK(d, r), NEW n \in Nat, n <= r.bits_in_buffer
    PROVE  Lies(d, Position(r), Lowest(r, n)) /\ Position(r) + n <= Len(d)
           /\ Lowest(r, n) \in Seq(Bit) /\ Len(Lowest(r, n)) = n
PROOF
<1>1. /\ r.bits_in_buffer \in Nat /\ r.bits_in_buffer <= WordBits /\ Position(r) \in Nat
      /\ Position(r) + r.bits_in_buffer <= Len(d) /\ Len(d) \in Nat /\ WordBits \in Nat
  BY ReaderNumbers, WordNat
<1>2. Lowest(r, n) \in Seq(Bit) /\ Len(Lowest(r, n)) = n
  BY AdvanceOK
<1>3. /\ r.buffer \in Seq(Bit) /\ Len(r.buffer) = WordBits
      /\ \A i \in 1..WordBits : r.buffer[i] = IF i <= r.bits_in_buffer THEN d[Position(r) + i] ELSE 0
  BY DEF ReaderOK
<1>4. ASSUME NEW j \in 1..n PROVE Lowest(r, n)[j] = r.buffer[j] /\ j \in 1..WordBits /\ j <= r.bits_in_buffer
  <2>1. j \in 1..WordBits /\ j <= r.bits_in_buffer /\ (1 + j) - 1 = j /\ (n - 1) + 1 = n
    BY <1>1
  <2>2. \A i \in 1..n : r.buffer[i] \in Bit
    BY <1>1, <1>3
  <2> DEFINE f == r.buffer
             q == SubSeq(f, 1, n)
  <2>3. \A i \in 1..((n - 1) + 1) : q[i] = f[(1 + i) - 1]
    <3> HIDE DEF f
    <3>1. \A i \in 1..n : f[i] \in Bit
      BY <2>2 DEF f
    <3>2. QED
      BY <3>1, SubSeqProperties
  <2> HIDE DEF q, f
  <2>4. q[j] = f[j]
    BY <2>1, <2>3
  <2>5. QED
    BY <2>1, <2>4 DEF q, f, Lowest
<1>5. ASSUME NEW j \in 1..n PROVE Lowest(r, n)[j] = d[Position(r) + j]
  BY <1>3, <1>4
<1> DEFINE q == Lowest(r, n)
<1>6. Len(q) = n /\ q \in Seq(Bit) /\ \A j \in 1..n : q[j] = d[Position(r) + j]
  BY <1>2, <1>5
<1> HIDE DEF q
<1>7. Lies(d, Position(r), q) /\ Position(r) + n <= Len(d)
  BY <1>1, <1>6 DEF Lies
<1>8. QED
  BY <1>6, <1>7 DEF q

\* read_bits: what lies there, if there is so much.
LEMMA ReadBitsLie ==
    ASSUME NEW d \in Seq(Bit), NEW r, ReaderOK(d, r), NEW n \in Nat, NEW a \in ReadBits(d, r, n)
    PROVE  Lies(d, Position(r), a.bits) /\ Position(r) + n <= Len(d)
PROOF
<1> DEFINE f == Enough(d, r, n)
<1>1. ReaderOK(d, f) /\ Position(f) = Position(r)
  BY RefillOK DEF Enough
<1>2. f.bits_in_buffer >= n /\ a.bits = Lowest(f, n)
  BY DEF ReadBits, OnlyIf
<1> HIDE DEF f
<1>3. n <= f.bits_in_buffer
  BY <1>1, <1>2, ReaderNumbers
<1>4. QED
  BY <1>1, <1>2, <1>3, LowestIs

\* Whole bytes of data.
Whole8(d) == d \in Seq(Bit) /\ Len(d) % 8 = 0

\* Whole bytes have no rest.
LEMMA WholeBytes == ASSUME NEW d, Whole8(d) PROVE Len(d) \in Nat /\ 8 * (Len(d) \div 8) = Len(d) /\ Len(d) \div 8 \in Nat
PROOF
<1>1. Len(d) \in Nat /\ Len(d) % 8 = 0
  BY DEF Whole8
<1>2. QED
  BY <1>1, Bytes

\* As many bits as are left, or more than the word less a byte.
LEMMA RefillFills ==
    ASSUME NEW d, Whole8(d), NEW r, ReaderOK(d, r), NEW n \in Nat, n <= WordBits - 8,
           Position(r) + n <= Len(d)
    PROVE  Enough(d, r, n).bits_in_buffer >= n
PROOF
<1> DEFINE had == r.bits_in_buffer
           left == Len(d) \div 8 - r.next_byte_to_pull
           free == (WordBits - had) \div 8
           k == Pulled(d, r)
<1>0. d \in Seq(Bit)
  BY DEF Whole8
<1>1. /\ had \in Nat /\ had <= WordBits /\ WordBits \in Nat /\ Position(r) \in Nat
      /\ r.next_byte_to_pull \in Nat /\ Len(d) \div 8 \in Nat /\ r.next_byte_to_pull <= Len(d) \div 8
      /\ Position(r) + had = 8 * r.next_byte_to_pull
  BY <1>0, ReaderNumbers, WordNat, WholeBytes
<1>2. 8 * (Len(d) \div 8) = Len(d) /\ Len(d) \in Nat
  BY WholeBytes
<1>3. CASE had >= n
  BY <1>1, <1>3 DEF Enough
<1>4. CASE had < n
  <2>1. Enough(d, r, n).bits_in_buffer = had + 8 * k
    BY <1>4 DEF Enough, Refill
  <2>2. k = free \/ k = left
    BY DEF Pulled
  <2>3. had + 8 * free > WordBits - 8 /\ free \in Nat
    <3> DEFINE w == WordBits - had
    <3>1. w \in Nat
      BY <1>1
    <3>2. 8 * (w \div 8) > w - 8 /\ w \div 8 \in Nat
      BY <3>1
    <3>3. free = w \div 8
      OBVIOUS
    <3> HIDE DEF free
    <3>4. had + w = WordBits
      BY <1>1
    <3> HIDE DEF w, had
    <3>5. QED
      BY <1>1, <3>1, <3>2, <3>3, <3>4
  <2>4. had + 8 * left >= n /\ left \in Nat
    <3>1. left \in Nat /\ 8 * left = 8 * (Len(d) \div 8) - 8 * r.next_byte_to_pull
      BY <1>1
    <3> HIDE DEF left, had
    <3>2. QED
      BY <1>1, <1>2, <3>1
  <2> HIDE DEF had, left, free, k
  <2>5. QED
    BY <1>1, <2>1, <2>2, <2>3, <2>4
<1>5. QED
  BY <1>1, <1>3, <1>4

\* read_bits finds bits that are there.
LEMMA ReadBitsThere ==
    ASSUME NEW d, Whole8(d), NEW r, ReaderOK(d, r), NEW n \in Nat, n <= WordBits - 8,
           Position(r) + n <= Len(d)
    PROVE  ReadBits(d, r, n) # {}
PROOF
<1>1. Enough(d, r, n).bits_in_buffer >= n
  BY RefillFills
<1>2. QED
  BY <1>1 DEF ReadBits, OnlyIf

\* Single bits, one after the other.
LEMMA ReadEachLie ==
    ASSUME NEW d \in Seq(Bit), NEW r, ReaderOK(d, r), NEW n \in Nat, NEW a \in ReadEachBit(d, r, n)
    PROVE  /\ a.bits \in Seq(Bit) /\ Len(a.bits) = n
           /\ Lies(d, Position(r), a.bits) /\ Position(r) + n <= Len(d)
PROOF
<1> DEFINE had == r.bits_in_buffer
           g == Advance(r, had)
           low == Lowest(r, had)
<1>1. had \in Nat /\ Position(r) \in Nat /\ Len(d) \in Nat
  BY ReaderNumbers
<1>2. CASE n <= had
  <2>1. ReadEachBit(d, r, n) = {[reader |-> Advance(r, n), bits |-> Lowest(r, n)]}
    BY <1>2, Zenon DEF ReadEachBit
  <2>2. a.bits = Lowest(r, n)
    BY <2>1
  <2>3. QED
    BY <1>2, <2>2, LowestIs
<1>3. CASE ~(n <= had)
  <2> DEFINE both(b) == [reader |-> b.reader, bits |-> low \o b.bits]
  <2>1. PICK b \in ReadBits(d, g, n - had) : a.bits = low \o b.bits
    <3>1. ReadEachBit(d, r, n) = UNION {{both(b)} : b \in ReadBits(d, g, n - had)}
      BY <1>3, Zenon DEF ReadEachBit, Then
    <3>2. \A b : both(b).bits = low \o b.bits
      OBVIOUS
    <3> HIDE DEF both, had, g, low
    <3>3. QED
      BY <3>1, <3>2
  <2>2. had <= had /\ n - had \in Nat
    BY <1>1, <1>3
  <2>3. ReaderOK(d, g) /\ Position(g) = Position(r) + had /\ low \in Seq(Bit) /\ Len(low) = had
    BY <1>1, <2>2, AdvanceOK
  <2>4. Lies(d, Position(r), low)
    BY <1>1, <2>2, LowestIs
  <2> HIDE DEF g, low
  <2>5. /\ b.bits \in Seq(Bit) /\ Len(b.bits) = n - had
        /\ Lies(d, Position(g), b.bits) /\ Position(g) + (n - had) <= Len(d)
    BY <2>1, <2>2, <2>3, ReadBitsOK, ReadBitsLie
  <2> DEFINE q == b.bits
  <2>6. low \o q \in Seq(Bit) /\ IsJoin(low \o q, low, q)
    BY <2>3, <2>5, Joined
  <2> HIDE DEF had, q
  <2>7. Len(low \o q) = n /\ Position(r) + n <= Len(d)
    BY <1>1, <2>2, <2>3, <2>5, <2>6 DEF IsJoin, q
  <2>8. Lies(d, Position(r), low \o q)
    <3>1. SUFFICES ASSUME NEW j \in 1..n, Position(r) + j <= Len(d) PROVE d[Position(r) + j] = (low \o q)[j]
      BY <2>7 DEF Lies
    <3>2. CASE j <= had
      <4>1. j \in 1..Len(low) /\ (low \o q)[j] = low[j]
        BY <1>1, <2>3, <2>6, <3>2 DEF IsJoin
      <4>2. QED
        BY <2>4, <3>1, <4>1 DEF Lies
    <3>3. CASE ~(j <= had)
      <4> DEFINE i == j - had
      <4>1. i \in 1..Len(q) /\ j = had + i /\ Position(r) + j = Position(g) + i
        BY <1>1, <2>3, <2>5, <3>3 DEF q
      <4> HIDE DEF i
      <4>2. (low \o q)[j] = q[i]
        BY <2>3, <2>6, <4>1 DEF IsJoin
      <4>3. QED
        BY <2>5, <3>1, <4>1, <4>2 DEF Lies, q
    <3>4. QED
      BY <3>2, <3>3
  <2>9. QED
    BY <2>1, <2>6, <2>7, <2>8 DEF q
<1>4. QED
  BY <1>2, <1>3

\* Single bits are found as well.
LEMMA ReadEachThere ==
    ASSUME NEW d, Whole8(d), NEW r, ReaderOK(d, r), NEW n \in Nat, n <= WordBits - 8,
           Position(r) + n <= Len(d)
    PROVE  ReadEachBit(d, r, n) # {}
PROOF
<1> DEFINE had == r.bits_in_buffer
           g == Advance(r, had)
           low == Lowest(r, had)
<1>0. d \in Seq(Bit)
  BY DEF Whole8
<1>1. had \in Nat /\ Position(r) \in Nat /\ Len(d) \in Nat
  BY <1>0, ReaderNumbers
<1>2. CASE n <= had
  BY <1>2 DEF ReadEachBit
<1>3. CASE ~(n <= had)
  <2> DEFINE both(b) == [reader |-> b.reader, bits |-> low \o b.bits]
  <2>6. ReadEachBit(d, r, n) = UNION {{both(b)} : b \in ReadBits(d, g, n - had)}
    BY <1>3, Zenon DEF ReadEachBit, Then
  <2> HIDE DEF both
  <2>1. had <= had /\ n - had \in Nat
    BY <1>1, <1>3
  <2>2. ReaderOK(d, g) /\ Position(g) = Position(r) + had
    BY <1>0, <1>1, <2>1, AdvanceOK
  <2> HIDE DEF g
  <2>3. Position(g) + (n - had) <= Len(d) /\ n - had <= WordBits - 8
    BY <1>1, <1>3, <2>2, WordNat
  <2> DEFINE m == n - had
  <2>4. m \in Nat /\ m <= WordBits - 8 /\ Position(g) + m <= Len(d)
    BY <2>1, <2>3
  <2> HIDE DEF m
  <2>5. ReadBits(d, g, m) # {}
    BY <2>2, <2>4, ReadBitsThere
  <2>7. QED
    BY <2>5, <2>6 DEF m
<1>4. QED
  BY <1>2, <1>3

\* What is read is what lies there.
LEMMA ReadBitsIs ==
    ASSUME NEW d \in Seq(Bit), NEW r, ReaderOK(d, r), NEW q \in Seq(Bit), Lies(d, Position(r), q),
           NEW a \in ReadBits(d, r, Len(q))
    PROVE  a.bits = q /\ ReaderOK(d, a.reader) /\ Position(a.reader) = Position(r) + Len(q)
PROOF
<1>1. Len(q) \in Nat /\ Position(r) \in Nat /\ Len(d) \in Nat
  BY ReaderNumbers
<1>2. /\ ReaderOK(d, a.reader) /\ Position(a.reader) = Position(r) + Len(q)
      /\ a.bits \in Seq(Bit) /\ Len(a.bits) = Len(q)
  BY <1>1, ReadBitsOK
<1>3. Lies(d, Position(r), a.bits) /\ Position(r) + Len(q) <= Len(d)
  BY <1>1, ReadBitsLie
<1>4. \A j \in 1..Len(q) : q[j] = a.bits[j]
  BY <1>1, <1>2, <1>3, LiesSame
<1>5. a.bits = q
  BY <1>2, <1>4
<1>6. QED
  BY <1>2, <1>5

\* The bits up to the next byte.
Pad(p) == (8 - (p % 8)) % 8

\* Less than a byte, to the next one.
LEMMA PadIs ==
    ASSUME NEW p \in Nat
    PROVE  Pad(p) \in 0..7 /\ (p + Pad(p)) % 8 = 0 /\ (p % 8 = 0 => Pad(p) = 0) /\ (p % 8 # 0 => Pad(p) = 8 - (p % 8))
PROOF
  BY DEF Pad

\* align_to_byte moves over those.
LEMMA AlignIs ==
    ASSUME NEW d \in Seq(Bit), NEW r, ReaderOK(d, r)
    PROVE  /\ \A a \in AlignToByte(d, r) :
                 ReaderOK(d, a) /\ Position(a) = Position(r) + Pad(Position(r)) /\ a.bit_pos = 0
           /\ Whole8(d) /\ Position(r) + Pad(Position(r)) <= Len(d) => AlignToByte(d, r) # {}
PROOF
<1> DEFINE p == Position(r)
           n == 8 - r.bit_pos
<1>1. /\ r.bit_pos \in Nat /\ r.bit_pos <= 7 /\ p \in Nat /\ r.byte_pos \in Nat
      /\ p = 8 * r.byte_pos + r.bit_pos
  BY ReaderNumbers
<1>2. p % 8 = r.bit_pos
  <2> DEFINE a == r.byte_pos
             b == r.bit_pos
  <2>1. a \in Nat /\ b \in Nat /\ b < 8 /\ p = a * 8 + b
    BY <1>1
  <2> HIDE DEF a, b, p
  <2>2. QED
    BY <2>1, DivMod DEF b
<1>3. CASE r.bit_pos = 0
  <2>1. AlignToByte(d, r) = {r}
    BY <1>3 DEF AlignToByte
  <2>2. Pad(p) = 0
    BY <1>1, <1>2, <1>3, PadIs
  <2> HIDE DEF p
  <2>3. QED
    BY <1>1, <1>3, <2>1, <2>2 DEF p
<1>4. CASE r.bit_pos # 0
  <2>1. AlignToByte(d, r) = {a.reader : a \in ReadBits(d, r, n)}
    BY <1>4 DEF AlignToByte, Then
  <2>2. Pad(p) = n /\ n \in Nat /\ n <= 7
    <3>1. p % 8 # 0 /\ n = 8 - (p % 8) /\ n \in Nat /\ n <= 7
      BY <1>1, <1>2, <1>4
    <3> HIDE DEF p, n
    <3>2. QED
      BY <1>1, <3>1, PadIs
  <2>3. n <= WordBits - 8
    <3>1. WordBits >= 16
      BY DecoderConstants
    <3>2. QED
      BY <2>2, <3>1, WordNat
  <2> HIDE DEF n
  <2>4. ASSUME NEW a \in AlignToByte(d, r)
        PROVE  ReaderOK(d, a) /\ Position(a) = p + n /\ a.bit_pos = 0
    <3>1. PICK b \in ReadBits(d, r, n) : a = b.reader
      BY <2>1
    <3>2. ReaderOK(d, a) /\ Position(a) = p + n
      BY <2>2, <3>1, ReadBitsOK
    <3>3. a.bit_pos \in Nat /\ a.bit_pos <= 7 /\ a.byte_pos \in Nat /\ Position(a) = 8 * a.byte_pos + a.bit_pos
      BY <3>2, ReaderNumbers
    <3> HIDE DEF p
    <3>4. (p + n) % 8 = 0
      BY <1>1, <2>2, PadIs
    <3>5. (8 * a.byte_pos + a.bit_pos) % 8 = 0
      BY <3>2, <3>3, <3>4
    <3>6. a.bit_pos = 0
      BY <3>3, <3>5
    <3>7. QED
      BY <3>2, <3>6
  <2>5. ASSUME Whole8(d), p + n <= Len(d) PROVE AlignToByte(d, r) # {}
    <3>1. ReadBits(d, r, n) # {}
      BY <2>2, <2>3, <2>5, ReadBitsThere
    <3>2. QED
      BY <2>1, <3>1
  <2>6. QED
    BY <2>2, <2>4, <2>5
<1>5. QED
  BY <1>3, <1>4

-----------------------------------------------------------------------------
(* Numbers of whole bytes and of fewer bits.                               *)

\* The lowest bits of a number, as many as asked for.
LEMMA LowFirstType ==
    ASSUME NEW v \in Nat, NEW w \in Nat
    PROVE  /\ LowFirst(v, w) \in Seq(Bit) /\ Len(LowFirst(v, w)) = w
           /\ \A k \in 1..w : LowFirst(v, w)[k] = (v \div 2^(k - 1)) % 2
PROOF
<1>1. ASSUME NEW k \in 1..w PROVE (v \div 2^(k - 1)) % 2 \in Bit
  <2>1. k - 1 \in Nat
    OBVIOUS
  <2>2. 2^(k - 1) \in Nat /\ 2^(k - 1) > 0
    BY <2>1, PowType
  <2> DEFINE m == 2^(k - 1)
  <2> HIDE DEF m
  <2>3. v \div m \in Nat
    BY <2>2, Euclid DEF m
  <2>4. QED
    BY <2>3 DEF m, Bit
<1>2. QED
  BY <1>1 DEF LowFirst

\* The powers of two up to a byte.
LEMMA Powers ==
    /\ 2^0 = 1 /\ 2^1 = 2 /\ 2^2 = 4 /\ 2^3 = 8 /\ 2^4 = 16 /\ 2^5 = 32 /\ 2^6 = 64 /\ 2^7 = 128
    /\ 2^8 = 256
PROOF
  OBVIOUS

\* Half of a quotient is the quotient by twice as much.
LEMMA Halve ==
    ASSUME NEW v \in Nat, NEW m \in Nat, m > 0, NEW n, n = m * 2
    PROVE  \E y \in Nat, r \in 0..1 : y = v \div n /\ r = (v \div m) % 2 /\ v \div m = y * 2 + r
PROOF
<1> DEFINE x == v \div m
<1>1. x \in Nat
  BY Euclid
<1>2. x \div 2 = v \div n
  BY DivDiv
<1> HIDE DEF x
<1>3. x \div 2 \in Nat /\ x % 2 \in 0..1 /\ x = (x \div 2) * 2 + (x % 2)
  BY <1>1, Euclid
<1>4. QED
  BY <1>1, <1>2, <1>3 DEF x

\* The eight lowest bits of a number.
LEMMA EightBits ==
    ASSUME NEW v \in Nat
    PROVE  v % 256 = ((v % 2) + 2 * ((v \div 2) % 2) + 4 * ((v \div 4) % 2) + 8 * ((v \div 8) % 2))
                     + 16 * (((v \div 16) % 2) + 2 * ((v \div 32) % 2) + 4 * ((v \div 64) % 2) + 8 * ((v \div 128) % 2))
PROOF
<1>1. PICK a \in Nat, ra \in 0..1 : a = v \div 2 /\ ra = v % 2 /\ v = a * 2 + ra
  BY Euclid
<1>2. PICK b \in Nat, rb \in 0..1 : b = v \div 4 /\ rb = (v \div 2) % 2 /\ a = b * 2 + rb
  <2>1. 2 \in Nat /\ 2 > 0 /\ 4 = 2 * 2
    OBVIOUS
  <2>2. QED
    BY <1>1, <2>1, Halve
<1>3. PICK c \in Nat, rc \in 0..1 : c = v \div 8 /\ rc = (v \div 4) % 2 /\ b = c * 2 + rc
  <2>1. 4 \in Nat /\ 4 > 0 /\ 8 = 4 * 2
    OBVIOUS
  <2>2. QED
    BY <1>2, <2>1, Halve
<1>4. PICK e \in Nat, re \in 0..1 : e = v \div 16 /\ re = (v \div 8) % 2 /\ c = e * 2 + re
  <2>1. 8 \in Nat /\ 8 > 0 /\ 16 = 8 * 2
    OBVIOUS
  <2>2. QED
    BY <1>3, <2>1, Halve
<1>5. PICK f \in Nat, rf \in 0..1 : f = v \div 32 /\ rf = (v \div 16) % 2 /\ e = f * 2 + rf
  <2>1. 16 \in Nat /\ 16 > 0 /\ 32 = 16 * 2
    OBVIOUS
  <2>2. QED
    BY <1>4, <2>1, Halve
<1>6. PICK g \in Nat, rg \in 0..1 : g = v \div 64 /\ rg = (v \div 32) % 2 /\ f = g * 2 + rg
  <2>1. 32 \in Nat /\ 32 > 0 /\ 64 = 32 * 2
    OBVIOUS
  <2>2. QED
    BY <1>5, <2>1, Halve
<1>7. PICK h \in Nat, rh \in 0..1 : h = v \div 128 /\ rh = (v \div 64) % 2 /\ g = h * 2 + rh
  <2>1. 64 \in Nat /\ 64 > 0 /\ 128 = 64 * 2
    OBVIOUS
  <2>2. QED
    BY <1>6, <2>1, Halve
<1>8. PICK i \in Nat, ri \in 0..1 : i = v \div 256 /\ ri = (v \div 128) % 2 /\ h = i * 2 + ri
  <2>1. 128 \in Nat /\ 128 > 0 /\ 256 = 128 * 2
    OBVIOUS
  <2>2. QED
    BY <1>7, <2>1, Halve
<1>9. PICK w \in 0..255 : w = v % 256 /\ v = i * 256 + w
  BY <1>8, Euclid
<1>10. w = (ra + 2 * rb + 4 * rc + 8 * re) + 16 * (rf + 2 * rg + 4 * rh + 8 * ri)
  <2>1. v = e * 16 + (ra + 2 * rb + 4 * rc + 8 * re)
    BY <1>1, <1>2, <1>3, <1>4
  <2>2. e = i * 16 + (rf + 2 * rg + 4 * rh + 8 * ri)
    BY <1>5, <1>6, <1>7, <1>8
  <2>3. QED
    BY <1>9, <2>1, <2>2
<1>11. QED
  BY <1>1, <1>2, <1>3, <1>4, <1>5, <1>6, <1>7, <1>8, <1>9, <1>10

LowestByte(q, v) == Len(q) = 8 /\ \A k \in 1..8 : q[k] = (v \div 2^(k - 1)) % 2

\* Eight bits are the value of a byte.
LEMMA NumberIs ==
    ASSUME NEW v \in Nat, NEW q \in Seq(Bit), LowestByte(q, v)
    PROVE  Number(q) = v % 256
PROOF
<1>1. /\ q[1] = v % 2 /\ q[2] = (v \div 2) % 2 /\ q[3] = (v \div 4) % 2 /\ q[4] = (v \div 8) % 2
      /\ q[5] = (v \div 16) % 2 /\ q[6] = (v \div 32) % 2 /\ q[7] = (v \div 64) % 2 /\ q[8] = (v \div 128) % 2
  <2>1. q[1] = (v \div 1) % 2
    BY Powers DEF LowestByte
  <2>2. (v * 1 + 0) \div 1 = v /\ v * 1 + 0 = v
    BY DivMod
  <2>3. QED
    BY <2>1, <2>2, Powers DEF LowestByte
<1>2. Number(q) = (q[1] + 2 * q[2] + 4 * q[3] + 8 * q[4]) + 16 * (q[5] + 2 * q[6] + 4 * q[7] + 8 * q[8])
  <2>1. Len(q) = 8
    BY DEF LowestByte
  <2>2. QED
    BY <2>1 DEF Number
<1>3. Number(q) = ((v % 2) + 2 * ((v \div 2) % 2) + 4 * ((v \div 4) % 2) + 8 * ((v \div 8) % 2))
                  + 16 * (((v \div 16) % 2) + 2 * ((v \div 32) % 2) + 4 * ((v \div 64) % 2) + 8 * ((v \div 128) % 2))
  BY <1>1, <1>2, Zenon
<1>4. QED
  BY <1>3, EightBits, Zenon

\* As many bits as a number is wide are the number.
LEMMA NumberOfBits ==
    ASSUME NEW w \in Nat, w <= 8, NEW v \in Nat, v < 2^w
    PROVE  Number(LowFirst(v, w)) = v
PROOF
<1> DEFINE q == LowFirst(v, w)
           p == LowFirst(v, 8)
<1>1. q \in Seq(Bit) /\ Len(q) = w /\ p \in Seq(Bit) /\ Len(p) = 8
  BY LowFirstType
<1>2. ASSUME NEW k \in 1..8 PROVE p[k] = IF k <= w THEN q[k] ELSE 0
  <2>1. p[k] = (v \div 2^(k - 1)) % 2
    BY LowFirstType
  <2>2. CASE k <= w
    BY <2>1, <2>2, LowFirstType
  <2>3. CASE ~(k <= w)
    <3>1. k - 1 \in Nat /\ w <= k - 1
      BY <2>3
    <3>2. 2^w <= 2^(k - 1) /\ 2^(k - 1) \in Nat /\ 2^w \in Nat
      BY <3>1, PowOrder, PowType
    <3> DEFINE m == 2^(k - 1)
    <3> HIDE DEF m
    <3>3. m \in Nat /\ v < m /\ 0 * m + v = v
      BY <3>2 DEF m
    <3>4. v \div m = 0
      BY <3>3, DivMod
    <3>5. p[k] = (v \div m) % 2
      BY <2>1 DEF m
    <3>6. 0 % 2 = 0
      OBVIOUS
    <3> HIDE DEF p
    <3>7. QED
      BY <2>3, <3>4, <3>5, <3>6
  <2>4. QED
    BY <2>2, <2>3
<1>3. LowestByte(p, v)
  BY LowFirstType DEF LowestByte
<1> HIDE DEF p, q
<1>4. Number(q) = Number(p)
  BY <1>1, <1>2 DEF Number
<1>5. Number(p) = v % 256
  BY <1>1, <1>3, NumberIs
<1>6. v < 256 /\ 0 * 256 + v = v
  <2>1. 2^w <= 2^8 /\ 2^w \in Nat
    BY PowOrder, PowType
  <2>2. 2^8 = 256
    BY Powers
  <2> DEFINE x == 2^w
  <2> HIDE DEF x
  <2>3. x <= 256 /\ x \in Nat /\ v < x
    BY <2>1, <2>2 DEF x
  <2>4. QED
    BY <2>3
<1>7. v % 256 = v
  BY <1>6, DivMod
<1>8. QED
  BY <1>4, <1>5, <1>7 DEF q

\* A number of sixteen bits, as two bytes.
LEMMA TwoBytes ==
    ASSUME NEW v \in Nat, v < 2^16, NEW lo \in Seq(Bit), NEW hi \in Seq(Bit), Len(lo) = 8, Len(hi) = 8,
           LowFirst(v, 16) = lo \o hi
    PROVE  Number(lo) + 256 * Number(hi) = v
PROOF
<1> DEFINE u == v \div 256
           q == LowFirst(v, 16)
<1>1. \A k \in 1..16 : q[k] = (v \div 2^(k - 1)) % 2
  BY LowFirstType
<1>2. IsJoin(q, lo, hi)
  BY Joined
<1>3. u \in Nat /\ u <= 255 /\ v = u * 256 + (v % 256) /\ v % 256 \in 0..255
  <2>1. u \in Nat /\ v = u * 256 + (v % 256) /\ v % 256 \in 0..255
    BY Euclid
  <2>2. 2^16 = 256 * 256
    BY PowAdd, Powers
  <2> DEFINE w == v % 256
             b == 256
  <2> HIDE DEF u, w
  <2>3. ~(u >= b)
    <3>1. u \in Nat /\ w \in Nat /\ b \in Nat /\ v = u * b + w /\ v < b * b
      BY <2>1, <2>2 DEF w
    <3> HIDE DEF b
    <3>2. ASSUME u >= b PROVE u * b >= b * b
      <4>1. (u - b) * b >= 0 /\ (u - b) * b = u * b - b * b
        BY <3>1, <3>2
      <4>2. QED
        BY <3>1, <4>1
    <3>3. QED
      BY <3>1, <3>2
  <2>4. QED
    BY <2>1, <2>3
<1> HIDE DEF q
<1>4. LowestByte(lo, v)
  BY <1>1, <1>2 DEF LowestByte, IsJoin
<1>5. LowestByte(hi, u)
  <2>1. ASSUME NEW k \in 1..8 PROVE hi[k] = (u \div 2^(k - 1)) % 2
    <3>1. hi[k] = q[8 + k] /\ 8 + k \in 1..16
      BY <1>2 DEF IsJoin
    <3>2. q[8 + k] = (v \div 2^((8 + k) - 1)) % 2
      BY <1>1, <3>1
    <3> DEFINE i == k - 1
               b == 2^8
               m == 2^i
    <3>3. i \in Nat /\ (8 + k) - 1 = 8 + i
      OBVIOUS
    <3> HIDE DEF i
    <3>4. 2^(8 + i) = b * m /\ m \in Nat /\ m > 0 /\ b \in Nat /\ b > 0
      BY <3>3, PowAdd, PowType
    <3>5. b = 256
      BY Powers
    <3> DEFINE n == 2^(8 + i)
    <3>6. q[8 + k] = (v \div n) % 2
      BY <3>2, <3>3, Zenon
    <3>a. b * m = n
      BY <3>4
    <3> HIDE DEF n, m, b
    <3>b. (v \div b) \div m = v \div (b * m)
      BY <3>4, DivDiv
    <3>7. (v \div b) \div m = v \div n
      BY <3>a, <3>b
    <3>8. hi[k] = ((v \div b) \div m) % 2
      BY <3>1, <3>6, <3>7
    <3>9. QED
      BY <3>5, <3>8 DEF m, i, u
  <2>2. QED
    BY <2>1 DEF LowestByte
<1> HIDE DEF u
<1>6. Number(lo) = v % 256 /\ Number(hi) = u % 256
  BY <1>3, <1>4, <1>5, NumberIs
<1>7. u % 256 = u
  <2>1. 0 * 256 + u = u
    BY <1>3
  <2>2. QED
    BY <1>3, <2>1, DivMod
<1> DEFINE w == v % 256
<1> HIDE DEF w
<1>8. w \in Nat /\ v = u * 256 + w /\ Number(lo) = w /\ Number(hi) = u
  BY <1>3, <1>6, <1>7 DEF w
<1>9. QED
  BY <1>3, <1>8

\* Two parts that lie behind one another are what lies there.
LEMMA JoinIs ==
    ASSUME NEW d, Len(d) \in Nat, NEW p \in Nat, NEW x \in Seq(Bit), NEW y \in Seq(Bit), NEW z \in Seq(Bit),
           Lies(d, p, x), Lies(d, p + Len(x), y), Lies(d, p, z), Len(z) = Len(x) + Len(y), p + Len(z) <= Len(d)
    PROVE  z = x \o y
PROOF
<1> DEFINE w == x \o y
<1>1. w \in Seq(Bit) /\ IsJoin(w, x, y)
  BY Joined
<1> HIDE DEF w
<1>2. Len(x) \in Nat /\ Len(y) \in Nat /\ Len(w) = Len(z)
  BY <1>1 DEF IsJoin
<1>3. ASSUME NEW j \in 1..Len(z) PROVE z[j] = w[j]
  <2>1. z[j] = d[p + j] /\ p + j <= Len(d)
    BY DEF Lies
  <2>2. CASE j <= Len(x)
    <3>1. w[j] = x[j] /\ j \in 1..Len(x)
      BY <1>1, <1>2, <2>2 DEF IsJoin
    <3>2. QED
      BY <2>1, <3>1 DEF Lies
  <2>3. CASE ~(j <= Len(x))
    <3> DEFINE i == j - Len(x)
    <3>1. i \in 1..Len(y) /\ j = Len(x) + i /\ (p + Len(x)) + i = p + j
      BY <1>2, <2>3
    <3> HIDE DEF i
    <3>2. w[j] = y[i]
      BY <1>1, <3>1 DEF IsJoin
    <3>3. d[(p + Len(x)) + i] = y[i]
      BY <2>1, <3>1 DEF Lies
    <3>4. QED
      BY <2>1, <3>1, <3>2, <3>3
  <2>4. QED
    BY <2>2, <2>3
<1>4. QED
  BY <1>1, <1>2, <1>3 DEF w

\* read_u16_le.
LEMMA ReadU16Is ==
    ASSUME NEW d \in Seq(Bit), NEW r, ReaderOK(d, r), NEW v \in Nat, v < 2^16, Lies(d, Position(r), LowFirst(v, 16))
    PROVE  /\ \A a \in ReadU16(d, r) : ReaderOK(d, a.reader) /\ Position(a.reader) = Position(r) + 16 /\ a.value = v
           /\ Whole8(d) /\ r.bit_pos = 0 /\ Position(r) + 16 <= Len(d) => ReadU16(d, r) # {}
PROOF
<1>0. Position(r) \in Nat /\ Len(d) \in Nat
  BY ReaderNumbers
<1>1. ASSUME NEW a \in ReadU16(d, r)
      PROVE  ReaderOK(d, a.reader) /\ Position(a.reader) = Position(r) + 16 /\ a.value = v
  <2>1. PICK lo \in ReadU8(d, r) :
          \E hi \in ReadU8(d, lo.reader) : a.reader = hi.reader /\ a.value = lo.value + 256 * hi.value
    BY DEF ReadU16, Then
  <2>2. PICK hi \in ReadU8(d, lo.reader) : a.reader = hi.reader /\ a.value = lo.value + 256 * hi.value
    BY <2>1
  <2>3. PICK x \in ReadBits(d, r, 8) : lo.reader = x.reader /\ lo.value = Number(x.bits)
    BY DEF ReadU8, Then
  <2>4. PICK y \in ReadBits(d, lo.reader, 8) : hi.reader = y.reader /\ hi.value = Number(y.bits)
    BY DEF ReadU8, Then
  <2>5. /\ ReaderOK(d, lo.reader) /\ Position(lo.reader) = Position(r) + 8 /\ x.bits \in Seq(Bit) /\ Len(x.bits) = 8
        /\ Lies(d, Position(r), x.bits) /\ Position(r) + 8 <= Len(d)
    <3> DEFINE n == 8
    <3>0. n \in Nat /\ x \in ReadBits(d, r, n)
      BY <2>3
    <3> HIDE DEF n
    <3>a. ReaderOK(d, x.reader) /\ Position(x.reader) = Position(r) + n /\ x.bits \in Seq(Bit) /\ Len(x.bits) = n
      BY <3>0, ReadBitsOK
    <3>1. ReaderOK(d, x.reader) /\ Position(x.reader) = Position(r) + 8 /\ x.bits \in Seq(Bit) /\ Len(x.bits) = 8
      BY <3>a DEF n
    <3>2. Lies(d, Position(r), x.bits) /\ Position(r) + 8 <= Len(d)
      BY <2>3, ReadBitsLie
    <3>3. QED
      BY <2>3, <3>1, <3>2
  <2>6. /\ ReaderOK(d, hi.reader) /\ Position(hi.reader) = Position(lo.reader) + 8 /\ y.bits \in Seq(Bit) /\ Len(y.bits) = 8
        /\ Lies(d, Position(lo.reader), y.bits) /\ Position(lo.reader) + 8 <= Len(d)
    <3>1. ReaderOK(d, y.reader) /\ Position(y.reader) = Position(lo.reader) + 8 /\ y.bits \in Seq(Bit) /\ Len(y.bits) = 8
      BY <2>4, <2>5, ReadBitsOK
    <3>2. Lies(d, Position(lo.reader), y.bits) /\ Position(lo.reader) + 8 <= Len(d)
      BY <2>4, <2>5, ReadBitsLie
    <3>3. QED
      BY <2>4, <3>1, <3>2
  <2> DEFINE p == x.bits
             q == y.bits
             z == LowFirst(v, 16)
  <2>7. z \in Seq(Bit) /\ Len(z) = 16 /\ Lies(d, Position(r), z)
    BY LowFirstType
  <2>8. Position(r) + 16 <= Len(d)
    BY <1>0, <2>5, <2>6
  <2> HIDE DEF z
  <2>9. z = p \o q
    <3> HIDE DEF p, q
    <3>1. /\ p \in Seq(Bit) /\ q \in Seq(Bit) /\ Len(p) = 8 /\ Len(q) = 8 /\ Lies(d, Position(r), p)
          /\ Lies(d, Position(r) + Len(p), q)
      BY <2>5, <2>6 DEF p, q
    <3>2. Len(z) = Len(p) + Len(q) /\ Position(r) + Len(z) <= Len(d)
      BY <2>7, <2>8, <3>1
    <3>3. QED
      BY <1>0, <2>7, <3>1, <3>2, JoinIs
  <2>10. Number(p) + 256 * Number(q) = v
    <3>1. /\ p \in Seq(Bit) /\ q \in Seq(Bit) /\ Len(p) = 8 /\ Len(q) = 8 /\ LowFirst(v, 16) = p \o q
          /\ v \in Nat /\ v < 2^16
      BY <2>5, <2>6, <2>9 DEF z
    <3> HIDE DEF p, q
    <3>2. QED
      BY <3>1, TwoBytes, Zenon
  <2>11. Position(hi.reader) = Position(r) + 16
    BY <1>0, <2>5, <2>6
  <2>12. QED
    BY <2>2, <2>3, <2>4, <2>6, <2>10, <2>11
<1>2. ASSUME Whole8(d), r.bit_pos = 0, Position(r) + 16 <= Len(d) PROVE ReadU16(d, r) # {}
  <2>0. 8 <= WordBits - 8 /\ 8 \in Nat
    BY DecoderConstants, WordNat
  <2>1. PICK x : x \in ReadBits(d, r, 8)
    <3>1. ReadBits(d, r, 8) # {}
      BY <1>0, <1>2, <2>0, ReadBitsThere
    <3>2. QED
      BY <3>1
  <2> DEFINE lo == [reader |-> x.reader, value |-> Number(x.bits)]
  <2>2. lo \in ReadU8(d, r) /\ lo.reader = x.reader
    BY <1>2, <2>1 DEF ReadU8, Then
  <2>3. ReaderOK(d, lo.reader) /\ Position(lo.reader) = Position(r) + 8
    BY <2>1, <2>2, ReadBitsOK
  <2>4. lo.reader.bit_pos = 0
    <3> DEFINE s == lo.reader
    <3> HIDE DEF s, lo
    <3>1. /\ r.byte_pos \in Nat /\ Position(r) = 8 * r.byte_pos + r.bit_pos /\ s.byte_pos \in Nat /\ s.bit_pos \in Nat
          /\ s.bit_pos <= 7 /\ Position(s) = 8 * s.byte_pos + s.bit_pos
      BY <2>3, ReaderNumbers DEF s
    <3>2. 8 * s.byte_pos + s.bit_pos = 8 * r.byte_pos + 8
      BY <1>2, <2>3, <3>1 DEF s
    <3>3. s.bit_pos = 0
      BY <3>1, <3>2
    <3>4. QED
      BY <3>3 DEF s
  <2> HIDE DEF lo
  <2>5. PICK y : y \in ReadBits(d, lo.reader, 8)
    <3>1. Position(lo.reader) + 8 <= Len(d)
      BY <1>0, <1>2, <2>3
    <3>2. ReadBits(d, lo.reader, 8) # {}
      BY <1>0, <1>2, <2>0, <2>3, <3>1, ReadBitsThere
    <3>3. QED
      BY <3>2
  <2> DEFINE hi == [reader |-> y.reader, value |-> Number(y.bits)]
  <2>6. hi \in ReadU8(d, lo.reader)
    BY <2>4, <2>5 DEF ReadU8, Then
  <2> HIDE DEF hi
  <2> DEFINE f(h) == [reader |-> h.reader, value |-> lo.value + 256 * h.value]
             g(l) == UNION {{[reader |-> h.reader, value |-> l.value + 256 * h.value]} : h \in ReadU8(d, l.reader)}
  <2>7. f(hi) \in g(lo)
    BY <2>6
  <2>8. ReadU16(d, r) = UNION {g(l) : l \in ReadU8(d, r)}
    BY DEF ReadU16, Then
  <2> HIDE DEF f, g
  <2>9. QED
    BY <2>2, <2>7, <2>8
<1>3. QED
  BY <1>1, <1>2

\* Where the position is at a byte.
LEMMA OnByte ==
    ASSUME NEW d \in Seq(Bit), NEW r, ReaderOK(d, r)
    PROVE  r.bit_pos = 0 <=> Position(r) % 8 = 0
PROOF
<1> DEFINE a == r.byte_pos
           b == r.bit_pos
           p == Position(r)
<1>1. a \in Nat /\ b \in Nat /\ b < 8 /\ p = a * 8 + b
  BY ReaderNumbers
<1> HIDE DEF a, b, p
<1>2. p % 8 = b
  BY <1>1, DivMod
<1>3. QED
  BY <1>2 DEF b, p

\* A byte, two or four behind a byte is at one.
LEMMA EightMore == ASSUME NEW p \in Nat, p % 8 = 0 PROVE (p + 8) % 8 = 0 /\ (p + 16) % 8 = 0 /\ (p + 32) % 8 = 0
PROOF
  OBVIOUS

\* read_u32_le.
LEMMA ReadU32Is ==
    ASSUME NEW d \in Seq(Bit), NEW r, ReaderOK(d, r), NEW v \in Nat, v < 2^16, NEW w \in Nat, w < 2^16,
           Lies(d, Position(r), LowFirst(v, 16)), Lies(d, Position(r) + 16, LowFirst(w, 16))
    PROVE  /\ \A a \in ReadU32(d, r) : ReaderOK(d, a.reader) /\ Position(a.reader) = Position(r) + 32 /\ a.value = <<v, w>>
           /\ Whole8(d) /\ r.bit_pos = 0 /\ Position(r) + 32 <= Len(d) => ReadU32(d, r) # {}
PROOF
<1>0. Position(r) \in Nat /\ Len(d) \in Nat
  BY ReaderNumbers
<1>1. ASSUME NEW lo \in ReadU16(d, r)
      PROVE  /\ ReaderOK(d, lo.reader) /\ Position(lo.reader) = Position(r) + 16 /\ lo.value = v
             /\ Lies(d, Position(lo.reader), LowFirst(w, 16))
  <2>1. ReaderOK(d, lo.reader) /\ Position(lo.reader) = Position(r) + 16 /\ lo.value = v
    BY ReadU16Is
  <2>2. QED
    BY <2>1
<1>2. ASSUME NEW a \in ReadU32(d, r)
      PROVE  ReaderOK(d, a.reader) /\ Position(a.reader) = Position(r) + 32 /\ a.value = <<v, w>>
  <2>1. PICK lo \in ReadU16(d, r) :
          \E hi \in ReadU16(d, lo.reader) : a.reader = hi.reader /\ a.value = <<lo.value, hi.value>>
    BY DEF ReadU32, Then
  <2>2. PICK hi \in ReadU16(d, lo.reader) : a.reader = hi.reader /\ a.value = <<lo.value, hi.value>>
    BY <2>1
  <2>3. /\ ReaderOK(d, lo.reader) /\ Position(lo.reader) = Position(r) + 16 /\ lo.value = v
        /\ Lies(d, Position(lo.reader), LowFirst(w, 16))
    BY <1>1
  <2>4. ReaderOK(d, hi.reader) /\ Position(hi.reader) = Position(lo.reader) + 16 /\ hi.value = w
    BY <2>2, <2>3, ReadU16Is
  <2>5. Position(hi.reader) = Position(r) + 32
    BY <1>0, <2>3, <2>4
  <2>6. QED
    BY <2>2, <2>3, <2>4, <2>5
<1>3. ASSUME Whole8(d), r.bit_pos = 0, Position(r) + 32 <= Len(d) PROVE ReadU32(d, r) # {}
  <2>1. PICK lo : lo \in ReadU16(d, r)
    <3>1. Position(r) + 16 <= Len(d)
      BY <1>0, <1>3
    <3>2. ReadU16(d, r) # {}
      BY <1>3, <3>1, ReadU16Is
    <3>3. QED
      BY <3>2
  <2>2. /\ ReaderOK(d, lo.reader) /\ Position(lo.reader) = Position(r) + 16
        /\ Lies(d, Position(lo.reader), LowFirst(w, 16))
    BY <1>1, <2>1
  <2>3. lo.reader.bit_pos = 0
    <3>1. Position(r) % 8 = 0
      BY <1>3, OnByte
    <3>2. (Position(r) + 16) % 8 = 0
      BY <1>0, <3>1, EightMore
    <3>3. QED
      BY <2>2, <3>2, OnByte
  <2>4. PICK hi : hi \in ReadU16(d, lo.reader)
    <3>1. Position(lo.reader) + 16 <= Len(d)
      BY <1>0, <1>3, <2>2
    <3>2. ReadU16(d, lo.reader) # {}
      BY <1>3, <2>2, <2>3, <3>1, ReadU16Is
    <3>3. QED
      BY <3>2
  <2> DEFINE f(h) == [reader |-> h.reader, value |-> <<lo.value, h.value>>]
             g(l) == UNION {{[reader |-> h.reader, value |-> <<l.value, h.value>>]} : h \in ReadU16(d, l.reader)}
  <2>5. f(hi) \in g(lo)
    BY <2>4
  <2>6. ReadU32(d, r) = UNION {g(l) : l \in ReadU16(d, r)}
    BY DEF ReadU32, Then
  <2> HIDE DEF f, g
  <2>7. QED
    BY <2>1, <2>5, <2>6
<1>4. QED
  BY <1>2, <1>3

\* Where the k-th of n bytes is, in bits.
LEMMA ByteAt ==
    ASSUME NEW h \in Nat, NEW n \in Nat, NEW m \in Nat, NEW k \in 1..n, h + n <= m
    PROVE  /\ 8 * (h + k - 1) \in Nat /\ 8 * (h + k - 1) = 8 * h + 8 * (k - 1)
           /\ 8 * (h + k) = 8 * (h + k - 1) + 8 /\ 8 * (h + k - 1) + 8 <= 8 * m
PROOF
  OBVIOUS

\* Bytes lie there, each from its lowest bit up.
BytesLie(d, p, bytes) == \A k \in 1..Len(bytes) : Lies(d, p + 8 * (k - 1), LowFirst(bytes[k], 8))

\* read_bytes: as many bytes as lie there.
LEMMA ReadBytesIs ==
    ASSUME NEW d, Whole8(d), NEW r, ReaderOK(d, r), NEW bytes \in Seq(0..255),
           BytesLie(d, Position(r), bytes)
    PROVE  /\ \A a \in ReadBytes(d, r, Len(bytes)) :
                 ReaderOK(d, a.reader) /\ Position(a.reader) = Position(r) + 8 * Len(bytes) /\ a.bytes = bytes
           /\ r.bit_pos = 0 /\ Position(r) + 8 * Len(bytes) <= Len(d) => ReadBytes(d, r, Len(bytes)) # {}
PROOF
<1> DEFINE n == Len(bytes)
           here == r.byte_pos
<1>0. d \in Seq(Bit)
  BY DEF Whole8
<1>1. /\ here \in Nat /\ r.bit_pos \in Nat /\ Position(r) = 8 * here + r.bit_pos /\ Position(r) \in Nat
      /\ Len(d) \in Nat /\ 8 * (Len(d) \div 8) = Len(d) /\ Len(d) \div 8 \in Nat /\ n \in Nat
  BY <1>0, ReaderNumbers, WholeBytes
<1>b. \A k \in 1..n : bytes[k] \in 0..255
  BY ElementOfSeq, Zenon
<1>2. ASSUME NEW a \in ReadBytes(d, r, n)
      PROVE  ReaderOK(d, a.reader) /\ Position(a.reader) = Position(r) + 8 * n /\ a.bytes = bytes
  <2>1. ReaderOK(d, a.reader) /\ Position(a.reader) = Position(r) + 8 * n /\ a.bytes \in Seq(Nat) /\ Len(a.bytes) = n
    BY <1>0, <1>1, ReadBytesOK
  <2> DEFINE byte(k) == SubSeq(d, 8 * (here + k - 1) + 1, 8 * (here + k))
  <2>2. r.bit_pos = 0 /\ here + n <= Len(d) \div 8 /\ a.bytes = [k \in 1..n |-> Number(byte(k))]
    BY DEF ReadBytes, OnlyIf
  <2>3. ASSUME NEW k \in 1..n PROVE a.bytes[k] = bytes[k]
    <3>1. a.bytes[k] = Number(byte(k))
      BY <2>2
    <3> DEFINE p == 8 * (here + k - 1)
               v == bytes[k]
               z == LowFirst(v, 8)
    <3> DEFINE m == Len(d) \div 8
    <3>a. here \in Nat /\ n \in Nat /\ m \in Nat /\ here + n <= m /\ 8 * m = Len(d) /\ Position(r) = 8 * here
      BY <1>1, <2>2
    <3>b. v \in 0..255
      BY <1>b
    <3>d. Lies(d, Position(r) + 8 * (k - 1), z)
      BY DEF BytesLie
    <3> HIDE DEF n, here, m, v, z
    <3>c. p \in Nat /\ p = 8 * here + 8 * (k - 1) /\ 8 * (here + k) = p + 8 /\ p + 8 <= 8 * m
      BY <3>a, ByteAt
    <3>2. v \in Nat /\ v <= 255 /\ p \in Nat /\ p = Position(r) + 8 * (k - 1) /\ 8 * (here + k) = p + 8
      <4>1. v \in Nat /\ v <= 255
        BY <3>b
      <4> HIDE DEF p
      <4>2. QED
        BY <3>a, <3>c, <4>1
    <3>3. p + 8 <= Len(d)
      BY <3>a, <3>c
    <3>4. z \in Seq(Bit) /\ Len(z) = 8 /\ Lies(d, p, z)
      <4> HIDE DEF p
      <4>1. Lies(d, p, z)
        BY <3>2, <3>d
      <4>2. z \in Seq(Bit) /\ Len(z) = 8
        BY <3>2, LowFirstType DEF z
      <4>3. QED
        BY <4>1, <4>2
    <3>5. byte(k) = SubSeq(d, p + 1, p + 8)
      BY <3>2
    <3>6. Number(z) = v
      <4> HIDE DEF v
      <4>1. v < 2^8
        BY <3>2, Powers
      <4>2. 8 \in Nat /\ 8 <= 8
        OBVIOUS
      <4>3. QED
        BY <3>2, <4>1, <4>2, NumberOfBits DEF z
    <3> HIDE DEF byte, p, z, v
    <3>7. SubSeq(d, p + 1, p + 8) = z
      <4> DEFINE q == SubSeq(d, p + 1, p + 8)
      <4>1. \A i \in (p + 1)..(p + 8) : d[i] \in Bit
        BY <1>0, <3>2, <3>3
      <4>2. /\ q \in Seq(Bit) /\ Len(q) = IF p + 1 <= p + 8 THEN ((p + 8) - (p + 1)) + 1 ELSE 0
            /\ \A i \in 1..(((p + 8) - (p + 1)) + 1) : q[i] = d[((p + 1) + i) - 1]
        BY <3>2, <4>1, SubSeqProperties
      <4> HIDE DEF q
      <4>3. Len(q) = 8 /\ ((p + 8) - (p + 1)) + 1 = 8
        BY <3>2, <4>2
      <4>4. ASSUME NEW i \in 1..8 PROVE q[i] = z[i]
        <5>a. i \in 1..(((p + 8) - (p + 1)) + 1) /\ ((p + 1) + i) - 1 = p + i
          BY <3>2, <4>3
        <5>b. p + i <= Len(d)
          <6>1. Len(d) \in Nat
            BY <1>1
          <6>2. QED
            BY <3>2, <3>3, <6>1
        <5>1. q[i] = d[((p + 1) + i) - 1] /\ ((p + 1) + i) - 1 = p + i /\ p + i <= Len(d)
          BY <4>2, <5>a, <5>b
        <5>2. d[p + i] = z[i]
          BY <3>4, <5>1 DEF Lies
        <5>3. QED
          BY <5>1, <5>2
      <4>5. q = z
        BY <3>4, <4>2, <4>3, <4>4
      <4>6. QED
        BY <4>5 DEF q
    <3>8. QED
      BY <3>1, <3>5, <3>6, <3>7 DEF v
  <2>4. a.bytes = bytes
    <3>1. DOMAIN a.bytes = 1..n /\ DOMAIN bytes = 1..n
      BY <2>1
    <3>2. QED
      BY <2>1, <2>3, <3>1
  <2>5. QED
    BY <2>1, <2>4
<1>3. ASSUME r.bit_pos = 0, Position(r) + 8 * n <= Len(d) PROVE ReadBytes(d, r, n) # {}
  <2> DEFINE m == Len(d) \div 8
  <2>1. here + n <= m
    <3>1. m \in Nat /\ 8 * here + 8 * n <= 8 * m
      BY <1>1, <1>3
    <3> HIDE DEF m, here, n
    <3>2. QED
      BY <1>1, <3>1
  <2>2. QED
    BY <1>3, <2>1 DEF ReadBytes, OnlyIf
<1>4. QED
  BY <1>2, <1>3

\* Parts of one width lie at its multiples.
LEMMA FlatEven ==
    ASSUME NEW S, NEW q \in Seq(Seq(S)), NEW w \in Nat, \A i \in 1..Len(q) : Len(q[i]) = w
    PROVE  \A n \in 0..Len(q) : Len(FlatTo(q, n)) = w * n
PROOF
<1> DEFINE P == {n \in 0..Len(q) : Len(FlatTo(q, n)) = w * n}
<1>0. Len(q) \in Nat
  OBVIOUS
<1>1. 0 \in P
  <2>1. FlatTo(q, 0) = <<>>
    BY FlatToSteps
  <2>a. w * 0 = 0 /\ Len(<<>>) = 0
    OBVIOUS
  <2>2. QED
    BY <1>0, <2>1, <2>a
<1>2. ASSUME NEW i \in 0..(Len(q) - 1), i \in P PROVE i + 1 \in P
  <2>1. i \in Nat /\ i + 1 \in 1..Len(q) /\ (i + 1) - 1 = i /\ i \in 0..Len(q) /\ i + 1 \in 0..Len(q)
    BY <1>0
  <2> DEFINE x == FlatTo(q, i)
             y == q[i + 1]
             z == FlatTo(q, i + 1)
  <2>2. x \in Seq(S) /\ y \in Seq(S) /\ Len(y) = w /\ Len(x) = w * i
    BY <1>2, <2>1, FlatToType
  <2>3. z = x \o y
    BY <2>1, FlatToSteps
  <2> HIDE DEF x, y, z
  <2>4. IsJoin(z, x, y)
    BY <2>2, <2>3, Joined
  <2>5. Len(z) = w * i + w /\ w * i + w = w * (i + 1)
    BY <2>1, <2>2, <2>4 DEF IsJoin
  <2>6. QED
    BY <2>1, <2>5 DEF z
<1> HIDE DEF P
<1>3. \A i \in 0..Len(q) : i \in P
  BY <1>0, <1>1, <1>2, UpTo
<1>4. QED
  BY <1>3 DEF P

\* The parts of what is laid end to end, each at its place.
LEMMA HoldsFlat ==
    ASSUME NEW d, Len(d) \in Nat, NEW p \in Nat, NEW q \in Seq(Seq(Bit)), Holds(d, p, FlattenSeq(q)), NEW i \in 1..Len(q)
    PROVE  /\ Holds(d, p + Len(FlatTo(q, i - 1)), q[i])
           /\ Len(FlatTo(q, i)) = Len(FlatTo(q, i - 1)) + Len(q[i])
           /\ Len(FlatTo(q, i - 1)) \in Nat /\ Len(q[i]) \in Nat
PROOF
<1> DEFINE x == FlatTo(q, i - 1)
           y == q[i]
           z == FlatTo(q, i)
           all == FlattenSeq(q)
<1>1. i - 1 \in 0..Len(q) /\ i \in 0..Len(q)
  OBVIOUS
<1>2. x \in Seq(Bit) /\ y \in Seq(Bit) /\ z = x \o y /\ z \in Seq(Bit)
  <2>1. x \in Seq(Bit) /\ z \in Seq(Bit)
    BY <1>1, FlatToType
  <2>2. z = x \o y
    BY FlatToSteps
  <2>3. y \in Seq(Bit)
    OBVIOUS
  <2>4. QED
    BY <2>1, <2>2, <2>3
<1>3. Len(z) <= Len(all) /\ \A j \in 1..Len(z) : all[j] = z[j]
  BY <1>1, FlatToPrefix
<1>4. all \in Seq(Bit)
  <2>1. Len(q) \in 0..Len(q)
    OBVIOUS
  <2>2. FlatTo(q, Len(q)) \in Seq(Bit) /\ FlatTo(q, Len(q)) = all
    BY <2>1, FlatToType, FlatToSteps
  <2>3. QED
    BY <2>2
<1> HIDE DEF x, y, z, all
<1>5. Holds(d, p, z)
  <2>1. Len(z) \in Nat /\ Len(all) \in Nat
    BY <1>2, <1>4
  <2>2. p + Len(all) <= Len(d) /\ \A j \in 1..Len(all) : d[p + j] = all[j]
    BY DEF Holds, all
  <2>3. QED
    BY <1>3, <2>1, <2>2 DEF Holds
<1>6. Holds(d, p, x \o y)
  BY <1>2, <1>5
<1>7. Holds(d, p + Len(x), y) /\ Len(z) = Len(x) + Len(y)
  BY <1>2, <1>6, HoldsSplit
<1>8. QED
  BY <1>2, <1>7 DEF x, y, z

-----------------------------------------------------------------------------
(* The codes that from_lengths hands out are the canonical prefix code.    *)

\* The lengths of a code, at least one.
Lengths == Seq(0..MaxCodeBits)

\* The greatest of the lengths bounds each of them.
LEMMA LongestIs ==
    ASSUME NEW l \in Lengths
    PROVE  /\ LongestCode(l) \in 0..MaxCodeBits
           /\ \A i \in 1..Len(l) : l[i] \in 0..LongestCode(l)
PROOF
<1> DEFINE S == {0} \cup {l[i] : i \in DOMAIN l}
<1>1. MaxCodeBits \in Nat
  BY Parameters
<1>2. \A i \in 1..Len(l) : l[i] \in 0..MaxCodeBits /\ l[i] \in S
  <2>1. ASSUME NEW i \in 1..Len(l) PROVE l[i] \in 0..MaxCodeBits /\ i \in DOMAIN l
    <3> DEFINE T == 0..MaxCodeBits
    <3>1. l \in Seq(T)
      BY DEF Lengths
    <3> HIDE DEF T
    <3>2. l[i] \in T /\ i \in DOMAIN l
      BY <3>1, ElementOfSeq
    <3>3. QED
      BY <3>2 DEF T
  <2>2. \A i \in DOMAIN l : l[i] \in S
    OBVIOUS
  <2> HIDE DEF S
  <2>3. QED
    BY <2>1, <2>2
<1>3. S \subseteq 0..MaxCodeBits /\ S # {}
  <2>1. DOMAIN l = 1..Len(l)
    BY DEF Lengths
  <2>2. 0 \in 0..MaxCodeBits /\ 0 \in S
    BY <1>1
  <2>3. QED
    BY <1>2, <2>1, <2>2
<1> HIDE DEF S
<1>4. Max(S) \in S /\ \A y \in S : y <= Max(S)
  BY <1>1, <1>3, MaxIs
<1>5. LongestCode(l) = Max(S)
  BY DEF LongestCode, S
<1> HIDE DEF S
<1> DEFINE m == Max(S)
<1>6. m \in 0..MaxCodeBits /\ \A y \in S : y <= m
  BY <1>3, <1>4
<1> HIDE DEF m
<1>7. ASSUME NEW i \in 1..Len(l) PROVE l[i] \in 0..m
  BY <1>1, <1>2, <1>6
<1>8. QED
  BY <1>5, <1>6, <1>7 DEF m

\* The used symbols are finitely many, and so are those of one length.
LEMMA UsedIs ==
    ASSUME NEW l \in Lengths
    PROVE  /\ IsFiniteSet(Used(l)) /\ Used(l) \subseteq 0..(Len(l) - 1) /\ Used(l) \subseteq Nat
           /\ \A b : IsFiniteSet(OfLength(l, b)) /\ OfLength(l, b) \subseteq Used(l) /\ Cardinality(OfLength(l, b)) \in Nat
           /\ \A s \in Used(l) : /\ s + 1 \in 1..Len(l) /\ l[s + 1] \in 1..LongestCode(l)
                                 /\ l[s + 1] \in Nat /\ l[s + 1] >= 1 /\ l[s + 1] <= MaxCodeBits
PROOF
<1>1. Len(l) \in Nat /\ MaxCodeBits \in Nat
  BY Parameters DEF Lengths
<1>2. IsFiniteSet(0..(Len(l) - 1))
  BY <1>1, CardUpTo
<1>3. IsFiniteSet(Used(l)) /\ Used(l) \subseteq 0..(Len(l) - 1)
  <2>1. Used(l) \subseteq 0..(Len(l) - 1)
    BY DEF Used
  <2>2. QED
    BY <1>2, <2>1, FS_Subset
<1>4. ASSUME NEW b PROVE IsFiniteSet(OfLength(l, b)) /\ OfLength(l, b) \subseteq Used(l) /\ Cardinality(OfLength(l, b)) \in Nat
  <2>1. OfLength(l, b) \subseteq Used(l)
    BY DEF OfLength
  <2>2. QED
    BY <1>3, <2>1, FS_Subset, FS_CardinalityType
<1>5. ASSUME NEW s \in Used(l)
      PROVE  /\ s + 1 \in 1..Len(l) /\ l[s + 1] \in 1..LongestCode(l)
             /\ l[s + 1] \in Nat /\ l[s + 1] >= 1 /\ l[s + 1] <= MaxCodeBits
  <2>1. s \in 0..(Len(l) - 1) /\ l[s + 1] > 0
    BY DEF Used
  <2>2. s + 1 \in 1..Len(l)
    BY <1>1, <2>1
  <2>3. l[s + 1] \in 0..LongestCode(l) /\ LongestCode(l) \in 0..MaxCodeBits
    BY <2>2, LongestIs
  <2>4. QED
    BY <1>1, <2>1, <2>2, <2>3
<1>6. Used(l) \subseteq Nat
  BY <1>1, <1>3
<1>7. QED
  BY <1>3, <1>4, <1>5, <1>6

\* calculate_next_codes, length by length.
LEMMA NextCodesIs ==
    ASSUME NEW l \in Lengths
    PROVE  /\ \A b \in 0..LongestCode(l) : NextCodes(l)[b] \in Nat
           /\ NextCodes(l)[0] = 0
           /\ \A b \in 1..LongestCode(l) : NextCodes(l)[b] = 2 * (NextCodes(l)[b - 1] + Cardinality(OfLength(l, b - 1)))
PROOF
<1> DEFINE n == LongestCode(l)
           c(b) == Cardinality(OfLength(l, b))
           body(h, b) == IF b = 0 THEN 0 ELSE 2 * (h[b - 1] + c(b - 1))
           IsNext(h) == h = [b \in 0..n |-> body(h, b)]
           g == [b \in 1..n |-> [v \in Nat |-> 2 * (v + c(b - 1))]]
<1>1. n \in Nat
  BY LongestIs, Parameters
<1>2. \A b : c(b) \in Nat
  BY UsedIs
<1> HIDE DEF n, c
<1>3. g \in [1..n -> [Nat -> Nat]]
  BY <1>2
<1>4. PICK f : Iterates(f, Nat, 0, n, g)
  <2> HIDE DEF g
  <2>1. 0 \in Nat
    OBVIOUS
  <2>2. QED
    BY <1>1, <1>3, <2>1, Recursive
<1>5. f \in [0..n -> Nat] /\ f[0] = 0 /\ \A b \in 1..n : f[b] = g[b][f[b - 1]]
  BY <1>4, Zenon DEF Iterates
<1>6. \A b \in 1..n, v \in Nat : g[b][v] = 2 * (v + c(b - 1))
  OBVIOUS
<1> HIDE DEF g
<1>7. ASSUME NEW b \in 0..n PROVE f[b] = body(f, b)
  <2>1. CASE b = 0
    BY <1>5, <2>1
  <2>2. CASE b # 0
    <3>1. b \in 1..n /\ b - 1 \in 0..n
      BY <1>1, <2>2
    <3>2. f[b - 1] \in Nat
      BY <1>5, <3>1
    <3>3. QED
      BY <1>5, <1>6, <2>2, <3>1, <3>2
  <2>3. QED
    BY <2>1, <2>2
<1>8. IsNext(f)
  <2>1. f = [b \in 0..n |-> f[b]]
    BY <1>5
  <2> HIDE DEF body
  <2>2. QED
    BY <1>7, <2>1
<1>9. IsNext(NextCodes(l))
  <2>1. NextCodes(l) = CHOOSE h : IsNext(h)
    BY Zenon DEF NextCodes, n, c
  <2> HIDE DEF IsNext
  <2>2. QED
    BY <1>8, <2>1
<1> DEFINE N == NextCodes(l)
<1> HIDE DEF N
<1>10. \A b \in 0..n : N[b] = body(N, b)
  <2>1. IsNext(N)
    BY <1>9 DEF N
  <2> HIDE DEF body
  <2>2. QED
    BY <2>1, Zenon
<1>11. N[0] = 0 /\ \A b \in 1..n : N[b] = 2 * (N[b - 1] + c(b - 1))
  BY <1>1, <1>10
<1> DEFINE P == {b \in 0..n : N[b] \in Nat}
<1>12. 0 \in P
  BY <1>1, <1>11
<1>13. ASSUME NEW b \in 0..(n - 1), b \in P PROVE b + 1 \in P
  <2>1. b + 1 \in 1..n /\ (b + 1) - 1 = b
    BY <1>1
  <2>2. N[b + 1] = 2 * (N[b] + c(b))
    BY <1>11, <2>1
  <2>3. N[b] \in Nat /\ c(b) \in Nat
    BY <1>2, <1>13
  <2>4. N[b + 1] \in Nat
    BY <2>2, <2>3
  <2>5. QED
    BY <1>1, <2>1, <2>4
<1> HIDE DEF P
<1>14. \A b \in 0..n : b \in P
  BY <1>1, <1>12, <1>13, UpTo
<1>15. QED
  BY <1>11, <1>14 DEF P, N, n, c

\* The used symbols of shorter codes, where a symbol's part of the line begins,
\* and the number that is its code.
Shorter(l, b) == {t \in Used(l) : l[t + 1] < b}
Begin(l, s) == SumFunctionOnSet(Parts(l), Earlier(l, s))
CodeNumber(l, s) == NextCodes(l)[l[s + 1]] + Cardinality({t \in OfLength(l, l[s + 1]) : t < s})

\* A used symbol has a part, and the others have none.
LEMMA PartsType ==
    ASSUME NEW l \in Lengths
    PROVE  /\ DOMAIN Parts(l) = 0..(Len(l) - 1)
           /\ \A s \in 0..(Len(l) - 1) : Parts(l)[s] \in Nat
           /\ \A s \in Used(l) : /\ MaxCodeBits - l[s + 1] \in Nat /\ Parts(l)[s] = 2^(MaxCodeBits - l[s + 1])
                                 /\ Parts(l)[s] \in Nat /\ Parts(l)[s] > 0
PROOF
<1>1. \A s \in 0..(Len(l) - 1) : Parts(l)[s] = IF l[s + 1] = 0 THEN 0 ELSE 2^(MaxCodeBits - l[s + 1])
  BY DEF Parts
<1>2. Len(l) \in Nat /\ MaxCodeBits \in Nat
  BY Parameters DEF Lengths
<1>3. ASSUME NEW s \in 0..(Len(l) - 1) PROVE Parts(l)[s] \in Nat
  <2>1. s + 1 \in 1..Len(l)
    BY <1>2
  <2>2. l[s + 1] \in 0..LongestCode(l) /\ LongestCode(l) \in 0..MaxCodeBits
    BY <2>1, LongestIs
  <2>3. MaxCodeBits - l[s + 1] \in Nat
    BY <1>2, <2>2
  <2>4. 2^(MaxCodeBits - l[s + 1]) \in Nat
    BY <2>3, PowType
  <2>5. QED
    BY <1>1, <2>4
<1>4. ASSUME NEW s \in Used(l)
      PROVE  /\ MaxCodeBits - l[s + 1] \in Nat /\ Parts(l)[s] = 2^(MaxCodeBits - l[s + 1])
             /\ Parts(l)[s] \in Nat /\ Parts(l)[s] > 0
  <2>1. s \in 0..(Len(l) - 1) /\ l[s + 1] \in Nat /\ l[s + 1] >= 1 /\ l[s + 1] <= MaxCodeBits
    BY UsedIs
  <2>2. MaxCodeBits - l[s + 1] \in Nat /\ l[s + 1] # 0
    BY <1>2, <2>1
  <2>3. 2^(MaxCodeBits - l[s + 1]) \in Nat /\ 2^(MaxCodeBits - l[s + 1]) > 0
    BY <2>2, PowType
  <2>4. QED
    BY <1>1, <2>1, <2>2, <2>3
<1>5. DOMAIN Parts(l) = 0..(Len(l) - 1)
  BY DEF Parts
<1>6. QED
  BY <1>3, <1>4, <1>5

\* The codes of a length begin where the parts of the shorter ones end.
LEMMA NextCodesBegin ==
    ASSUME NEW l \in Lengths
    PROVE  \A b \in 0..LongestCode(l) :
             SumFunctionOnSet(Parts(l), Shorter(l, b)) = NextCodes(l)[b] * 2^(MaxCodeBits - b)
PROOF
<1> DEFINE n == LongestCode(l)
           N == NextCodes(l)
           sum(S) == SumFunctionOnSet(Parts(l), S)
           unit(b) == 2^(MaxCodeBits - b)
           P == {b \in 0..n : sum(Shorter(l, b)) = N[b] * unit(b)}
<1>1. n \in Nat /\ n <= MaxCodeBits /\ MaxCodeBits \in Nat
  BY LongestIs, Parameters
<1>2. 0 \in P
  <2>1. Shorter(l, 0) = {}
    <3>1. \A t \in Used(l) : ~(l[t + 1] < 0)
      BY UsedIs
    <3>2. QED
      BY <3>1 DEF Shorter
  <2>2. sum(Shorter(l, 0)) = 0
    BY <2>1, SumEmpty
  <2>3. N[0] = 0 /\ unit(0) \in Nat
    BY <1>1, NextCodesIs, PowType
  <2> HIDE DEF sum, N, unit
  <2>4. N[0] * unit(0) = 0
    BY <2>3
  <2>5. QED
    BY <1>1, <2>2, <2>4
<1>3. ASSUME NEW b \in 0..(n - 1), b \in P PROVE b + 1 \in P
  <2> DEFINE A == Shorter(l, b)
             B == OfLength(l, b)
             c == Cardinality(B)
             u == unit(b + 1)
  <2>1. b \in Nat /\ b + 1 \in 1..n /\ b + 1 \in 0..n /\ b \in 0..n /\ (b + 1) - 1 = b
    BY <1>1
  <2>2. Shorter(l, b + 1) = A \cup B /\ A \cap B = {} /\ A \subseteq Used(l) /\ B \subseteq Used(l)
    <3>1. \A t \in Used(l) : l[t + 1] < b + 1 <=> l[t + 1] < b \/ l[t + 1] = b
      BY <2>1, UsedIs
    <3>2. \A t \in Used(l) : ~(l[t + 1] < b /\ l[t + 1] = b)
      BY <2>1
    <3>3. QED
      BY <3>1, <3>2 DEF Shorter, OfLength
  <2>3. IsFiniteSet(A) /\ IsFiniteSet(B) /\ c \in Nat
    BY <2>2, UsedIs, FS_Subset, FS_CardinalityType
  <2>4. \A t \in Used(l) : Parts(l)[t] \in Nat
    BY PartsType
  <2>5. unit(b) = 2 * u /\ u \in Nat /\ unit(b) \in Nat
    <3>1. MaxCodeBits - (b + 1) \in Nat /\ MaxCodeBits - b = (MaxCodeBits - (b + 1)) + 1
      BY <1>1, <2>1
    <3>2. 2^((MaxCodeBits - (b + 1)) + 1) = 2 * u /\ u \in Nat
      BY <3>1, PowNext, PowType
    <3>3. QED
      BY <3>1, <3>2
  <2>6. \A t \in B : Parts(l)[t] = unit(b)
    <3>1. \A t \in B : t \in Used(l) /\ l[t + 1] = b
      BY DEF OfLength
    <3>2. QED
      BY <3>1, PartsType
  <2>7. sum(B) = c * unit(b)
    <3> HIDE DEF B
    <3> DEFINE v == unit(b)
    <3>1. v \in Nat /\ \A t \in B : Parts(l)[t] = v
      BY <2>5, <2>6
    <3> HIDE DEF v
    <3>2. sum(B) = c * v
      BY <2>3, <3>1, SumConstant
    <3>3. QED
      BY <3>2 DEF v
  <2>8. sum(Shorter(l, b + 1)) = sum(A) + sum(B)
    <3> HIDE DEF A, B
    <3>1. \A t \in A \cup B : Parts(l)[t] \in Nat
      BY <2>2, <2>4
    <3>2. sum(A \cup B) = sum(A) + sum(B)
      BY <2>2, <2>3, <3>1, SumUnion
    <3>3. QED
      BY <2>2, <3>2
  <2>9. sum(A) = N[b] * unit(b)
    BY <1>3
  <2>10. N[b + 1] = 2 * (N[b] + c) /\ N[b] \in Nat
    BY <2>1, NextCodesIs
  <2> HIDE DEF A, B, c, u, unit, N, sum
  <2>11. sum(Shorter(l, b + 1)) = N[b] * (2 * u) + c * (2 * u)
    BY <2>5, <2>7, <2>8, <2>9
  <2>12. N[b] * (2 * u) + c * (2 * u) = (2 * (N[b] + c)) * u
    BY <2>3, <2>5, <2>10
  <2>13. QED
    BY <2>1, <2>10, <2>11, <2>12 DEF u
<1> HIDE DEF P
<1>4. \A b \in 0..n : b \in P
  BY <1>1, <1>2, <1>3, UpTo
<1>5. QED
  BY <1>4 DEF P

\* What lies before the part of a symbol, counted in parts of its size.
LEMMA BeginIs ==
    ASSUME NEW l \in Lengths, NEW s \in Used(l)
    PROVE  /\ CodeNumber(l, s) \in Nat
           /\ Begin(l, s) = CodeNumber(l, s) * Parts(l)[s]
PROOF
<1> DEFINE b == l[s + 1]
           A == Shorter(l, b)
           B == {t \in OfLength(l, b) : t < s}
           c == Cardinality(B)
           u == Parts(l)[s]
           N == NextCodes(l)[b]
           sum(S) == SumFunctionOnSet(Parts(l), S)
<1>1. b \in 1..LongestCode(l) /\ b \in 0..LongestCode(l) /\ b \in Nat /\ b >= 1
  <2>1. b \in 1..LongestCode(l) /\ b \in Nat /\ b >= 1 /\ LongestCode(l) \in 0..MaxCodeBits
    BY UsedIs, LongestIs
  <2>2. QED
    BY <2>1
<1>2. u \in Nat /\ u > 0 /\ u = 2^(MaxCodeBits - b)
  BY PartsType
<1>3. B \subseteq Used(l) /\ A \subseteq Used(l) /\ A \cap B = {}
  <2>1. B \subseteq OfLength(l, b) /\ \A t \in B : l[t + 1] = b
    BY DEF OfLength
  <2>2. \A t \in A : t \in Used(l) /\ l[t + 1] < b
    BY DEF Shorter
  <2>3. \A t \in A : t \notin B
    <3> HIDE DEF B
    <3>1. QED
      BY <1>1, <2>1, <2>2
  <2>4. B \subseteq Used(l)
    BY <2>1, UsedIs
  <2>5. QED
    BY <2>2, <2>3, <2>4
<1>4. IsFiniteSet(A) /\ IsFiniteSet(B) /\ c \in Nat
  <2> HIDE DEF B, A
  <2>1. QED
    BY <1>3, UsedIs, FS_Subset, FS_CardinalityType
<1>5. Earlier(l, s) = A \cup B
  <2>1. \A t : t \in Earlier(l, s) <=> t \in 0..(Len(l) - 1) /\ l[t + 1] > 0 /\ (l[t + 1] < b \/ (l[t + 1] = b /\ t < s))
    BY PartsType DEF Earlier
  <2>2. \A t : t \in A <=> t \in 0..(Len(l) - 1) /\ l[t + 1] > 0 /\ l[t + 1] < b
    BY DEF Shorter, Used
  <2>3. \A t : t \in B <=> t \in 0..(Len(l) - 1) /\ l[t + 1] > 0 /\ l[t + 1] = b /\ t < s
    BY DEF OfLength, Used
  <2> HIDE DEF A, B
  <2>4. \A t : t \in Earlier(l, s) <=> t \in A \cup B
    BY <2>1, <2>2, <2>3
  <2>5. QED
    BY <2>4
<1>6. sum(A \cup B) = sum(A) + sum(B)
  <2> HIDE DEF A, B
  <2>1. \A t \in A \cup B : Parts(l)[t] \in Nat
    BY <1>3, PartsType
  <2>2. QED
    BY <1>3, <1>4, <2>1, SumUnion
<1>7. sum(A) = N * u
  BY <1>1, <1>2, NextCodesBegin
<1>8. sum(B) = c * u
  <2>1. \A t \in B : t \in Used(l) /\ l[t + 1] = b
    BY <1>3 DEF OfLength
  <2>2. \A t \in B : Parts(l)[t] = u
    BY <1>2, <2>1, PartsType
  <2> HIDE DEF B, u
  <2>3. QED
    BY <1>2, <1>4, <2>2, SumConstant
<1>9. N \in Nat
  BY <1>1, NextCodesIs
<1>10. CodeNumber(l, s) = N + c
  BY DEF CodeNumber
<1>11. Begin(l, s) = sum(A \cup B)
  BY <1>5 DEF Begin
<1> HIDE DEF N, c, u, A, B, sum
<1>12. (N + c) * u = N * u + c * u
  BY <1>2, <1>4, <1>9
<1>13. QED
  BY <1>4, <1>6, <1>7, <1>8, <1>9, <1>10, <1>11, <1>12 DEF u

\* Of two symbols the part of one lies behind the part of the other, and no part
\* lies behind the end of the line.
LEMMA PartsApart ==
    ASSUME NEW l \in Lengths, IsCode(l), NEW s \in Used(l)
    PROVE  /\ Begin(l, s) \in Nat /\ Begin(l, s) + Parts(l)[s] <= 2^MaxCodeBits
           /\ \A t \in Used(l) :
                 t # s => \/ l[t + 1] <= l[s + 1] /\ Begin(l, t) + Parts(l)[t] <= Begin(l, s)
                          \/ l[s + 1] <= l[t + 1] /\ Begin(l, s) + Parts(l)[s] <= Begin(l, t)
PROOF
<1> DEFINE E(t) == Earlier(l, t)
           sum(S) == SumFunctionOnSet(Parts(l), S)
           All == 0..(Len(l) - 1)
<1>1. Used(l) \subseteq All /\ Used(l) \subseteq Nat /\ IsFiniteSet(Used(l)) /\ IsFiniteSet(All) /\ \A t \in All : Parts(l)[t] \in Nat
  <2>1. Len(l) \in Nat
    BY DEF Lengths
  <2>2. QED
    BY <2>1, CardUpTo, UsedIs, PartsType
<1>2. \A t : E(t) = {v \in Used(l) : l[v + 1] < l[t + 1] \/ (l[v + 1] = l[t + 1] /\ v < t)}
  BY PartsType DEF Earlier, Used
<1>3. ASSUME NEW t \in Used(l)
      PROVE  /\ t \notin E(t) /\ E(t) \subseteq Used(l) /\ IsFiniteSet(E(t) \cup {t}) /\ E(t) \cup {t} \subseteq All
             /\ sum(E(t) \cup {t}) = Begin(l, t) + Parts(l)[t] /\ Begin(l, t) \in Nat /\ Parts(l)[t] \in Nat
  <2>1. t \notin E(t) /\ E(t) \subseteq Used(l)
    <3>1. t \in Nat /\ l[t + 1] \in Nat
      BY <1>1, UsedIs
    <3>2. ~(l[t + 1] < l[t + 1]) /\ ~(t < t)
      BY <3>1
    <3>3. QED
      BY <1>2, <3>2
  <2> DEFINE F == E(t)
             G == F \cup {t}
  <2> HIDE DEF F
  <2>2. G \subseteq Used(l) /\ F \subseteq Used(l) /\ t \notin F
    BY <2>1 DEF F
  <2>3. IsFiniteSet(G) /\ IsFiniteSet(F)
    BY <1>1, <2>2, FS_Subset
  <2>4. \A v \in G : Parts(l)[v] \in Nat
    BY <1>1, <2>2
  <2>5. t \in G /\ G \ {t} = F
    BY <2>2
  <2> HIDE DEF G
  <2>6. sum(G) = Parts(l)[t] + sum(F) /\ sum(F) \in Nat
    <3>1. sum(G) = Parts(l)[t] + sum(G \ {t})
      BY <2>3, <2>4, <2>5, SumRemove
    <3>2. \A v \in F : Parts(l)[v] \in Nat
      BY <1>1, <2>2
    <3>3. sum(F) \in Nat
      BY <2>3, <3>2, SumType
    <3>4. QED
      BY <2>5, <3>1, <3>3
  <2>7. Begin(l, t) = sum(F) /\ Parts(l)[t] \in Nat
    BY <1>1 DEF Begin, F
  <2>8. QED
    BY <1>1, <2>1, <2>2, <2>3, <2>6, <2>7 DEF F, G
<1>4. Begin(l, s) \in Nat /\ Begin(l, s) + Parts(l)[s] <= 2^MaxCodeBits
  <2>1. sum(E(s) \cup {s}) <= sum(All)
    <3> DEFINE G == E(s) \cup {s}
    <3>1. G \subseteq All
      BY <1>3
    <3> HIDE DEF G, All
    <3>2. sum(G) <= sum(All)
      BY <1>1, <3>1, SumGrows
    <3>3. QED
      BY <3>2 DEF G
  <2>2. sum(All) <= 2^MaxCodeBits
    <3>1. SumFunction(Parts(l)) = sum(All)
      BY PartsType DEF SumFunction
    <3>2. QED
      BY <3>1 DEF IsCode
  <2>3. sum(All) \in Nat /\ 2^MaxCodeBits \in Nat
    BY <1>1, SumType, Parameters, PowType
  <2>4. Begin(l, s) + Parts(l)[s] <= sum(All) /\ Begin(l, s) + Parts(l)[s] \in Nat /\ Begin(l, s) \in Nat
    <3>1. sum(E(s) \cup {s}) = Begin(l, s) + Parts(l)[s] /\ Begin(l, s) \in Nat /\ Parts(l)[s] \in Nat
      BY <1>3
    <3> HIDE DEF sum, E
    <3>2. QED
      BY <2>1, <3>1
  <2> HIDE DEF sum
  <2>5. QED
    BY <2>2, <2>3, <2>4
<1>5. ASSUME NEW a \in Used(l), NEW t \in Used(l), a \in E(t)
      PROVE  Begin(l, a) + Parts(l)[a] <= Begin(l, t) /\ l[a + 1] <= l[t + 1]
  <2>1. /\ a \in Nat /\ t \in Nat /\ l[a + 1] \in Nat /\ l[t + 1] \in Nat
        /\ l[a + 1] < l[t + 1] \/ (l[a + 1] = l[t + 1] /\ a < t)
    BY <1>1, <1>2, <1>5, UsedIs
  <2>2. E(a) \cup {a} \subseteq E(t)
    <3>1. ASSUME NEW v \in E(a) PROVE v \in E(t)
      <4>1. v \in Used(l) /\ (l[v + 1] < l[a + 1] \/ (l[v + 1] = l[a + 1] /\ v < a))
        BY <1>2
      <4>2. v \in Nat /\ l[v + 1] \in Nat
        BY <1>1, <4>1, UsedIs
      <4>3. l[v + 1] < l[t + 1] \/ (l[v + 1] = l[t + 1] /\ v < t)
        BY <2>1, <4>1, <4>2
      <4>4. QED
        BY <1>2, <4>1, <4>3
    <3>2. QED
      BY <1>5, <3>1
  <2> DEFINE F == E(t)
             G == E(a) \cup {a}
  <2>3. F \subseteq Used(l) /\ sum(G) = Begin(l, a) + Parts(l)[a] /\ Begin(l, t) = sum(F) /\ G \subseteq F
    BY <1>3, <2>2 DEF Begin
  <2> HIDE DEF F, G
  <2>4. IsFiniteSet(F) /\ \A v \in F : Parts(l)[v] \in Nat
    BY <1>1, <2>3, FS_Subset
  <2>5. sum(G) <= sum(F)
    BY <2>3, <2>4, SumGrows
  <2>6. l[a + 1] <= l[t + 1]
    BY <2>1
  <2>7. QED
    BY <2>3, <2>5, <2>6
<1>6. ASSUME NEW t \in Used(l), t # s PROVE t \in E(s) \/ s \in E(t)
  <2>1. /\ s \in Nat /\ t \in Nat /\ l[s + 1] \in Nat /\ l[t + 1] \in Nat
    BY <1>1, UsedIs
  <2>2. \/ l[t + 1] < l[s + 1] \/ (l[t + 1] = l[s + 1] /\ t < s)
        \/ l[s + 1] < l[t + 1] \/ (l[s + 1] = l[t + 1] /\ s < t)
    BY <1>6, <2>1
  <2>3. QED
    BY <1>2, <2>2
<1>7. QED
  BY <1>4, <1>5, <1>6

\* The bits of the code of a symbol are those of its number, the highest first,
\* and what from_lengths inserts is that code.
LEMMA CodeIs ==
    ASSUME NEW l \in Lengths, NEW s \in Used(l)
    PROVE  /\ Code(l, s) = Path(l, s)
           /\ Code(l, s) \in Seq(Bit) /\ Len(Code(l, s)) = l[s + 1]
           /\ \A k \in 1..l[s + 1] : Code(l, s)[k] = (CodeNumber(l, s) \div 2^(l[s + 1] - k)) % 2
PROOF
<1> DEFINE n == l[s + 1]
           c == CodeNumber(l, s)
           q == LowFirst(c, n)
           bits == [k \in 1..n |-> (c \div 2^(n - k)) % 2]
<1>1. n \in Nat /\ n >= 1
  BY UsedIs
<1>2. c \in Nat /\ Begin(l, s) = c * Parts(l)[s] /\ Parts(l)[s] \in Nat /\ Parts(l)[s] > 0
  BY BeginIs, PartsType
<1>3. Begin(l, s) \div Parts(l)[s] = c
  <2> DEFINE u == Parts(l)[s]
  <2>1. u \in Nat /\ u > 0 /\ c \in Nat
    BY <1>2
  <2> HIDE DEF c, u
  <2>2. (c * u + 0) \div u = c
    BY <2>1, DivMod
  <2>3. c * u + 0 = c * u
    BY <2>1
  <2>4. QED
    BY <1>2, <2>2, <2>3 DEF u
<1>4. Code(l, s) = Reverse(q)
  BY <1>3 DEF Code, Begin
<1>5. q \in Seq(Bit) /\ Len(q) = n /\ \A k \in 1..n : q[k] = (c \div 2^(k - 1)) % 2
  BY <1>1, <1>2, LowFirstType
<1>6. Path(l, s) = bits
  BY DEF Path, CodeNumber
<1>7. Reverse(q) = bits
  <2> HIDE DEF c, n, q
  <2>1. Reverse(q) = [k \in 1..n |-> q[(n - k) + 1]]
    BY <1>5 DEF Reverse
  <2>2. ASSUME NEW k \in 1..n PROVE q[(n - k) + 1] = (c \div 2^(n - k)) % 2
    <3>1. (n - k) + 1 \in 1..n /\ ((n - k) + 1) - 1 = n - k
      BY <1>1
    <3>2. QED
      BY <1>5, <3>1
  <2>3. QED
    BY <2>1, <2>2
<1>8. bits \in Seq(Bit) /\ Len(bits) = n
  <2> HIDE DEF c, n
  <2>1. \A k \in 1..n : n - k \in Nat
    BY <1>1
  <2>2. \A k \in 1..n : (c \div 2^(n - k)) % 2 \in Bit
    <3>1. ASSUME NEW k \in 1..n PROVE (c \div 2^(n - k)) % 2 \in Bit
      <4> DEFINE m == 2^(n - k)
      <4>1. m \in Nat /\ m > 0
        BY <2>1, PowType
      <4> HIDE DEF m
      <4>2. c \div m \in Nat
        BY <1>2, <4>1, Euclid
      <4>3. (c \div m) % 2 \in 0..1
        BY <4>2
      <4>4. QED
        BY <4>3 DEF Bit, m
    <3>2. QED
      BY <3>1
  <2>3. bits = [k \in 1..n |-> bits[k]] /\ \A k \in 1..n : bits[k] \in Bit
    BY <2>2
  <2> HIDE DEF bits
  <2>4. QED
    BY <1>1, <2>3, ASequence
<1> HIDE DEF c, n, q
<1>9. Code(l, s) = bits
  BY <1>4, <1>7
<1>10. \A k \in 1..n : bits[k] = (c \div 2^(n - k)) % 2
  OBVIOUS
<1> HIDE DEF bits
<1>11. QED
  BY <1>6, <1>8, <1>9, <1>10 DEF c, n

\* Equal but for a bit, and in that bit.
LEMMA HalfSame ==
    ASSUME NEW a \in Nat, NEW b \in Nat, NEW m \in Nat, m > 0,
           a \div (m * 2) = b \div (m * 2), (a \div m) % 2 = (b \div m) % 2
    PROVE  a \div m = b \div m
PROOF
<1> DEFINE x == a \div m
           y == b \div m
<1>1. x \in Nat /\ y \in Nat
  BY Euclid
<1>2. x \div 2 = a \div (m * 2) /\ y \div 2 = b \div (m * 2)
  <2>1. 2 \in Nat /\ 2 > 0
    OBVIOUS
  <2>2. QED
    BY <2>1, DivDiv
<1> HIDE DEF x, y
<1>3. x \div 2 = y \div 2
  BY <1>2
<1>4. x % 2 = y % 2
  BY DEF x, y
<1>5. x = y
  BY <1>1, <1>3, <1>4
<1>6. QED
  BY <1>5 DEF x, y

\* Numbers of n bits that agree bit for bit, the highest first, are the same.
LEMMA SameBits ==
    ASSUME NEW n \in Nat, NEW a \in Nat, NEW b \in Nat, a < 2^n, b < 2^n,
           \A k \in 1..n : (a \div 2^(n - k)) % 2 = (b \div 2^(n - k)) % 2
    PROVE  a = b
PROOF
<1> DEFINE P == {k \in 0..n : a \div 2^(n - k) = b \div 2^(n - k)}
<1>1. 0 \in P
  <2> DEFINE m == 2^n
  <2>1. m \in Nat /\ m > 0
    BY PowType
  <2>2. a < m /\ b < m
    OBVIOUS
  <2> HIDE DEF m
  <2>3. (0 * m + a) \div m = 0 /\ (0 * m + b) \div m = 0
    BY <2>1, <2>2, DivMod
  <2>4. 0 * m + a = a /\ 0 * m + b = b
    BY <2>1
  <2>5. a \div m = b \div m /\ n - 0 = n
    BY <2>3, <2>4
  <2>6. QED
    BY <2>5 DEF m
<1>2. ASSUME NEW k \in 0..(n - 1), k \in P PROVE k + 1 \in P
  <2> DEFINE m == 2^(n - (k + 1))
             w == 2^(n - k)
  <2>1. n - (k + 1) \in Nat /\ n - k = (n - (k + 1)) + 1 /\ k + 1 \in 1..n /\ k + 1 \in 0..n
    OBVIOUS
  <2>2. m \in Nat /\ m > 0 /\ w = m * 2
    <3>1. 2^((n - (k + 1)) + 1) = 2 * m /\ m \in Nat /\ m > 0
      BY <2>1, PowNext, PowType
    <3>2. w = 2 * m
      BY <2>1, <3>1
    <3> HIDE DEF m, w
    <3>3. QED
      BY <3>1, <3>2
  <2>3. (a \div m) % 2 = (b \div m) % 2
    BY <2>1
  <2>4. a \div w = b \div w
    BY <1>2
  <2> HIDE DEF m, w
  <2>5. a \div m = b \div m
    <3>1. a \div (m * 2) = b \div (m * 2)
      BY <2>2, <2>4
    <3>2. QED
      BY <2>2, <2>3, <3>1, HalfSame
  <2>6. QED
    BY <2>1, <2>5 DEF m
<1> HIDE DEF P
<1>3. n \in P
  <2>1. \A i \in 0..n : i \in P
    BY <1>1, <1>2, UpTo
  <2>2. QED
    BY <2>1
<1>4. a \div 2^(n - n) = b \div 2^(n - n)
  BY <1>3 DEF P
<1>5. n - n = 0 /\ 2^0 = 1
  BY Powers
<1>6. a \div 1 = b \div 1
  BY <1>4, <1>5
<1>7. a \div 1 = a /\ b \div 1 = b
  OBVIOUS
<1>8. QED
  BY <1>6, <1>7

\* No code begins with another: the parts lie apart.
LEMMA PrefixFree ==
    ASSUME NEW l \in Lengths, IsCode(l), NEW s \in Used(l), NEW t \in Used(l), l[s + 1] <= l[t + 1],
           \A k \in 1..l[s + 1] : Code(l, s)[k] = Code(l, t)[k]
    PROVE  s = t
PROOF
<1> DEFINE m == l[s + 1]
           n == l[t + 1]
           a == CodeNumber(l, s)
           b == CodeNumber(l, t)
           u == Parts(l)[s]
           v == Parts(l)[t]
           w == 2^(n - m)
<1>1. m \in Nat /\ n \in Nat /\ m <= n /\ n <= MaxCodeBits /\ MaxCodeBits \in Nat
  BY UsedIs, Parameters
<1>2. a \in Nat /\ b \in Nat /\ Begin(l, s) = a * u /\ Begin(l, t) = b * v
  BY BeginIs
<1>3. u \in Nat /\ v \in Nat /\ u > 0 /\ v > 0 /\ u = 2^(MaxCodeBits - m) /\ v = 2^(MaxCodeBits - n)
  BY PartsType
<1>4. w \in Nat /\ w > 0 /\ u = w * v
  <2> HIDE DEF m, n
  <2>1. n - m \in Nat /\ MaxCodeBits - n \in Nat /\ MaxCodeBits - m = (n - m) + (MaxCodeBits - n)
    BY <1>1
  <2>2. 2^((n - m) + (MaxCodeBits - n)) = 2^(n - m) * 2^(MaxCodeBits - n) /\ 2^(n - m) \in Nat /\ 2^(n - m) > 0
    BY <2>1, PowType, PowAdd
  <2>3. QED
    BY <1>3, <2>1, <2>2
<1>5. a * u + u <= 2^MaxCodeBits /\ b * v + v <= 2^MaxCodeBits
  BY <1>2, PartsApart
<1>6. a < 2^m /\ b < 2^n
  <2>1. ASSUME NEW i \in Nat, i <= MaxCodeBits, NEW x \in Nat, NEW p \in Nat, p > 0, p = 2^(MaxCodeBits - i), x * p + p <= 2^MaxCodeBits
        PROVE  x < 2^i
    <3> DEFINE e == 2^i
               all == 2^MaxCodeBits
    <3>1. MaxCodeBits - i \in Nat /\ MaxCodeBits = i + (MaxCodeBits - i)
      BY <1>1, <2>1
    <3>2. 2^(i + (MaxCodeBits - i)) = e * p /\ e \in Nat
      BY <2>1, <3>1, PowAdd, PowType
    <3>3. x * p + p <= e * p
      BY <2>1, <3>1, <3>2
    <3> HIDE DEF e
    <3>4. CASE x >= e
      <4>1. PICK f \in Nat : x = e + f
        <5>1. x - e \in Nat /\ x = e + (x - e)
          BY <3>2, <3>4
        <5>2. QED
          BY <5>1
      <4>2. x * p = e * p + f * p /\ f * p \in Nat /\ e * p \in Nat
        BY <2>1, <3>2, <4>1
      <4>3. QED
        BY <2>1, <3>3, <4>2
    <3>5. QED
      BY <3>2, <3>4 DEF e
  <2> HIDE DEF m, n, a, b, u, v
  <2>2. QED
    BY <1>1, <1>2, <1>3, <1>5, <2>1
<1> DEFINE c == b \div w
<1>7. c \in Nat /\ c * w <= b /\ b < c * w + w
  <2> HIDE DEF b, w
  <2>1. b \div w \in Nat /\ b % w \in 0..(w - 1) /\ b = (b \div w) * w + (b % w)
    BY <1>2, <1>4, Euclid
  <2>2. (b \div w) * w \in Nat
    BY <1>4, <2>1
  <2>3. PICK r \in 0..(w - 1) : b = c * w + r
    BY <2>1
  <2>4. c \in Nat /\ c * w \in Nat
    BY <2>1, <2>2
  <2> HIDE DEF c
  <2>5. QED
    BY <1>4, <2>3, <2>4
<1>8. c < 2^m
  <2> DEFINE e == 2^m
  <2>1. 2^n = e * w /\ e \in Nat
    <3>1. n - m \in Nat /\ n = m + (n - m)
      BY <1>1
    <3>2. 2^(m + (n - m)) = 2^m * 2^(n - m) /\ 2^m \in Nat
      BY <1>1, <3>1, PowAdd, PowType
    <3>3. QED
      BY <3>1, <3>2
  <2> HIDE DEF c, e, w, b, n
  <2>2. c * w < e * w
    BY <1>2, <1>4, <1>6, <1>7, <2>1
  <2>3. CASE c >= e
    <3>1. PICK f \in Nat : c = e + f
      <4>1. c - e \in Nat /\ c = e + (c - e)
        BY <1>7, <2>1, <2>3
      <4>2. QED
        BY <4>1
    <3>2. c * w = e * w + f * w /\ f * w \in Nat /\ e * w \in Nat
      BY <1>4, <2>1, <3>1
    <3>3. QED
      BY <2>2, <3>2
  <2>4. QED
    BY <1>7, <2>1, <2>3 DEF e
<1>9. \A k \in 1..m : (a \div 2^(m - k)) % 2 = (c \div 2^(m - k)) % 2
  <2>1. ASSUME NEW k \in 1..m PROVE (a \div 2^(m - k)) % 2 = (c \div 2^(m - k)) % 2
    <3>1. k \in 1..n /\ m - k \in Nat /\ n - k = (n - m) + (m - k) /\ n - m \in Nat
      BY <1>1
    <3>2. Code(l, s)[k] = (a \div 2^(m - k)) % 2 /\ Code(l, t)[k] = (b \div 2^(n - k)) % 2
      BY <3>1, CodeIs
    <3>3. Code(l, s)[k] = Code(l, t)[k]
      OBVIOUS
    <3> DEFINE x == 2^(m - k)
    <3>4. 2^(n - k) = w * x /\ x \in Nat /\ x > 0
      BY <3>1, PowAdd, PowType
    <3> HIDE DEF x, w, b
    <3>5. (b \div w) \div x = b \div (w * x)
      BY <1>2, <1>4, <3>4, DivDiv
    <3>6. QED
      BY <3>2, <3>3, <3>4, <3>5 DEF x
  <2>2. QED
    BY <2>1
<1>10. a = c
  <2> HIDE DEF a, c, m
  <2>1. QED
    BY <1>1, <1>2, <1>6, <1>7, <1>8, <1>9, SameBits
<1>11. SUFFICES ASSUME s # t PROVE FALSE
  OBVIOUS
<1>12. a * u <= b * v /\ b * v < a * u + u /\ a * u \in Nat /\ b * v \in Nat
  <2> HIDE DEF a, b, c, w, u, v
  <2>1. a * w <= b /\ b < a * w + w
    BY <1>7, <1>10
  <2>2. PICK f \in Nat : b = a * w + f
    <3>1. a * w \in Nat /\ b - a * w \in Nat /\ b = a * w + (b - a * w)
      BY <1>2, <1>4, <2>1
    <3>2. QED
      BY <3>1
  <2>3. f < w
    <3>1. a * w \in Nat
      BY <1>2, <1>4
    <3>2. QED
      BY <1>4, <2>1, <2>2, <3>1
  <2>4. b * v = (a * w) * v + f * v /\ (a * w) * v = a * (w * v) /\ f * v \in Nat
    BY <1>2, <1>3, <1>4, <2>2
  <2>5. b * v = a * u + f * v
    BY <1>4, <2>4
  <2>6. f * v < u
    <3>1. PICK g \in Nat : w = f + g /\ g > 0
      <4>1. w - f \in Nat /\ w = f + (w - f) /\ w - f > 0
        BY <1>4, <2>3
      <4>2. QED
        BY <4>1
    <3>2. w * v = f * v + g * v /\ g * v > 0 /\ g * v \in Nat
      BY <1>3, <3>1
    <3>3. QED
      BY <1>4, <2>4, <3>2
  <2>7. a * u \in Nat
    BY <1>2, <1>3
  <2>8. QED
    BY <1>3, <2>4, <2>5, <2>6, <2>7
<1>13. \/ n <= m /\ b * v + v <= a * u
       \/ m <= n /\ a * u + u <= b * v
  <2>1. \/ n <= m /\ Begin(l, t) + v <= Begin(l, s)
        \/ m <= n /\ Begin(l, s) + u <= Begin(l, t)
    BY <1>11, PartsApart
  <2> HIDE DEF a, b, u, v, m, n
  <2>2. QED
    BY <1>2, <2>1
<1> HIDE DEF a, b, u, v, m, n
<1>14. QED
  BY <1>3, <1>12, <1>13

\* The tree of all the symbols, none of which meets another.
Tree(l) == [max_bits |-> LongestCode(l), codes |-> {[path |-> Path(l, s), symbol |-> s] : s \in Used(l)}]

\* from_lengths takes the lengths of every code.
LEMMA FromLengthsIs ==
    ASSUME NEW l \in Lengths, IsCode(l)
    PROVE  FromLengths(l) = {Tree(l)}
PROOF
<1> DEFINE U == Used(l)
           entry(s) == [path |-> Path(l, s), symbol |-> s]
           codes == {entry(s) : s \in U}
           paths == {c.path : c \in codes}
           g == [s \in U |-> entry(s)]
           h == [s \in U |-> Path(l, s)]
<1>1. IsFiniteSet(U)
  BY UsedIs
<1>2. \A s, t \in U : Path(l, s) = Path(l, t) => s = t
  <2>1. ASSUME NEW s \in U, NEW t \in U, Path(l, s) = Path(l, t) PROVE s = t
    <3>1. Code(l, s) = Code(l, t) /\ Len(Code(l, s)) = l[s + 1] /\ Len(Code(l, t)) = l[t + 1]
      BY <2>1, CodeIs
    <3>2. l[s + 1] <= l[t + 1]
      <4>1. l[s + 1] \in Nat /\ l[s + 1] = l[t + 1]
        BY <3>1, UsedIs
      <4>2. QED
        BY <4>1
    <3>3. QED
      BY <3>1, <3>2, PrefixFree
  <2>2. QED
    BY <2>1
<1>3. \A s \in U : entry(s).path = Path(l, s) /\ entry(s).symbol = s
  OBVIOUS
<1> HIDE DEF entry
<1>4. paths = {Path(l, s) : s \in U}
  <2>1. \A x : x \in paths <=> \E s \in U : x = entry(s).path
    OBVIOUS
  <2>2. QED
    BY <1>3, <2>1
<1>5. g \in Bijection(U, codes)
  <2>1. \A s, t \in U : entry(s) = entry(t) => s = t
    BY <1>3
  <2>2. g \in [U -> codes]
    OBVIOUS
  <2>3. \A s, t \in U : g[s] = g[t] => s = t
    BY <2>1
  <2>4. \A c \in codes : \E s \in U : g[s] = c
    OBVIOUS
  <2>5. QED
    BY <2>2, <2>3, <2>4 DEF Bijection, Injection, Surjection, IsInjective
<1>6. h \in Bijection(U, paths)
  <2> DEFINE T == {Path(l, s) : s \in U}
  <2>1. h \in [U -> T]
    OBVIOUS
  <2>2. \A s, t \in U : h[s] = h[t] => s = t
    BY <1>2
  <2>3. \A c \in T : \E s \in U : h[s] = c
    OBVIOUS
  <2>4. h \in Bijection(U, T)
    BY <2>1, <2>2, <2>3 DEF Bijection, Injection, Surjection, IsInjective
  <2>5. QED
    BY <1>4, <2>4
<1>7. Cardinality(paths) = Cardinality(codes)
  <2> HIDE DEF g, h, paths, codes, U
  <2>1. Cardinality(codes) = Cardinality(U)
    <3>1. ExistsBijection(U, codes)
      BY <1>5 DEF ExistsBijection
    <3>2. QED
      BY <1>1, <3>1, FS_Bijection
  <2>2. Cardinality(paths) = Cardinality(U)
    <3>1. ExistsBijection(U, paths)
      BY <1>6 DEF ExistsBijection
    <3>2. QED
      BY <1>1, <3>1, FS_Bijection
  <2>3. QED
    BY <2>1, <2>2
<1>8. FromLengths(l) = OnlyIf(Cardinality(paths) = Cardinality(codes), [max_bits |-> LongestCode(l), codes |-> codes])
  BY DEF FromLengths, entry
<1>9. Tree(l) = [max_bits |-> LongestCode(l), codes |-> codes]
  BY DEF Tree, entry
<1> HIDE DEF paths, codes
<1>10. QED
  BY <1>7, <1>8, <1>9 DEF OnlyIf

\* A member of a tree is a used symbol with its code.
LEMMA TreeCode ==
    ASSUME NEW l \in Lengths, NEW c \in Tree(l).codes
    PROVE  c.symbol \in Used(l) /\ c.path = Code(l, c.symbol)
PROOF
<1>1. PICK s \in Used(l) : c = [path |-> Path(l, s), symbol |-> s]
  BY DEF Tree
<1>2. QED
  BY <1>1, CodeIs

\* Where the code of a symbol lies decode finds that symbol and no other, and
\* takes the bits of its code.  It finds it if the bits are all there.
LEMMA DecodeIs ==
    ASSUME NEW l \in Lengths, IsCode(l), NEW s \in Used(l), NEW d, Whole8(d), NEW r, ReaderOK(d, r),
           Lies(d, Position(r), Code(l, s))
    PROVE  /\ \A w \in Decode(d, Tree(l), r) :
                 /\ w.symbol = s /\ ReaderOK(d, w.reader)
                 /\ Position(w.reader) = Position(r) + Len(Code(l, s))
           /\ Position(r) + Len(Code(l, s)) <= Len(d) => Decode(d, Tree(l), r) # {}
PROOF
<1> DEFINE tree == Tree(l)
           p == Position(r)
           n == l[s + 1]
           found(k) == Then(ReadEachBit(d, r, k), LAMBDA a :
                       {[reader |-> a.reader, symbol |-> c.symbol] : c \in {c \in tree.codes : c.path = a.bits}})
<1>1. d \in Seq(Bit) /\ Len(d) \in Nat /\ p \in Nat
  BY WholeBytes, ReaderNumbers DEF Whole8
<1>2. \A t \in Used(l) : Code(l, t) \in Seq(Bit) /\ Len(Code(l, t)) = l[t + 1] /\ l[t + 1] \in Nat
                         /\ l[t + 1] >= 1 /\ l[t + 1] <= MaxCodeBits /\ l[t + 1] <= LongestCode(l)
  <2>1. LongestCode(l) \in Nat
    BY LongestIs, Parameters
  <2>2. \A t \in Used(l) : Code(l, t) \in Seq(Bit) /\ Len(Code(l, t)) = l[t + 1]
    BY CodeIs
  <2>3. \A t \in Used(l) : l[t + 1] \in Nat /\ l[t + 1] >= 1 /\ l[t + 1] <= MaxCodeBits /\ l[t + 1] \in 1..LongestCode(l)
    BY UsedIs
  <2>4. QED
    BY <2>1, <2>2, <2>3
<1>3. \A k, w : w \in found(k) <=>
        \E a \in ReadEachBit(d, r, k), c \in tree.codes : c.path = a.bits /\ w = [reader |-> a.reader, symbol |-> c.symbol]
  BY DEF Then
<1>4. Decode(d, tree, r) = UNION {found(k) : k \in {k \in 1..tree.max_bits : \A i \in 1..(k - 1) : found(i) = {}}}
  BY DEF Decode
<1>5. tree.max_bits = LongestCode(l)
  BY DEF Tree
<1> HIDE DEF found, tree
<1>6. ASSUME NEW k \in Nat, NEW w \in found(k)
      PROVE  w.symbol = s /\ ReaderOK(d, w.reader) /\ Position(w.reader) = p + n
  <2>1. PICK a \in ReadEachBit(d, r, k), c \in tree.codes : c.path = a.bits /\ w = [reader |-> a.reader, symbol |-> c.symbol]
    BY <1>3
  <2>2. /\ a.bits \in Seq(Bit) /\ Len(a.bits) = k /\ Lies(d, p, a.bits) /\ p + k <= Len(d)
    BY <1>1, ReadEachLie
  <2>3. ReaderOK(d, a.reader) /\ Position(a.reader) = p + k
    BY <1>1, ReadEachBitOK
  <2> DEFINE t == c.symbol
  <2>4. t \in Used(l) /\ c.path = Code(l, t)
    BY TreeCode DEF tree
  <2> DEFINE x == Code(l, s)
             y == Code(l, t)
  <2>5. x \in Seq(Bit) /\ y \in Seq(Bit) /\ Len(x) = n /\ Len(y) = l[t + 1] /\ y = a.bits /\ Len(x) \in Nat /\ Len(y) \in Nat
    BY <1>2, <2>1, <2>4
  <2>6. Lies(d, p, x) /\ Lies(d, p, y) /\ p + Len(y) <= Len(d) /\ Len(y) = k
    BY <2>2, <2>5
  <2>7. s = t
    <3>1. CASE Len(x) <= Len(y)
      <4>1. p + Len(x) <= Len(d)
        <5> HIDE DEF x, y, p
        <5>1. QED
          BY <1>1, <2>5, <2>6, <3>1
      <4>2. \A i \in 1..Len(x) : x[i] = y[i]
        <5> HIDE DEF x, y, p
        <5>1. QED
          BY <1>1, <2>5, <2>6, <3>1, <4>1, LiesSame
      <4>3. l[s + 1] <= l[t + 1] /\ \A i \in 1..l[s + 1] : x[i] = y[i]
        BY <2>5, <3>1, <4>2
      <4>4. QED
        BY <2>4, <4>3, PrefixFree
    <3>2. CASE Len(y) <= Len(x)
      <4>1. \A i \in 1..Len(y) : y[i] = x[i]
        <5> HIDE DEF x, y, p
        <5>1. QED
          BY <1>1, <2>5, <2>6, <3>2, LiesSame
      <4>2. l[t + 1] <= l[s + 1] /\ \A i \in 1..l[t + 1] : y[i] = x[i]
        BY <2>5, <3>2, <4>1
      <4>3. QED
        BY <2>4, <4>2, PrefixFree
    <3> HIDE DEF x, y
    <3>3. QED
      BY <2>5, <3>1, <3>2
  <2>8. k = n
    BY <2>5, <2>6, <2>7
  <2>9. QED
    BY <2>1, <2>3, <2>7, <2>8
<1>7. \A w \in Decode(d, tree, r) : \E k \in Nat : w \in found(k)
  <2>1. LongestCode(l) \in Nat
    BY LongestIs, Parameters
  <2>2. \A k \in 1..tree.max_bits : k \in Nat
    BY <1>5, <2>1
  <2>3. QED
    BY <1>4, <2>2
<1>8. \A w \in Decode(d, tree, r) : w.symbol = s /\ ReaderOK(d, w.reader) /\ Position(w.reader) = p + n
  BY <1>6, <1>7
<1>9. ASSUME p + n <= Len(d) PROVE Decode(d, tree, r) # {}
  <2> DEFINE T == {k \in Nat : found(k) # {}}
  <2>1. n \in T
    <3>1. n \in Nat /\ n <= WordBits - 8
      <4>1. n \in Nat /\ n <= MaxCodeBits /\ MaxCodeBits <= WordBits - 8 /\ WordBits \in Nat /\ MaxCodeBits \in Nat
        BY <1>2, Parameters, WordNat, DecoderConstants
      <4>2. QED
        BY <4>1
    <3>2. ReadEachBit(d, r, n) # {}
      BY <1>9, <3>1, ReadEachThere
    <3>3. PICK a : a \in ReadEachBit(d, r, n)
      BY <3>2
    <3>4. a.bits \in Seq(Bit) /\ Len(a.bits) = n /\ Lies(d, p, a.bits)
      BY <1>1, <3>1, <3>3, ReadEachLie
    <3>5. a.bits = Code(l, s)
      <4> DEFINE x == a.bits
                 y == Code(l, s)
      <4>1. x \in Seq(Bit) /\ y \in Seq(Bit) /\ Len(x) = n /\ Len(y) = n /\ Lies(d, p, x) /\ Lies(d, p, y) /\ n \in Nat
        BY <1>2, <3>4
      <4> HIDE DEF x, y, p, n
      <4>2. \A i \in 1..Len(x) : x[i] = y[i]
        <5>1. p + Len(x) <= Len(d) /\ Len(x) <= Len(y)
          BY <1>9, <4>1
        <5>2. QED
          BY <1>1, <4>1, <5>1, LiesSame
      <4>3. x = y
        BY <4>1, <4>2
      <4>4. QED
        BY <4>3 DEF x, y
    <3>6. [path |-> Path(l, s), symbol |-> s] \in tree.codes
      BY DEF Tree, tree
    <3>7. PICK c \in tree.codes : c.path = a.bits
      BY <3>5, <3>6, CodeIs
    <3>8. [reader |-> a.reader, symbol |-> c.symbol] \in found(n)
      BY <1>3, <3>3, <3>7
    <3>9. QED
      BY <3>1, <3>8
  <2>2. PICK m \in T : \A k \in T : m <= k
    <3>1. T \subseteq Nat /\ T # {}
      BY <2>1
    <3> HIDE DEF T
    <3>2. QED
      BY <3>1, LeastNat
  <2>3. m \in Nat /\ found(m) # {} /\ m <= n
    BY <2>1, <2>2
  <2>4. m >= 1
    <3>1. PICK w : w \in found(m)
      BY <2>3
    <3>2. PICK a \in ReadEachBit(d, r, m), c \in tree.codes : c.path = a.bits
      BY <1>3, <3>1
    <3>3. Len(a.bits) = m
      BY <1>1, <2>3, ReadEachLie
    <3>4. c.symbol \in Used(l) /\ c.path = Code(l, c.symbol)
      BY TreeCode DEF tree
    <3>5. m = l[c.symbol + 1] /\ l[c.symbol + 1] >= 1
      BY <1>2, <3>2, <3>3, <3>4
    <3>6. QED
      BY <3>5
  <2>5. m \in 1..tree.max_bits
    <3>1. n <= LongestCode(l) /\ LongestCode(l) \in Nat /\ n \in Nat
      BY <1>2, LongestIs, Parameters
    <3> HIDE DEF n
    <3>2. QED
      BY <1>5, <2>3, <2>4, <3>1
  <2>6. \A i \in 1..(m - 1) : found(i) = {}
    <3>1. ASSUME NEW i \in 1..(m - 1), found(i) # {} PROVE FALSE
      <4>1. i \in T /\ i < m
        BY <2>3, <3>1
      <4> HIDE DEF T
      <4>2. m <= i
        BY <2>2, <4>1
      <4>3. QED
        BY <2>3, <4>1, <4>2
    <3>2. QED
      BY <3>1
  <2>7. found(m) \subseteq Decode(d, tree, r)
    BY <1>4, <2>5, <2>6
  <2>8. QED
    BY <2>3, <2>7
<1>10. Len(Code(l, s)) = n
  BY <1>2
<1>11. QED
  BY <1>8, <1>9, <1>10 DEF tree

-----------------------------------------------------------------------------
(* Where the parts of a member lie.                                        *)

\* A symbol that has a code is used.
LEMMA HasCodeUsed ==
    ASSUME NEW l \in Lengths, NEW s \in Nat, HasCode(l, s)
    PROVE  s \in Used(l)
PROOF
<1>1. s + 1 \in 1..Len(l) /\ l[s + 1] > 0 /\ Len(l) \in Nat
  BY DEF HasCode, Lengths
<1>2. s \in 0..(Len(l) - 1)
  BY <1>1
<1>3. QED
  BY <1>1, <1>2 DEF Used

\* Its code is a string of bits.
LEMMA CodeType ==
    ASSUME NEW l \in Lengths, NEW s \in Nat, HasCode(l, s)
    PROVE  Code(l, s) \in Seq(Bit) /\ s \in Used(l) /\ Len(Code(l, s)) \in Nat
PROOF
<1>1. s \in Used(l)
  BY HasCodeUsed
<1>2. Code(l, s) \in Seq(Bit)
  BY <1>1, CodeIs
<1>3. QED
  BY <1>1, <1>2

\* The extra bits of matches and of runs fit in the word, and the sizes in a byte.
LEMMA Widths ==
    /\ \A k \in 1..3 : /\ Repeat[k].bits \in Nat /\ Repeat[k].bits <= 8 /\ Repeat[k].base \in Nat /\ Repeat[k].base >= 1
                       /\ SizeBits[k] \in Nat /\ SizeBits[k] <= 8 /\ SizeBits[k] >= 1
    /\ CodeLenBits \in Nat /\ CodeLenBits <= 8
    /\ 8 <= WordBits - 8 /\ WordBits - 8 \in Nat
    /\ \A i \in 1..Len(LengthExtra) : LengthExtra[i] \in Nat /\ LengthExtra[i] <= WordBits - 8
    /\ \A i \in 1..Len(DistanceExtra) : DistanceExtra[i] \in Nat /\ DistanceExtra[i] <= WordBits - 8
    /\ Len(LengthExtra) \in Nat /\ Len(DistanceExtra) \in Nat
    /\ DOMAIN LengthExtra = 1..Len(LengthExtra) /\ DOMAIN DistanceExtra = 1..Len(DistanceExtra)
PROOF
<1>1. ASSUME NEW k \in 1..3
      PROVE  /\ Repeat[k].bits \in Nat /\ Repeat[k].bits <= 8 /\ Repeat[k].base \in Nat /\ Repeat[k].base >= 1
             /\ SizeBits[k] \in Nat /\ SizeBits[k] <= 8 /\ SizeBits[k] >= 1
  <2>1. Repeat[k].bits \in 0..8 /\ Repeat[k].base \in Nat \ {0} /\ SizeBits[k] \in 1..8
    BY DecoderConstants, Zenon
  <2>2. QED
    BY <2>1
<1>2. CodeLenBits \in Nat /\ CodeLenBits <= 8
  BY Parameters, DecoderConstants
<1>3. 8 <= WordBits - 8 /\ WordBits - 8 \in Nat
  <2>1. WordBits >= 16 /\ WordBits \in Nat
    BY WordNat, DecoderConstants
  <2>2. QED
    BY <2>1
<1>4. ASSUME NEW e \in Seq(0..(WordBits - 8))
      PROVE  /\ \A i \in 1..Len(e) : e[i] \in Nat /\ e[i] <= WordBits - 8
             /\ Len(e) \in Nat /\ DOMAIN e = 1..Len(e)
  <2>1. ASSUME NEW i \in 1..Len(e) PROVE e[i] \in Nat /\ e[i] <= WordBits - 8
    <3> DEFINE T == 0..(WordBits - 8)
    <3>1. e \in Seq(T)
      OBVIOUS
    <3> HIDE DEF T
    <3>2. e[i] \in T
      BY <3>1, ElementOfSeq
    <3>3. QED
      BY <1>3, <3>2 DEF T
  <2>2. QED
    BY <2>1
<1>5. LengthExtra \in Seq(0..(WordBits - 8)) /\ DistanceExtra \in Seq(0..(WordBits - 8))
  BY DecoderConstants
<1>6. QED
  BY <1>1, <1>2, <1>3, <1>4, <1>5, Zenon

\* The bits of a token.
LEMMA TokenType ==
    ASSUME NEW l \in Lengths, NEW t \in Lengths, NEW k, IsToken(k, l, t)
    PROVE  /\ EncodeToken(k, l, t) \in Seq(Bit)
           /\ "lit" \in DOMAIN k => /\ k.lit \in 0..(NumLiterals - 1) /\ k.lit \in Used(l)
                                    /\ EncodeToken(k, l, t) = Code(l, k.lit)
           /\ ~("lit" \in DOMAIN k) =>
                 /\ k.match \in 0..(Len(LengthExtra) - 1) /\ EndOfBlock + 1 + k.match \in Used(l)
                 /\ k.dist \in 0..(Len(DistanceExtra) - 1) /\ k.dist \in Used(t)
                 /\ k.extra \in Nat /\ k.dextra \in Nat
                 /\ LengthExtra[k.match + 1] \in Nat /\ LengthExtra[k.match + 1] <= WordBits - 8
                 /\ DistanceExtra[k.dist + 1] \in Nat /\ DistanceExtra[k.dist + 1] <= WordBits - 8
                 /\ EncodeToken(k, l, t) = ((Code(l, EndOfBlock + 1 + k.match) \o LowFirst(k.extra, LengthExtra[k.match + 1]))
                                           \o Code(t, k.dist)) \o LowFirst(k.dextra, DistanceExtra[k.dist + 1])
PROOF
<1>1. CASE "lit" \in DOMAIN k
  <2>1. k.lit \in 0..(NumLiterals - 1) /\ HasCode(l, k.lit) /\ EncodeToken(k, l, t) = Code(l, k.lit)
    BY <1>1 DEF IsToken, EncodeToken
  <2>2. k.lit \in Nat
    BY <2>1, Parameters
  <2>3. Code(l, k.lit) \in Seq(Bit) /\ k.lit \in Used(l)
    BY <2>1, <2>2, CodeType
  <2>4. QED
    BY <1>1, <2>1, <2>3
<1>2. CASE ~("lit" \in DOMAIN k)
  <2> DEFINE m == EndOfBlock + 1 + k.match
             w == LengthExtra[k.match + 1]
             v == DistanceExtra[k.dist + 1]
  <2>1. /\ k.match \in 0..(Len(LengthExtra) - 1) /\ HasCode(l, m)
        /\ k.extra \in 0..(2^w - 1)
        /\ k.dist \in 0..(Len(DistanceExtra) - 1) /\ HasCode(t, k.dist)
        /\ k.dextra \in 0..(2^v - 1)
    BY <1>2 DEF IsToken
  <2>2. k.match + 1 \in 1..Len(LengthExtra) /\ k.dist + 1 \in 1..Len(DistanceExtra) /\ k.dist \in Nat /\ m \in Nat
    <3> DEFINE x == Len(LengthExtra)
               y == Len(DistanceExtra)
    <3>1. x \in Nat /\ y \in Nat /\ EndOfBlock \in Nat
      BY Widths, Parameters DEF EndOfBlock
    <3>2. k.match \in 0..(x - 1) /\ k.dist \in 0..(y - 1)
      BY <2>1
    <3> HIDE DEF x, y
    <3>3. k.match + 1 \in 1..x /\ k.dist + 1 \in 1..y /\ k.dist \in Nat /\ m \in Nat
      BY <3>1, <3>2
    <3>4. QED
      BY <3>3 DEF x, y
  <2>3. w \in Nat /\ w <= WordBits - 8 /\ v \in Nat /\ v <= WordBits - 8
    BY <2>2, Widths
  <2>4. k.extra \in Nat /\ k.dextra \in Nat
    <3>1. 2^w \in Nat /\ 2^v \in Nat
      BY <2>3, PowType
    <3>2. QED
      BY <2>1, <3>1
  <2>5. /\ Code(l, m) \in Seq(Bit) /\ m \in Used(l) /\ Code(t, k.dist) \in Seq(Bit) /\ k.dist \in Used(t)
        /\ LowFirst(k.extra, w) \in Seq(Bit) /\ LowFirst(k.dextra, v) \in Seq(Bit)
    BY <2>1, <2>2, <2>3, <2>4, CodeType, LowFirstType
  <2>6. EncodeToken(k, l, t) = ((Code(l, m) \o LowFirst(k.extra, w)) \o Code(t, k.dist)) \o LowFirst(k.dextra, v)
    BY <1>2, Zenon DEF EncodeToken
  <2> DEFINE a == Code(l, m)
             b == LowFirst(k.extra, w)
             c == Code(t, k.dist)
             e == LowFirst(k.dextra, v)
  <2>7. a \in Seq(Bit) /\ b \in Seq(Bit) /\ c \in Seq(Bit) /\ e \in Seq(Bit)
    BY <2>5
  <2> HIDE DEF a, b, c, e
  <2>8. ((a \o b) \o c) \o e \in Seq(Bit)
    BY <2>7
  <2>9. EncodeToken(k, l, t) \in Seq(Bit)
    BY <2>6, <2>8 DEF a, b, c, e
  <2>10. QED
    BY <1>2, <2>1, <2>3, <2>4, <2>5, <2>6, <2>9
<1>3. QED
  BY <1>1, <1>2

\* The bits of a run.
LEMMA RunType ==
    ASSUME NEW c \in Lengths, NEW r, IsRun(r, c)
    PROVE  /\ EncodeRun(r, c) \in Seq(Bit)
           /\ r.symbol \in Used(c) /\ r.symbol \in 0..(MaxCodeBits + 3)
           /\ r.symbol \in 0..MaxCodeBits => EncodeRun(r, c) = Code(c, r.symbol)
           /\ r.symbol > MaxCodeBits =>
                 /\ r.symbol - MaxCodeBits \in 1..3 /\ r.extra \in Nat /\ r.extra < 2^Repeat[r.symbol - MaxCodeBits].bits
                 /\ EncodeRun(r, c) = Code(c, r.symbol) \o LowFirst(r.extra, Repeat[r.symbol - MaxCodeBits].bits)
PROOF
<1> DEFINE w == Repeat[r.symbol - MaxCodeBits].bits
           x == Code(c, r.symbol)
<1>1. r.symbol \in 0..(MaxCodeBits + 3) /\ HasCode(c, r.symbol) /\ MaxCodeBits \in Nat /\ r.symbol \in Nat
  BY Parameters DEF IsRun
<1>2. x \in Seq(Bit) /\ r.symbol \in Used(c)
  BY <1>1, CodeType
<1>3. CASE r.symbol <= MaxCodeBits
  <2>1. EncodeRun(r, c) = x \o <<>>
    BY <1>3 DEF EncodeRun
  <2> HIDE DEF x
  <2>2. x \o <<>> = x
    BY <1>2
  <2>3. QED
    BY <1>1, <1>2, <1>3, <2>1, <2>2 DEF x
<1>4. CASE r.symbol > MaxCodeBits
  <2>1. r.symbol - MaxCodeBits \in 1..3
    BY <1>1, <1>4
  <2>2. w \in Nat
    BY <2>1, Widths
  <2>3. r.extra \in 0..(2^w - 1) /\ 2^w \in Nat
    BY <1>4, <2>2, PowType DEF IsRun
  <2>4. r.extra \in Nat /\ r.extra < 2^w
    <3> DEFINE m == 2^w
    <3>1. r.extra \in 0..(m - 1) /\ m \in Nat
      BY <2>3
    <3> HIDE DEF m
    <3>2. r.extra \in Nat /\ r.extra < m
      BY <3>1
    <3>3. QED
      BY <3>2 DEF m
  <2>5. LowFirst(r.extra, w) \in Seq(Bit)
    BY <2>2, <2>4, LowFirstType
  <2>6. ~(r.symbol <= MaxCodeBits) /\ r.symbol \notin 0..MaxCodeBits
    BY <1>1, <1>4
  <2>7. EncodeRun(r, c) = x \o LowFirst(r.extra, w)
    BY <2>6 DEF EncodeRun
  <2> DEFINE y == LowFirst(r.extra, w)
  <2> HIDE DEF x, y
  <2>8. x \o y \in Seq(Bit)
    BY <1>2, <2>5 DEF y
  <2>9. QED
    BY <1>1, <1>2, <1>4, <2>1, <2>4, <2>6, <2>7, <2>8 DEF x, y
<1>5. QED
  BY <1>1, <1>3, <1>4

\* What is laid end to end is a sequence.
LEMMA FlatType ==
    ASSUME NEW S, NEW q \in Seq(Seq(S))
    PROVE  FlattenSeq(q) \in Seq(S) /\ FlattenSeq(q) = FlatTo(q, Len(q)) /\ Len(FlattenSeq(q)) \in Nat
PROOF
<1>1. Len(q) \in 0..Len(q)
  OBVIOUS
<1>2. FlatTo(q, Len(q)) \in Seq(S) /\ FlatTo(q, Len(q)) = FlattenSeq(q)
  BY <1>1, FlatToType, FlatToSteps
<1>3. QED
  BY <1>2

\* The codes of the tokens of a block, the bytes they stand for, and how many
\* bits the first i of them take.
TokenCodes(tokens, l, t) == [i \in DOMAIN tokens |-> EncodeToken(tokens[i], l, t)]
TokenBytes(tokens) == [i \in DOMAIN tokens |-> IF "lit" \in DOMAIN tokens[i] THEN <<tokens[i].lit>> ELSE <<>>]
TokenBits(tokens, l, t, i) == Len(FlatTo(TokenCodes(tokens, l, t), i))

\* The tokens of a block, their codes and their bytes.
LEMMA TokensType ==
    ASSUME NEW tokens, NEW l, NEW t, AreTokens(tokens, l, t)
    PROVE  /\ l \in Lengths /\ t \in Lengths /\ IsCode(l) /\ IsCode(t) /\ EndOfBlock \in Used(l)
           /\ DOMAIN tokens = 1..Len(tokens) /\ Len(tokens) \in Nat
           /\ \A i \in 1..Len(tokens) : IsToken(tokens[i], l, t)
           /\ TokenCodes(tokens, l, t) \in Seq(Seq(Bit)) /\ Len(TokenCodes(tokens, l, t)) = Len(tokens)
           /\ \A i \in 1..Len(tokens) : TokenCodes(tokens, l, t)[i] = EncodeToken(tokens[i], l, t)
           /\ TokenBytes(tokens) \in Seq(Seq(0..(NumLiterals - 1))) /\ Len(TokenBytes(tokens)) = Len(tokens)
           /\ \A i \in 1..Len(tokens) :
                TokenBytes(tokens)[i] = IF "lit" \in DOMAIN tokens[i] THEN <<tokens[i].lit>> ELSE <<>>
           /\ EncodeTokens(tokens, l, t) \in Seq(Bit)
           /\ EncodeTokens(tokens, l, t) = FlattenSeq(TokenCodes(tokens, l, t)) \o Code(l, EndOfBlock)
           /\ Code(l, EndOfBlock) \in Seq(Bit)
PROOF
<1> DEFINE n == Len(tokens)
           q == TokenCodes(tokens, l, t)
           y == TokenBytes(tokens)
<1>1. /\ IsCode(l) /\ IsCode(t) /\ HasCode(l, EndOfBlock)
      /\ tokens = [i \in 1..n |-> tokens[i]] /\ n \in Nat
      /\ \A i \in DOMAIN tokens : IsToken(tokens[i], l, t)
  BY Zenon DEF AreTokens
<1>2. l \in Lengths /\ t \in Lengths
  BY <1>1 DEF IsCode, Lengths
<1>3. DOMAIN tokens = 1..n
  BY <1>1
<1>4. EndOfBlock \in Used(l) /\ Code(l, EndOfBlock) \in Seq(Bit)
  <2>1. EndOfBlock \in Nat
    BY Parameters DEF EndOfBlock
  <2>2. QED
    BY <1>1, <1>2, <2>1, CodeType
<1> HIDE DEF n
<1>5. q = [i \in 1..n |-> q[i]] /\ \A i \in 1..n : q[i] = EncodeToken(tokens[i], l, t)
  BY <1>3 DEF TokenCodes
<1>6. y = [i \in 1..n |-> y[i]] /\ \A i \in 1..n : y[i] = IF "lit" \in DOMAIN tokens[i] THEN <<tokens[i].lit>> ELSE <<>>
  BY <1>3 DEF TokenBytes
<1>7. q \in Seq(Seq(Bit)) /\ Len(q) = n
  <2>1. ASSUME NEW i \in 1..n PROVE q[i] \in Seq(Bit)
    <3>1. q[i] = EncodeToken(tokens[i], l, t) /\ IsToken(tokens[i], l, t)
      BY <1>1, <1>3, <1>5
    <3>2. EncodeToken(tokens[i], l, t) \in Seq(Bit)
      BY <1>2, <3>1, TokenType
    <3>3. QED
      BY <3>1, <3>2
  <2> HIDE DEF q
  <2>2. QED
    BY <1>1, <1>5, <2>1, ASequence
<1>8. y \in Seq(Seq(0..(NumLiterals - 1))) /\ Len(y) = n
  <2> DEFINE S == 0..(NumLiterals - 1)
  <2>1. ASSUME NEW i \in 1..n PROVE y[i] \in Seq(S)
    <3>1. CASE "lit" \in DOMAIN tokens[i]
      <4>1. tokens[i].lit \in S
        BY <1>1, <1>2, <1>3, <3>1, TokenType
      <4>2. y[i] = <<tokens[i].lit>>
        BY <1>6, <3>1
      <4> HIDE DEF S, y
      <4>3. QED
        BY <4>1, <4>2, SingleOf
    <3>2. CASE ~("lit" \in DOMAIN tokens[i])
      <4>1. y[i] = <<>>
        BY <1>6, <3>2
      <4>2. QED
        BY <4>1
    <3>3. QED
      BY <3>1, <3>2
  <2> HIDE DEF S, y
  <2>2. y \in Seq(Seq(S)) /\ Len(y) = n
    BY <1>1, <1>6, <2>1, ASequence
  <2>3. QED
    BY <2>2 DEF S
<1>9. EncodeTokens(tokens, l, t) = FlattenSeq(q) \o Code(l, EndOfBlock)
  BY Zenon DEF EncodeTokens, TokenCodes
<1>10. EncodeTokens(tokens, l, t) \in Seq(Bit)
  <2> DEFINE a == FlattenSeq(q)
             b == Code(l, EndOfBlock)
  <2>1. a \in Seq(Bit) /\ b \in Seq(Bit)
    BY <1>4, <1>7, FlatType
  <2> HIDE DEF a, b
  <2>2. a \o b \in Seq(Bit)
    BY <2>1
  <2>3. QED
    BY <1>9, <2>2 DEF a, b
<1>11. \A i \in 1..n : IsToken(tokens[i], l, t)
  BY <1>1, <1>3
<1> HIDE DEF q, y
<1>12. QED
  BY <1>1, <1>2, <1>3, <1>4, <1>5, <1>6, <1>7, <1>8, <1>9, <1>10, <1>11 DEF q, y, n

\* Each token lies behind those before it, and the end of the block behind all.
LEMMA TokensLie ==
    ASSUME NEW tokens, NEW l, NEW t, AreTokens(tokens, l, t),
           NEW d, Len(d) \in Nat, NEW p \in Nat, Holds(d, p, EncodeTokens(tokens, l, t))
    PROVE  /\ \A i \in 0..Len(tokens) : TokenBits(tokens, l, t, i) \in Nat
           /\ TokenBits(tokens, l, t, 0) = 0
           /\ \A i \in 1..Len(tokens) :
                 /\ Holds(d, p + TokenBits(tokens, l, t, i - 1), EncodeToken(tokens[i], l, t))
                 /\ TokenBits(tokens, l, t, i) = TokenBits(tokens, l, t, i - 1) + Len(EncodeToken(tokens[i], l, t))
           /\ Holds(d, p + TokenBits(tokens, l, t, Len(tokens)), Code(l, EndOfBlock))
           /\ Len(EncodeTokens(tokens, l, t)) = TokenBits(tokens, l, t, Len(tokens)) + Len(Code(l, EndOfBlock))
PROOF
<1> DEFINE n == Len(tokens)
           q == TokenCodes(tokens, l, t)
           a == FlattenSeq(q)
           z == Code(l, EndOfBlock)
<1>1. q \in Seq(Seq(Bit)) /\ Len(q) = n /\ n \in Nat /\ \A i \in 1..n : q[i] = EncodeToken(tokens[i], l, t)
  BY TokensType
<1>2. z \in Seq(Bit) /\ EncodeTokens(tokens, l, t) = a \o z
  BY TokensType
<1>3. a \in Seq(Bit) /\ a = FlatTo(q, n) /\ Len(a) \in Nat
  BY <1>1, FlatType
<1>4. \A i \in 0..n : TokenBits(tokens, l, t, i) = Len(FlatTo(q, i)) /\ FlatTo(q, i) \in Seq(Bit) /\ Len(FlatTo(q, i)) \in Nat
  <2>1. ASSUME NEW i \in 0..n PROVE TokenBits(tokens, l, t, i) = Len(FlatTo(q, i)) /\ FlatTo(q, i) \in Seq(Bit)
    BY <1>1, FlatToType DEF TokenBits
  <2>2. QED
    BY <2>1
<1>5. FlatTo(q, 0) = <<>>
  BY <1>1, FlatToSteps
<1> HIDE DEF q, a, z, n
<1>6. Holds(d, p, a) /\ Holds(d, p + Len(a), z) /\ Len(a \o z) = Len(a) + Len(z)
  <2>1. Holds(d, p, a \o z)
    BY <1>2
  <2>2. QED
    <3>1. a \in Seq(Bit) /\ z \in Seq(Bit)
      BY <1>2, <1>3
    <3>2. QED
      BY <2>1, <3>1, HoldsSplit
<1>7. ASSUME NEW i \in 1..n
      PROVE  /\ Holds(d, p + TokenBits(tokens, l, t, i - 1), EncodeToken(tokens[i], l, t))
             /\ TokenBits(tokens, l, t, i) = TokenBits(tokens, l, t, i - 1) + Len(EncodeToken(tokens[i], l, t))
  <2>1. i - 1 \in 0..n /\ i \in 0..n /\ i \in 1..Len(q)
    BY <1>1
  <2>2. /\ Holds(d, p + Len(FlatTo(q, i - 1)), q[i])
        /\ Len(FlatTo(q, i)) = Len(FlatTo(q, i - 1)) + Len(q[i])
    <3>1. Holds(d, p, FlattenSeq(q))
      BY <1>6 DEF a
    <3>2. QED
        <4>1. Len(d) \in Nat /\ p \in Nat /\ q \in Seq(Seq(Bit)) /\ Holds(d, p, FlattenSeq(q)) /\ i \in 1..Len(q)
          BY <1>1, <2>1, <3>1
        <4>2. QED
          BY <4>1, HoldsFlat, Zenon
  <2>3. QED
    BY <1>1, <1>4, <2>1, <2>2
<1>8. 0 \in 0..n /\ n \in 0..n
  BY <1>1
<1>9. TokenBits(tokens, l, t, 0) = 0 /\ TokenBits(tokens, l, t, n) = Len(a)
  BY <1>3, <1>4, <1>5, <1>8
<1>10. QED
  BY <1>2, <1>4, <1>6, <1>7, <1>9 DEF n, z

\* What the first n runs expand to.
UpToRun(runs) ==
    LET upto[n \in 0..Len(runs)] ==
            IF n = 0 THEN <<>> ELSE upto[n - 1] \o RunLengths(upto[n - 1], runs[n])
    IN  upto

\* A run adds at least one length.
LEMMA RunLengthsType ==
    ASSUME NEW v \in Lengths, NEW c, NEW r, IsRun(r, c), r.symbol = MaxCodeBits + 1 => v # <<>>
    PROVE  RunLengths(v, r) \in Lengths /\ Len(RunLengths(v, r)) \in Nat /\ Len(RunLengths(v, r)) >= 1
PROOF
<1>1. r.symbol \in 0..(MaxCodeBits + 3) /\ MaxCodeBits \in Nat
  BY Parameters DEF IsRun
<1>2. CASE r.symbol <= MaxCodeBits
  <2>1. RunLengths(v, r) = <<r.symbol>>
    BY <1>2 DEF RunLengths
  <2>2. r.symbol \in 0..MaxCodeBits
    BY <1>1, <1>2
  <2>3. <<r.symbol>> \in Lengths /\ Len(<<r.symbol>>) = 1
    BY <2>2, SingleOf DEF Lengths
  <2>4. QED
    BY <2>1, <2>3
<1>3. CASE r.symbol > MaxCodeBits
  <2> DEFINE kind == r.symbol - MaxCodeBits
             n == Repeat[kind].base + r.extra
             x == IF kind = 1 THEN Last(v) ELSE 0
             q == [k \in 1..n |-> x]
  <2>1. kind \in 1..3 /\ ~(r.symbol <= MaxCodeBits) /\ (kind = 1 => r.symbol = MaxCodeBits + 1)
    BY <1>1, <1>3
  <2>2. n \in Nat /\ n >= 1
    <3>1. Repeat[kind].base \in Nat /\ Repeat[kind].base >= 1 /\ Repeat[kind].bits \in Nat
      BY <2>1, Widths
    <3>2. r.extra \in Nat
      <4> DEFINE m == 2^Repeat[kind].bits
      <4>1. r.extra \in 0..(m - 1) /\ m \in Nat
        BY <1>3, <3>1, PowType DEF IsRun
      <4> HIDE DEF m
      <4>2. QED
        BY <4>1
    <3> HIDE DEF kind
    <3>3. QED
      BY <3>1, <3>2
  <2>3. RunLengths(v, r) = q
    BY <2>1 DEF RunLengths
  <2>4. x \in 0..MaxCodeBits
    <3>1. CASE kind = 1
      <4>1. v # <<>>
        BY <2>1, <3>1
      <4>2. Len(v) \in 1..Len(v)
        BY <4>1 DEF Lengths
      <4>3. v[Len(v)] \in 0..MaxCodeBits
        <5>1. v[Len(v)] \in 0..LongestCode(v) /\ LongestCode(v) \in 0..MaxCodeBits
          BY <4>2, LongestIs
        <5>2. QED
          BY <1>1, <5>1
      <4>4. QED
        BY <3>1, <4>3 DEF Last
    <3>2. CASE kind # 1
      BY <1>1, <3>2
    <3>3. QED
      BY <3>1, <3>2
  <2> HIDE DEF x, n
  <2>5. q = [k \in 1..n |-> q[k]] /\ \A k \in 1..n : q[k] \in 0..MaxCodeBits
    BY <2>4
  <2> HIDE DEF q
  <2>6. q \in Seq(0..MaxCodeBits) /\ Len(q) = n
    BY <2>2, <2>5, ASequence
  <2>7. QED
    BY <2>2, <2>3, <2>6 DEF Lengths
<1>4. QED
  BY <1>1, <1>2, <1>3

\* The runs of a block, each adding to what is there.
LEMMA UpToRunIs ==
    ASSUME NEW runs, NEW c, AreRuns(runs, c)
    PROVE  /\ Expand(runs) = UpToRun(runs)[Len(runs)] /\ UpToRun(runs)[0] = <<>>
           /\ \A n \in 0..Len(runs) : /\ UpToRun(runs)[n] \in Lengths /\ Len(UpToRun(runs)[n]) \in Nat
                                      /\ n >= 1 => UpToRun(runs)[n] # <<>>
           /\ \A n \in 1..Len(runs) : UpToRun(runs)[n] = UpToRun(runs)[n - 1] \o RunLengths(UpToRun(runs)[n - 1], runs[n])
PROOF
<1> DEFINE m == Len(runs)
           more(v, n) == v \o RunLengths(v, runs[n])
           body(h, n) == IF n = 0 THEN <<>> ELSE more(h[n - 1], n)
           IsUpTo(h) == h = [n \in 0..m |-> body(h, n)]
           g == [n \in 1..m |-> [v \in Lengths |-> IF more(v, n) \in Lengths THEN more(v, n) ELSE <<>>]]
<1>1. m \in Nat /\ (\A i \in 1..m : IsRun(runs[i], c)) /\ (m > 0 => runs[1].symbol # MaxCodeBits + 1)
  <2>1. m \in Nat /\ DOMAIN runs = 1..m
    BY DEF AreRuns
  <2>2. m > 0 => runs # <<>>
    BY <2>1
  <2>3. QED
    BY <2>1, <2>2 DEF AreRuns
<1> HIDE DEF m
<1>2. \A v \in Lengths, n \in 1..m :
        (runs[n].symbol = MaxCodeBits + 1 => v # <<>>) => more(v, n) \in Lengths /\ more(v, n) # <<>>
  <2>1. ASSUME NEW v \in Lengths, NEW n \in 1..m, runs[n].symbol = MaxCodeBits + 1 => v # <<>>
        PROVE  more(v, n) \in Lengths /\ more(v, n) # <<>>
    <3> DEFINE q == RunLengths(v, runs[n])
    <3>1. q \in Lengths /\ Len(q) \in Nat /\ Len(q) >= 1
      BY <1>1, <2>1, RunLengthsType
    <3> HIDE DEF q
    <3>2. v \o q \in Seq(0..MaxCodeBits) /\ IsJoin(v \o q, v, q)
      BY <3>1, Joined DEF Lengths
    <3>3. Len(v \o q) >= 1
      BY <3>1, <3>2 DEF IsJoin
    <3>4. v \o q # <<>>
      BY <3>3
    <3>5. QED
      BY <3>2, <3>4 DEF q, Lengths
  <2>2. QED
    BY <2>1
<1>3. <<>> \in Lengths
  BY DEF Lengths
<1> HIDE DEF more
<1>4. g \in [1..m -> [Lengths -> Lengths]]
  BY <1>3
<1>5. PICK f : Iterates(f, Lengths, <<>>, m, g)
  <2> HIDE DEF g
  <2>1. QED
    BY <1>1, <1>3, <1>4, Recursive
<1>6. f \in [0..m -> Lengths] /\ f[0] = <<>> /\ \A n \in 1..m : f[n] = g[n][f[n - 1]]
  BY <1>5, Zenon DEF Iterates
<1>7. \A n \in 1..m, v \in Lengths : more(v, n) \in Lengths => g[n][v] = more(v, n)
  OBVIOUS
<1> HIDE DEF g
<1> DEFINE P == {n \in 0..m : n >= 1 => f[n] # <<>> /\ f[n] = more(f[n - 1], n)}
<1>8. \A n \in 0..m : n \in P
  <2>1. 0 \in P
    BY <1>1
  <2>2. ASSUME NEW n \in 0..(m - 1), n \in P PROVE n + 1 \in P
    <3>1. n + 1 \in 1..m /\ n + 1 \in 0..m /\ n \in 0..m /\ (n + 1) - 1 = n
      BY <1>1
    <3>2. f[n] \in Lengths
      BY <1>6, <3>1
    <3>3. runs[n + 1].symbol = MaxCodeBits + 1 => f[n] # <<>>
      <4>1. CASE n = 0
        BY <1>1, <3>1, <4>1
      <4>2. CASE n # 0
        BY <2>2, <4>2
      <4>3. QED
        BY <4>1, <4>2
    <3>4. more(f[n], n + 1) \in Lengths /\ more(f[n], n + 1) # <<>>
      BY <1>2, <3>1, <3>2, <3>3
    <3>5. f[n + 1] = more(f[n], n + 1)
      BY <1>6, <1>7, <3>1, <3>2, <3>4
    <3>6. QED
      BY <3>1, <3>4, <3>5
  <2> HIDE DEF P
  <2>3. QED
    BY <1>1, <2>1, <2>2, UpTo
<1>9. \A n \in 1..m : f[n] # <<>> /\ f[n] = more(f[n - 1], n)
  <2>1. ASSUME NEW n \in 1..m PROVE f[n] # <<>> /\ f[n] = more(f[n - 1], n)
    <3>1. n \in 0..m /\ n >= 1
      BY <1>1
    <3>2. n \in P
      BY <1>8, <3>1
    <3>3. QED
      BY <3>1, <3>2
  <2>2. QED
    BY <2>1
<1>10. IsUpTo(f)
  <2>1. ASSUME NEW n \in 0..m PROVE f[n] = body(f, n)
    <3>1. CASE n = 0
      BY <1>6, <3>1
    <3>2. CASE n # 0
      <4>1. n \in 1..m
        BY <1>1, <3>2
      <4>2. QED
        BY <1>9, <3>2, <4>1
    <3>3. QED
      BY <3>1, <3>2
  <2>2. f = [n \in 0..m |-> f[n]]
    BY <1>6
  <2> HIDE DEF body
  <2>3. QED
    BY <2>1, <2>2
<1> DEFINE u == UpToRun(runs)
<1>11. IsUpTo(u)
  <2>1. u = CHOOSE h : IsUpTo(h)
    BY Zenon DEF UpToRun, m, more
  <2> HIDE DEF IsUpTo, u
  <2>2. QED
    BY <1>10, <2>1
<1>12. Expand(runs) = u[m]
  BY Zenon DEF Expand, UpToRun, m
<1> HIDE DEF u
<1>13. \A n \in 0..m : u[n] = body(u, n)
  <2> HIDE DEF body
  <2>1. QED
    BY <1>11, Zenon
<1>14. u[0] = <<>> /\ \A n \in 1..m : u[n] = more(u[n - 1], n)
  BY <1>1, <1>13
<1> DEFINE Q == {n \in 0..m : u[n] = f[n]}
<1>15. \A n \in 0..m : n \in Q
  <2>1. 0 \in Q
    BY <1>1, <1>6, <1>14
  <2>2. ASSUME NEW n \in 0..(m - 1), n \in Q PROVE n + 1 \in Q
    <3>1. n + 1 \in 1..m /\ n + 1 \in 0..m /\ (n + 1) - 1 = n
      BY <1>1
    <3>2. QED
      BY <1>9, <1>14, <2>2, <3>1
  <2> HIDE DEF Q
  <2>3. QED
    BY <1>1, <2>1, <2>2, UpTo
<1>16. \A n \in 0..m : u[n] \in Lengths /\ Len(u[n]) \in Nat /\ (n >= 1 => u[n] # <<>>)
  <2>1. ASSUME NEW n \in 0..m PROVE u[n] \in Lengths /\ Len(u[n]) \in Nat /\ (n >= 1 => u[n] # <<>>)
    <3>1. u[n] = f[n] /\ f[n] \in Lengths
      BY <1>6, <1>15
    <3>2. n >= 1 => f[n] # <<>>
      BY <1>1, <1>9
    <3>3. Len(f[n]) \in Nat
      BY <3>1 DEF Lengths
    <3>4. QED
      BY <3>1, <3>2, <3>3
  <2>2. QED
    BY <2>1
<1>17. QED
  BY <1>12, <1>14, <1>16 DEF m, more, u

\* More runs, more lengths.
LEMMA MoreRuns ==
    ASSUME NEW runs, NEW c, AreRuns(runs, c), NEW n \in 0..Len(runs)
    PROVE  /\ n < Len(runs) => Len(UpToRun(runs)[n]) < Len(UpToRun(runs)[n + 1])
                               /\ Len(UpToRun(runs)[n + 1]) <= Len(Expand(runs))
           /\ Len(UpToRun(runs)[n]) <= Len(Expand(runs))
           /\ Len(UpToRun(runs)[n]) = Len(Expand(runs)) <=> n = Len(runs)
           /\ Expand(runs) \in Lengths /\ Len(Expand(runs)) \in Nat
PROOF
<1> DEFINE m == Len(runs)
           u == UpToRun(runs)
           len(i) == Len(u[i])
<1>1. m \in Nat /\ (\A i \in 1..m : IsRun(runs[i], c)) /\ (m > 0 => runs[1].symbol # MaxCodeBits + 1)
  <2>1. m \in Nat /\ DOMAIN runs = 1..m
    BY DEF AreRuns
  <2>2. m > 0 => runs # <<>>
    BY <2>1
  <2>3. QED
    BY <2>1, <2>2 DEF AreRuns
<1>2. /\ Expand(runs) = u[m] /\ u[0] = <<>>
      /\ \A i \in 0..m : u[i] \in Lengths /\ len(i) \in Nat /\ (i >= 1 => u[i] # <<>>)
      /\ \A i \in 1..m : u[i] = u[i - 1] \o RunLengths(u[i - 1], runs[i])
  BY UpToRunIs
<1> HIDE DEF u, m
<1>3. ASSUME NEW i \in 0..(m - 1) PROVE len(i) < len(i + 1)
  <2>1. i + 1 \in 1..m /\ i \in 0..m /\ i + 1 \in 0..m /\ (i + 1) - 1 = i
    BY <1>1
  <2>2. u[i + 1] = u[i] \o RunLengths(u[i], runs[i + 1])
    BY <1>2, <2>1
  <2>3. runs[i + 1].symbol = MaxCodeBits + 1 => u[i] # <<>>
    <3>1. CASE i = 0
      BY <1>1, <2>1, <3>1
    <3>2. CASE i # 0
      BY <1>2, <2>1, <3>2
    <3>3. QED
      BY <3>1, <3>2
  <2> DEFINE v == u[i]
             q == RunLengths(v, runs[i + 1])
  <2>4. v \in Lengths /\ q \in Lengths /\ Len(q) \in Nat /\ Len(q) >= 1
    <3>1. v \in Lengths
      BY <1>2, <2>1
    <3>2. QED
      BY <1>1, <2>1, <2>3, <3>1, RunLengthsType
  <2> HIDE DEF q, v
  <2>5. IsJoin(v \o q, v, q)
    BY <2>4, Joined DEF Lengths
  <2>6. Len(v \o q) = Len(v) + Len(q) /\ Len(v) \in Nat
    BY <2>5 DEF IsJoin
  <2>7. len(i) = Len(v) /\ len(i + 1) = Len(v \o q)
    BY <2>2 DEF v, q
  <2>8. QED
    BY <2>4, <2>6, <2>7
<1>4. \A i \in 0..m : len(i) \in Nat
  BY <1>2
<1> HIDE DEF len
<1> DEFINE P == {k \in 0..(m - n) : \A i \in 0..k : len(n + i) <= len(n + k) /\ (i < k => len(n + i) < len(n + k))}
<1>5. n \in 0..m /\ m - n \in Nat
  BY <1>1 DEF m
<1>6. 0 \in P
  <2>1. n + 0 = n /\ len(n) \in Nat /\ \A i \in 0..0 : i = 0
    BY <1>4, <1>5
  <2>2. QED
    BY <1>5, <2>1
<1>7. ASSUME NEW k \in 0..((m - n) - 1), k \in P PROVE k + 1 \in P
  <2>1. k + 1 \in 0..(m - n) /\ n + k \in 0..(m - 1) /\ n + k \in 0..m /\ n + (k + 1) = (n + k) + 1 /\ (n + k) + 1 \in 0..m
    BY <1>1, <1>5
  <2>2. len(n + k) < len(n + (k + 1)) /\ len(n + k) \in Nat /\ len(n + (k + 1)) \in Nat
    BY <1>3, <1>4, <2>1
  <2>3. ASSUME NEW i \in 0..(k + 1) PROVE len(n + i) <= len(n + (k + 1)) /\ (i < k + 1 => len(n + i) < len(n + (k + 1)))
    <3>1. CASE i = k + 1
      BY <2>2, <3>1
    <3>2. CASE i # k + 1
      <4>1. i \in 0..k
        BY <1>5, <3>2
      <4>2. len(n + i) <= len(n + k)
        BY <1>7, <4>1
      <4>3. n + i \in 0..m
        BY <1>1, <1>5, <4>1
      <4>4. len(n + i) \in Nat
        BY <1>4, <4>3
      <4>5. QED
        BY <2>2, <4>2, <4>4
    <3>3. QED
      BY <3>1, <3>2
  <2>4. QED
    BY <2>1, <2>3
<1> HIDE DEF P
<1>8. m - n \in P
  <2>1. \A i \in 0..(m - n) : i \in P
    BY <1>5, <1>6, <1>7, UpTo
  <2>2. QED
    BY <1>5, <2>1
<1>9. \A i \in 0..(m - n) : len(n + i) <= len(n + (m - n)) /\ (i < m - n => len(n + i) < len(n + (m - n)))
  BY <1>8 DEF P
<1>10. n + (m - n) = m /\ n + 0 = n /\ 0 \in 0..(m - n)
  BY <1>1, <1>5
<1>11. len(n) <= len(m) /\ (n < m => len(n) < len(m) /\ len(n + 1) <= len(m))
  <2>1. len(n) <= len(m) /\ (n < m => len(n) < len(m))
    BY <1>5, <1>9, <1>10
  <2>2. ASSUME n < m PROVE len(n + 1) <= len(m)
    <3>1. 1 \in 0..(m - n)
      BY <1>1, <1>5, <2>2
    <3>2. QED
      BY <1>9, <1>10, <3>1
  <2>3. QED
    BY <2>1, <2>2
<1>12. Len(Expand(runs)) = len(m) /\ Expand(runs) \in Lengths /\ m \in 0..m
  BY <1>1, <1>2 DEF len
<1>13. n < m => len(n) < len(n + 1)
  <2>1. n < m => n \in 0..(m - 1)
    BY <1>1, <1>5
  <2>2. QED
    BY <1>3, <2>1
<1>14. len(n) \in Nat /\ len(m) \in Nat
  BY <1>4, <1>5, <1>12
<1>15. len(n) = len(m) <=> n = m
  BY <1>1, <1>5, <1>11, <1>14
<1>16. QED
  BY <1>11, <1>12, <1>13, <1>14, <1>15 DEF len, u, m

\* The codes of the runs of a block, and how many bits the first i of them take.
RunCodes(runs, c) == [i \in DOMAIN runs |-> EncodeRun(runs[i], c)]
RunBits(runs, c, i) == Len(FlatTo(RunCodes(runs, c), i))

\* The codes of the runs are strings of bits.
LEMMA RunCodesType ==
    ASSUME NEW runs, NEW c \in Lengths, AreRuns(runs, c)
    PROVE  /\ DOMAIN runs = 1..Len(runs) /\ Len(runs) \in Nat
           /\ \A i \in 1..Len(runs) : IsRun(runs[i], c) /\ RunCodes(runs, c)[i] = EncodeRun(runs[i], c)
           /\ RunCodes(runs, c) \in Seq(Seq(Bit)) /\ Len(RunCodes(runs, c)) = Len(runs)
PROOF
<1> DEFINE n == Len(runs)
           q == RunCodes(runs, c)
<1>1. DOMAIN runs = 1..n /\ n \in Nat /\ \A i \in 1..n : IsRun(runs[i], c)
  BY DEF AreRuns
<1> HIDE DEF n
<1>2. q = [i \in 1..n |-> q[i]] /\ \A i \in 1..n : q[i] = EncodeRun(runs[i], c)
  BY <1>1 DEF RunCodes
<1> HIDE DEF q
<1>3. ASSUME NEW i \in 1..n PROVE q[i] \in Seq(Bit)
  BY <1>1, <1>2, RunType
<1>4. q \in Seq(Seq(Bit)) /\ Len(q) = n
  BY <1>1, <1>2, <1>3, ASequence
<1>5. QED
  BY <1>1, <1>2, <1>4 DEF n, q

\* Each run lies behind those before it.
LEMMA RunsLie ==
    ASSUME NEW runs, NEW c \in Lengths, AreRuns(runs, c),
           NEW d, Len(d) \in Nat, NEW p \in Nat, Holds(d, p, FlattenSeq(RunCodes(runs, c)))
    PROVE  /\ \A i \in 0..Len(runs) : RunBits(runs, c, i) \in Nat
           /\ RunBits(runs, c, 0) = 0
           /\ \A i \in 1..Len(runs) :
                 /\ Holds(d, p + RunBits(runs, c, i - 1), EncodeRun(runs[i], c))
                 /\ RunBits(runs, c, i) = RunBits(runs, c, i - 1) + Len(EncodeRun(runs[i], c))
           /\ Len(FlattenSeq(RunCodes(runs, c))) = RunBits(runs, c, Len(runs))
PROOF
<1> DEFINE n == Len(runs)
           q == RunCodes(runs, c)
<1>1. q \in Seq(Seq(Bit)) /\ Len(q) = n /\ n \in Nat /\ \A i \in 1..n : q[i] = EncodeRun(runs[i], c)
  BY RunCodesType
<1>2. Len(FlattenSeq(q)) = Len(FlatTo(q, n))
  BY <1>1, FlatType
<1>3. \A i \in 0..n : RunBits(runs, c, i) = Len(FlatTo(q, i)) /\ Len(FlatTo(q, i)) \in Nat
  <2>1. ASSUME NEW i \in 0..n PROVE RunBits(runs, c, i) = Len(FlatTo(q, i)) /\ FlatTo(q, i) \in Seq(Bit)
    BY <1>1, FlatToType DEF RunBits
  <2>2. QED
    BY <2>1
<1>4. FlatTo(q, 0) = <<>>
  BY <1>1, FlatToSteps
<1>5. Holds(d, p, FlattenSeq(q))
  OBVIOUS
<1> HIDE DEF q, n
<1>6. ASSUME NEW i \in 1..n
      PROVE  /\ Holds(d, p + RunBits(runs, c, i - 1), EncodeRun(runs[i], c))
             /\ RunBits(runs, c, i) = RunBits(runs, c, i - 1) + Len(EncodeRun(runs[i], c))
  <2>1. i - 1 \in 0..n /\ i \in 0..n /\ i \in 1..Len(q)
    BY <1>1
  <2>2. /\ Holds(d, p + Len(FlatTo(q, i - 1)), q[i])
        /\ Len(FlatTo(q, i)) = Len(FlatTo(q, i - 1)) + Len(q[i])
      <3>1. Len(d) \in Nat /\ p \in Nat /\ q \in Seq(Seq(Bit)) /\ Holds(d, p, FlattenSeq(q)) /\ i \in 1..Len(q)
        BY <1>1, <1>5, <2>1
      <3>2. QED
        BY <3>1, HoldsFlat, Zenon
  <2>3. QED
    BY <1>1, <1>3, <2>1, <2>2
<1>7. 0 \in 0..n /\ n \in 0..n
  BY <1>1
<1>8. RunBits(runs, c, 0) = 0 /\ RunBits(runs, c, n) = Len(FlatTo(q, n))
  BY <1>3, <1>4, <1>7
<1>9. QED
  BY <1>2, <1>3, <1>6, <1>8 DEF n, q

\* The three bits at the head of a block.
HeaderBits(final, type) == <<IF final THEN 1 ELSE 0>> \o LowFirst(type, 2)

\* They are three.
LEMMA HeaderType ==
    ASSUME NEW final \in BOOLEAN, NEW type \in 0..2
    PROVE  /\ <<IF final THEN 1 ELSE 0>> \in Seq(Bit) /\ Len(<<IF final THEN 1 ELSE 0>>) = 1
           /\ LowFirst(type, 2) \in Seq(Bit) /\ Len(LowFirst(type, 2)) = 2
           /\ HeaderBits(final, type) \in Seq(Bit) /\ Len(HeaderBits(final, type)) = 3
PROOF
<1> DEFINE x == <<IF final THEN 1 ELSE 0>>
           y == LowFirst(type, 2)
<1>1. x \in Seq(Bit) /\ Len(x) = 1
  <2>1. (IF final THEN 1 ELSE 0) \in Bit
    BY DEF Bit
  <2>2. QED
    BY <2>1, SingleOf
<1>2. y \in Seq(Bit) /\ Len(y) = 2
  <2>1. type \in Nat /\ 2 \in Nat
    OBVIOUS
  <2>2. QED
    BY <2>1, LowFirstType
<1>3. HeaderBits(final, type) = x \o y
  BY DEF HeaderBits
<1> HIDE DEF x, y
<1>4. x \o y \in Seq(Bit) /\ IsJoin(x \o y, x, y)
  BY <1>1, <1>2, Joined
<1>5. Len(x \o y) = 3
  BY <1>1, <1>2, <1>4 DEF IsJoin
<1>6. QED
  BY <1>1, <1>2, <1>3, <1>4, <1>5 DEF x, y

\* The first says if the block is the last, the others its type.
LEMMA HeaderLies ==
    ASSUME NEW final \in BOOLEAN, NEW type \in 0..2, NEW d, Len(d) \in Nat, NEW p \in Nat,
           Holds(d, p, HeaderBits(final, type))
    PROVE  Holds(d, p, <<IF final THEN 1 ELSE 0>>) /\ Holds(d, p + 1, LowFirst(type, 2))
PROOF
<1> DEFINE x == <<IF final THEN 1 ELSE 0>>
           y == LowFirst(type, 2)
<1>1. x \in Seq(Bit) /\ Len(x) = 1 /\ y \in Seq(Bit)
  BY HeaderType
<1>2. Holds(d, p, x \o y)
  BY DEF HeaderBits
<1> HIDE DEF x, y
<1>3. Holds(d, p, x) /\ Holds(d, p + Len(x), y)
  BY <1>1, <1>2, HoldsSplit
<1>4. QED
  BY <1>1, <1>3 DEF x, y

\* A block with the fixed codes.
LEMMA FixedBits ==
    ASSUME NEW b, b.kind = "fixed", AreTokens(b.tokens, FixedLiterals, FixedDistances), NEW at \in Nat, NEW final \in BOOLEAN
    PROVE  /\ EncodeBlock(b, at, final) \in Seq(Bit)
           /\ Len(EncodeBlock(b, at, final)) = 3 + Len(EncodeTokens(b.tokens, FixedLiterals, FixedDistances))
           /\ \A d : Len(d) \in Nat /\ Holds(d, at, EncodeBlock(b, at, final)) =>
                 /\ Holds(d, at, HeaderBits(final, 1))
                 /\ Holds(d, at + 3, EncodeTokens(b.tokens, FixedLiterals, FixedDistances))
PROOF
<1> DEFINE x == HeaderBits(final, 1)
           y == EncodeTokens(b.tokens, FixedLiterals, FixedDistances)
<1>1. EncodeBlock(b, at, final) = x \o y
  BY DEF EncodeBlock, HeaderBits
<1>2. x \in Seq(Bit) /\ Len(x) = 3
  <2>1. 1 \in 0..2
    OBVIOUS
  <2>2. QED
    BY <2>1, HeaderType
<1>3. y \in Seq(Bit)
  BY TokensType
<1> HIDE DEF x, y
<1>4. x \o y \in Seq(Bit) /\ Len(x \o y) = 3 + Len(y)
  <2>1. x \o y \in Seq(Bit) /\ IsJoin(x \o y, x, y)
    BY <1>2, <1>3, Joined
  <2>2. QED
    BY <1>2, <2>1 DEF IsJoin
<1>5. ASSUME NEW d, Len(d) \in Nat, Holds(d, at, x \o y) PROVE Holds(d, at, x) /\ Holds(d, at + 3, y)
  BY <1>2, <1>3, <1>5, HoldsSplit
<1>6. QED
  BY <1>1, <1>4, <1>5 DEF x, y

\* The numbers of bits that the sizes of a dynamic block take, and its sizes.
LengthWidths(b) == [i \in 1..b.hclen |-> LowFirst(b.codelens[HclenOrder[i] + 1], CodeLenBits)]
SizesHead == SizeBits[1] + SizeBits[2] + SizeBits[3]

\* What a dynamic block says of its trees, part by part.
LEMMA TreesType ==
    ASSUME NEW b, AreTrees(b)
    PROVE  /\ b.codelens \in Lengths /\ IsCode(b.codelens) /\ Len(b.codelens) = MaxCodeBits + 4
           /\ AreRuns(b.runs, b.codelens) /\ Len(Expand(b.runs)) = b.hlit + b.hdist
           /\ b.hlit \in Nat /\ b.hdist \in Nat /\ b.hclen \in Nat
           /\ b.hlit - NumLiterals - 1 \in Nat /\ b.hlit - NumLiterals - 1 < 2^SizeBits[1]
           /\ b.hdist - 1 \in Nat /\ b.hdist - 1 < 2^SizeBits[2]
           /\ b.hclen - MinHclen \in Nat /\ b.hclen - MinHclen < 2^SizeBits[3]
           /\ b.hlit <= NumLiterals + 1 + Len(LengthExtra) /\ b.hdist <= Len(DistanceExtra)
           /\ b.hclen <= Len(HclenOrder)
           /\ \A i \in 1..b.hclen : /\ HclenOrder[i] + 1 \in 1..(MaxCodeBits + 4) /\ b.codelens[HclenOrder[i] + 1] \in Nat
                                    /\ b.codelens[HclenOrder[i] + 1] < 2^CodeLenBits
PROOF
<1> DEFINE lit == 2^SizeBits[1]
           dist == 2^SizeBits[2]
           len == 2^SizeBits[3]
<1>1. lit \in Nat /\ dist \in Nat /\ len \in Nat /\ NumLiterals \in Nat /\ MinHclen \in Nat /\ MaxCodeBits \in Nat
  <2>1. SizeBits[1] \in Nat /\ SizeBits[2] \in Nat /\ SizeBits[3] \in Nat
    BY Widths
  <2>2. QED
    BY <2>1, PowType, Parameters
<1>2. /\ b.hlit \in (NumLiterals + 1)..(NumLiterals + lit)
      /\ b.hdist \in 1..dist /\ b.hclen \in MinHclen..(MinHclen + len - 1)
      /\ b.hlit <= NumLiterals + 1 + Len(LengthExtra) /\ b.hdist <= Len(DistanceExtra) /\ b.hclen <= Len(HclenOrder)
  BY DEF AreTrees
<1>3. /\ IsCode(b.codelens) /\ Len(b.codelens) = MaxCodeBits + 4
      /\ \A s \in DOMAIN b.codelens : b.codelens[s] < 2^CodeLenBits
      /\ AreRuns(b.runs, b.codelens) /\ Len(Expand(b.runs)) = b.hlit + b.hdist
  BY DEF AreTrees
<1>4. b.codelens \in Lengths
  BY <1>3 DEF IsCode, Lengths
<1> HIDE DEF lit, dist, len
<1>5. /\ b.hlit \in Nat /\ b.hlit - NumLiterals - 1 \in Nat /\ b.hlit - NumLiterals - 1 < lit
      /\ b.hdist \in Nat /\ b.hdist - 1 \in Nat /\ b.hdist - 1 < dist
      /\ b.hclen \in Nat /\ b.hclen - MinHclen \in Nat /\ b.hclen - MinHclen < len
  <2>1. b.hlit \in Nat /\ b.hlit - NumLiterals - 1 \in Nat /\ b.hlit - NumLiterals - 1 < lit
    BY <1>1, <1>2
  <2>2. b.hdist \in Nat /\ b.hdist - 1 \in Nat /\ b.hdist - 1 < dist
    BY <1>1, <1>2
  <2>3. b.hclen \in Nat /\ b.hclen - MinHclen \in Nat /\ b.hclen - MinHclen < len
    BY <1>1, <1>2
  <2>4. QED
    BY <2>1, <2>2, <2>3
<1>6. ASSUME NEW i \in 1..b.hclen
      PROVE  /\ HclenOrder[i] + 1 \in 1..(MaxCodeBits + 4) /\ b.codelens[HclenOrder[i] + 1] \in Nat
             /\ b.codelens[HclenOrder[i] + 1] < 2^CodeLenBits
  <2> DEFINE order == HclenOrder[i]
  <2>1. order \in 0..(MaxCodeBits + 3)
    <3> DEFINE T == 0..(MaxCodeBits + 3)
    <3>1. Len(HclenOrder) = MaxCodeBits + 4 /\ HclenOrder \in Seq(T)
      BY FormatConstants
    <3> HIDE DEF T
    <3>2. i \in 1..Len(HclenOrder)
      BY <1>1, <1>2, <1>5, <3>1
    <3>3. HclenOrder[i] \in T
      BY <3>1, <3>2, ElementOfSeq
    <3>4. QED
      BY <3>3 DEF T
  <2> HIDE DEF order
  <2>2. order + 1 \in 1..(MaxCodeBits + 4)
    BY <1>1, <2>1
  <2>3. order + 1 \in DOMAIN b.codelens /\ b.codelens[order + 1] \in 0..LongestCode(b.codelens)
    BY <1>3, <1>4, <2>2, LongestIs DEF Lengths
  <2>4. b.codelens[order + 1] \in Nat /\ b.codelens[order + 1] < 2^CodeLenBits
    <3>1. LongestCode(b.codelens) \in Nat
      BY <1>1, <1>4, LongestIs
    <3>2. QED
      BY <1>3, <2>3, <3>1
  <2>5. QED
    BY <2>2, <2>4 DEF order
<1>7. QED
  BY <1>2, <1>3, <1>4, <1>5, <1>6 DEF lit, dist, len

\* The sizes of a dynamic block and the lengths of its code-length code.
LEMMA SizesBits ==
    ASSUME NEW b, AreTrees(b)
    PROVE  /\ EncodeSizes(b) \in Seq(Bit) /\ SizesHead \in Nat
           /\ Len(EncodeSizes(b)) = SizesHead + CodeLenBits * b.hclen
           /\ \A d : \A p \in Nat : Len(d) \in Nat /\ Holds(d, p, EncodeSizes(b)) =>
                 /\ Holds(d, p, LowFirst(b.hlit - NumLiterals - 1, SizeBits[1]))
                 /\ Holds(d, p + SizeBits[1], LowFirst(b.hdist - 1, SizeBits[2]))
                 /\ Holds(d, p + (SizeBits[1] + SizeBits[2]), LowFirst(b.hclen - MinHclen, SizeBits[3]))
                 /\ \A i \in 1..b.hclen :
                       Holds(d, p + SizesHead + CodeLenBits * (i - 1), LowFirst(b.codelens[HclenOrder[i] + 1], CodeLenBits))
PROOF
<1> DEFINE x == LowFirst(b.hlit - NumLiterals - 1, SizeBits[1])
           y == LowFirst(b.hdist - 1, SizeBits[2])
           z == LowFirst(b.hclen - MinHclen, SizeBits[3])
           q == LengthWidths(b)
           f == FlattenSeq(q)
           n == b.hclen
           w == CodeLenBits
<1>1. EncodeSizes(b) = ((x \o y) \o z) \o f
  BY Zenon DEF EncodeSizes, LengthWidths
<1>2. w \in Nat /\ n \in Nat /\ SizeBits[1] \in Nat /\ SizeBits[2] \in Nat /\ SizeBits[3] \in Nat
  BY Widths, TreesType
<1>3. /\ x \in Seq(Bit) /\ Len(x) = SizeBits[1]
      /\ y \in Seq(Bit) /\ Len(y) = SizeBits[2]
      /\ z \in Seq(Bit) /\ Len(z) = SizeBits[3]
  BY <1>2, TreesType, LowFirstType
<1>4. q \in Seq(Seq(Bit)) /\ Len(q) = n /\ \A i \in 1..n : q[i] = LowFirst(b.codelens[HclenOrder[i] + 1], w) /\ Len(q[i]) = w
  <2>1. q = [i \in 1..n |-> q[i]] /\ \A i \in 1..n : q[i] = LowFirst(b.codelens[HclenOrder[i] + 1], w)
    BY DEF LengthWidths
  <2>2. ASSUME NEW i \in 1..n PROVE q[i] \in Seq(Bit) /\ Len(q[i]) = w
    <3>1. b.codelens[HclenOrder[i] + 1] \in Nat
      BY TreesType
    <3> DEFINE v == b.codelens[HclenOrder[i] + 1]
    <3>2. q[i] = LowFirst(v, w) /\ v \in Nat
      BY <2>1, <3>1
    <3> HIDE DEF v, q, w
    <3>3. LowFirst(v, w) \in Seq(Bit) /\ Len(LowFirst(v, w)) = w
      BY <1>2, <3>2, LowFirstType
    <3>4. QED
      BY <3>2, <3>3
  <2> HIDE DEF q, n, w
  <2>3. QED
    BY <1>2, <2>1, <2>2, ASequence
<1>5. f \in Seq(Bit) /\ Len(f) = w * n /\ \A i \in 0..n : Len(FlatTo(q, i)) = w * i
  <2> HIDE DEF q, n, w
  <2>1. f \in Seq(Bit) /\ f = FlatTo(q, n)
    BY <1>4, FlatType
  <2>2. \A i \in 0..n : Len(FlatTo(q, i)) = w * i
    BY <1>2, <1>4, FlatEven
  <2>3. n \in 0..n
    BY <1>2
  <2>4. QED
    BY <2>1, <2>2, <2>3
<1> DEFINE xy == x \o y
           xyz == xy \o z
           all == xyz \o f
<1> HIDE DEF x, y, z, f, q, n, w
<1>6. xy \in Seq(Bit) /\ Len(xy) = SizeBits[1] + SizeBits[2]
  <2>1. xy \in Seq(Bit) /\ IsJoin(xy, x, y)
    BY <1>3, Joined
  <2>2. QED
    BY <1>3, <2>1 DEF IsJoin
<1> HIDE DEF xy
<1>7. xyz \in Seq(Bit) /\ Len(xyz) = SizesHead
  <2>1. xyz \in Seq(Bit) /\ IsJoin(xyz, xy, z)
    BY <1>3, <1>6, Joined
  <2>2. QED
    BY <1>3, <1>6, <2>1 DEF IsJoin, SizesHead
<1> HIDE DEF xyz
<1>8. all \in Seq(Bit) /\ Len(all) = SizesHead + w * n /\ SizesHead \in Nat
  <2>1. all \in Seq(Bit) /\ IsJoin(all, xyz, f)
    BY <1>5, <1>7, Joined
  <2>2. SizesHead \in Nat
    BY <1>2 DEF SizesHead
  <2>3. QED
    BY <1>5, <1>7, <2>1, <2>2 DEF IsJoin
<1>9. ASSUME NEW d, NEW p \in Nat, Len(d) \in Nat, Holds(d, p, all)
      PROVE  /\ Holds(d, p, x) /\ Holds(d, p + SizeBits[1], y) /\ Holds(d, p + (SizeBits[1] + SizeBits[2]), z)
             /\ \A i \in 1..n : Holds(d, p + SizesHead + w * (i - 1), q[i])
  <2>1. Holds(d, p, xyz) /\ Holds(d, p + Len(xyz), f)
    BY <1>5, <1>7, <1>9, HoldsSplit
  <2>2. Holds(d, p, xy) /\ Holds(d, p + Len(xy), z)
    <3>1. Holds(d, p, xy \o z)
      BY <2>1 DEF xyz
    <3>2. QED
      BY <1>3, <1>6, <1>9, <3>1, HoldsSplit
  <2>3. Holds(d, p, x) /\ Holds(d, p + Len(x), y)
    <3>1. Holds(d, p, x \o y)
      BY <2>2 DEF xy
    <3>2. QED
      BY <1>3, <1>9, <3>1, HoldsSplit
  <2>4. ASSUME NEW i \in 1..n PROVE Holds(d, p + SizesHead + w * (i - 1), q[i])
    <3>1. i \in 1..Len(q) /\ i - 1 \in 0..n
      BY <1>2, <1>4
    <3> DEFINE at == p + SizesHead
    <3>2. at \in Nat /\ Holds(d, at, FlattenSeq(q))
      BY <1>7, <1>8, <2>1 DEF f
    <3> HIDE DEF at
    <3>3. Holds(d, at + Len(FlatTo(q, i - 1)), q[i])
      BY <1>4, <1>9, <3>1, <3>2, HoldsFlat
    <3>4. Len(FlatTo(q, i - 1)) = w * (i - 1)
      BY <1>5, <3>1
    <3>5. QED
      BY <3>3, <3>4 DEF at
  <2>5. QED
    BY <1>3, <1>6, <2>2, <2>3, <2>4
<1>10. EncodeSizes(b) = all
  BY <1>1 DEF xy, xyz
<1> HIDE DEF all
<1>11. ASSUME NEW d, NEW p \in Nat, Len(d) \in Nat, Holds(d, p, EncodeSizes(b))
      PROVE  /\ Holds(d, p, x) /\ Holds(d, p + SizeBits[1], y) /\ Holds(d, p + (SizeBits[1] + SizeBits[2]), z)
             /\ \A i \in 1..n : Holds(d, p + SizesHead + w * (i - 1), LowFirst(b.codelens[HclenOrder[i] + 1], w))
  <2>1. Holds(d, p, all)
    BY <1>10, <1>11
  <2>2. QED
    BY <1>4, <1>9, <1>11, <2>1
<1>12. QED
  BY <1>8, <1>10, <1>11 DEF x, y, z, n, w

\* A block with codes of its own.
LEMMA DynamicBits ==
    ASSUME NEW b, b.kind = "dynamic", AreTrees(b), AreTokens(b.tokens, Literals(b), Distances(b)),
           NEW at \in Nat, NEW final \in BOOLEAN
    PROVE  /\ EncodeBlock(b, at, final) \in Seq(Bit)
           /\ Len(FlattenSeq(RunCodes(b.runs, b.codelens))) \in Nat
           /\ Len(EncodeBlock(b, at, final)) = 3 + SizesHead + CodeLenBits * b.hclen
                  + Len(FlattenSeq(RunCodes(b.runs, b.codelens))) + Len(EncodeTokens(b.tokens, Literals(b), Distances(b)))
           /\ \A d : Len(d) \in Nat /\ Holds(d, at, EncodeBlock(b, at, final)) =>
                 /\ Holds(d, at, HeaderBits(final, 2)) /\ Holds(d, at + 3, EncodeSizes(b))
                 /\ Holds(d, at + 3 + (SizesHead + CodeLenBits * b.hclen), FlattenSeq(RunCodes(b.runs, b.codelens)))
                 /\ Holds(d, at + 3 + (SizesHead + CodeLenBits * b.hclen) + Len(FlattenSeq(RunCodes(b.runs, b.codelens))),
                          EncodeTokens(b.tokens, Literals(b), Distances(b)))
PROOF
<1> DEFINE x == HeaderBits(final, 2)
           y == EncodeSizes(b)
           z == FlattenSeq(RunCodes(b.runs, b.codelens))
           t == EncodeTokens(b.tokens, Literals(b), Distances(b))
           s == SizesHead + CodeLenBits * b.hclen
<1>1. EncodeBlock(b, at, final) = ((x \o y) \o z) \o t
  BY DEF EncodeBlock, HeaderBits, RunCodes
<1>2. x \in Seq(Bit) /\ Len(x) = 3
  <2>1. 2 \in 0..2
    OBVIOUS
  <2>2. QED
    BY <2>1, HeaderType
<1>3. y \in Seq(Bit) /\ Len(y) = s
  BY SizesBits
<1>4. z \in Seq(Bit) /\ Len(z) \in Nat
  <2>1. RunCodes(b.runs, b.codelens) \in Seq(Seq(Bit))
    BY TreesType, RunCodesType
  <2>2. QED
    BY <2>1, FlatType
<1>5. t \in Seq(Bit) /\ Len(t) \in Nat
  <2>1. t \in Seq(Bit)
    BY TokensType
  <2> HIDE DEF t
  <2>2. QED
    BY <2>1
<1>6. s \in Nat /\ 3 + s = 3 + SizesHead + CodeLenBits * b.hclen
  <2>1. CodeLenBits \in Nat /\ b.hclen \in Nat /\ SizesHead \in Nat
    BY Widths, TreesType, SizesBits
  <2> DEFINE k == CodeLenBits * b.hclen
  <2>2. k \in Nat
    BY <2>1
  <2> HIDE DEF k
  <2>3. SizesHead + k \in Nat /\ 3 + (SizesHead + k) = 3 + SizesHead + k
    BY <2>1, <2>2
  <2>4. QED
    BY <2>3 DEF k
<1> DEFINE xy == x \o y
           xyz == xy \o z
           all == xyz \o t
<1> HIDE DEF x, y, z, t, s
<1>7. xy \in Seq(Bit) /\ Len(xy) = 3 + s
  <2>1. xy \in Seq(Bit) /\ IsJoin(xy, x, y)
    BY <1>2, <1>3, Joined
  <2>2. QED
    BY <1>2, <1>3, <2>1 DEF IsJoin
<1> HIDE DEF xy
<1>8. xyz \in Seq(Bit) /\ Len(xyz) = 3 + s + Len(z)
  <2>1. xyz \in Seq(Bit) /\ IsJoin(xyz, xy, z)
    BY <1>4, <1>7, Joined
  <2>2. QED
    BY <1>7, <2>1 DEF IsJoin
<1> HIDE DEF xyz
<1>9. all \in Seq(Bit) /\ Len(all) = 3 + s + Len(z) + Len(t)
  <2>1. all \in Seq(Bit) /\ IsJoin(all, xyz, t)
    BY <1>5, <1>8, Joined
  <2>2. QED
    BY <1>8, <2>1 DEF IsJoin
<1>10. ASSUME NEW d, Len(d) \in Nat, Holds(d, at, all)
      PROVE  Holds(d, at, x) /\ Holds(d, at + 3, y) /\ Holds(d, at + 3 + s, z) /\ Holds(d, at + 3 + s + Len(z), t)
  <2>1. Holds(d, at, xyz) /\ Holds(d, at + Len(xyz), t)
    BY <1>5, <1>8, <1>10, HoldsSplit
  <2>2. Holds(d, at, xy) /\ Holds(d, at + Len(xy), z)
    <3>1. Holds(d, at, xy \o z)
      BY <2>1 DEF xyz
    <3>2. QED
      BY <1>4, <1>7, <1>10, <3>1, HoldsSplit
  <2>3. Holds(d, at, x) /\ Holds(d, at + Len(x), y)
    <3>1. Holds(d, at, x \o y)
      BY <2>2 DEF xy
    <3>2. QED
      BY <1>2, <1>3, <1>10, <3>1, HoldsSplit
  <2>4. at + Len(xy) = at + 3 + s /\ at + Len(xyz) = at + 3 + s + Len(z)
    BY <1>4, <1>6, <1>7, <1>8
  <2>5. QED
    BY <1>2, <2>1, <2>2, <2>3, <2>4
<1>11. EncodeBlock(b, at, final) = all
  BY <1>1 DEF xy, xyz
<1> HIDE DEF all
<1>12. ASSUME NEW d, Len(d) \in Nat, Holds(d, at, EncodeBlock(b, at, final))
       PROVE  Holds(d, at, x) /\ Holds(d, at + 3, y) /\ Holds(d, at + 3 + s, z) /\ Holds(d, at + 3 + s + Len(z), t)
  BY <1>10, <1>11, <1>12
<1>13. Len(EncodeBlock(b, at, final)) = 3 + SizesHead + CodeLenBits * b.hclen + Len(z) + Len(t)
  BY <1>6, <1>9, <1>11
<1>14. EncodeBlock(b, at, final) \in Seq(Bit)
  BY <1>9, <1>11
<1>15. QED
  BY <1>4, <1>12, <1>13, <1>14 DEF x, y, z, t, s

\* A block of bytes as they are.
ByteCodes(bytes) == [k \in DOMAIN bytes |-> LowFirst(bytes[k], 8)]

\* Each byte takes eight bits.
LEMMA ByteCodesType ==
    ASSUME NEW bytes \in Seq(0..255)
    PROVE  /\ ByteCodes(bytes) \in Seq(Seq(Bit)) /\ Len(ByteCodes(bytes)) = Len(bytes) /\ Len(bytes) \in Nat
           /\ \A k \in 1..Len(bytes) : ByteCodes(bytes)[k] = LowFirst(bytes[k], 8) /\ Len(ByteCodes(bytes)[k]) = 8
           /\ \A k \in 0..Len(bytes) : Len(FlatTo(ByteCodes(bytes), k)) = 8 * k
PROOF
<1> DEFINE n == Len(bytes)
           q == ByteCodes(bytes)
           w == 8
<1>1. n \in Nat /\ DOMAIN bytes = 1..n /\ w \in Nat
  OBVIOUS
<1>2. q = [k \in 1..n |-> q[k]] /\ \A k \in 1..n : q[k] = LowFirst(bytes[k], 8)
  BY DEF ByteCodes
<1> HIDE DEF n, q
<1>3. ASSUME NEW k \in 1..n PROVE q[k] \in Seq(Bit) /\ Len(q[k]) = w
  <2> DEFINE v == bytes[k]
  <2>1. v \in Nat
    <3> DEFINE T == 0..255
    <3>1. bytes \in Seq(T) /\ k \in 1..Len(bytes)
      BY DEF n
    <3> HIDE DEF T
    <3>2. v \in T
      BY <3>1, ElementOfSeq
    <3>3. T \subseteq Nat
      BY DEF T
    <3>4. QED
      BY <3>2, <3>3
  <2>2. q[k] = LowFirst(v, w)
    BY <1>2
  <2> HIDE DEF v, w
  <2>3. LowFirst(v, w) \in Seq(Bit) /\ Len(LowFirst(v, w)) = w
    BY <1>1, <2>1, LowFirstType
  <2>4. QED
    BY <2>2, <2>3
<1>4. q \in Seq(Seq(Bit)) /\ Len(q) = n
  BY <1>1, <1>2, <1>3, ASequence
<1> HIDE DEF w
<1>5. \A k \in 0..n : Len(FlatTo(q, k)) = w * k
  BY <1>1, <1>3, <1>4, FlatEven
<1>6. QED
  BY <1>1, <1>2, <1>3, <1>4, <1>5 DEF n, q, w

\* A stored block: its length, the complement and the bytes behind the padding.
LEMMA StoredBits ==
    ASSUME NEW b, b.kind = "stored", AreBytes(b.bytes), NEW at \in Nat, NEW final \in BOOLEAN
    PROVE  /\ EncodeBlock(b, at, final) \in Seq(Bit)
           /\ Len(EncodeBlock(b, at, final)) = 3 + Pad(at + 3) + 32 + 8 * Len(b.bytes)
           /\ \A d : Len(d) \in Nat /\ Holds(d, at, EncodeBlock(b, at, final)) =>
                 /\ Holds(d, at, HeaderBits(final, 0))
                 /\ Holds(d, at + 3 + Pad(at + 3), LowFirst(Len(b.bytes), 16))
                 /\ Holds(d, at + 3 + Pad(at + 3) + 16, LowFirst(2^16 - 1 - Len(b.bytes), 16))
                 /\ \A k \in 1..Len(b.bytes) :
                       Holds(d, at + 3 + Pad(at + 3) + 32 + 8 * (k - 1), LowFirst(b.bytes[k], 8))
PROOF
<1> DEFINE x == HeaderBits(final, 0)
           n == Len(b.bytes)
           g == Pad(at + 3)
           z == [k \in 1..g |-> 0]
           u == LowFirst(n, 16)
           m == 2^16 - 1 - n
           v == LowFirst(m, 16)
           q == ByteCodes(b.bytes)
           f == FlattenSeq(q)
<1>1. EncodeBlock(b, at, final) = (((x \o z) \o u) \o v) \o f
  BY DEF EncodeBlock, HeaderBits, ByteCodes, Pad
<1>2. x \in Seq(Bit) /\ Len(x) = 3
  <2>1. 0 \in 0..2
    OBVIOUS
  <2>2. QED
    BY <2>1, HeaderType
<1>3. z \in Seq(Bit) /\ Len(z) = g /\ g \in Nat
  <2>1. g \in Nat
    <3>1. at + 3 \in Nat
      OBVIOUS
    <3>2. g \in 0..7
      BY <3>1, PadIs
    <3>3. QED
      BY <3>2
  <2> HIDE DEF g
  <2>2. z = [k \in 1..g |-> z[k]] /\ \A k \in 1..g : z[k] \in Bit
    BY DEF Bit
  <2> HIDE DEF z
  <2>3. QED
    BY <2>1, <2>2, ASequence
<1>4. n \in Nat /\ m \in Nat
  <2> DEFINE a == 2^16
  <2>1. n \in Nat /\ n < a
    BY DEF AreBytes
  <2>2. a \in Nat
    BY PowType
  <2> HIDE DEF a, n
  <2>3. a - 1 - n \in Nat
    BY <2>1, <2>2
  <2>4. QED
    BY <2>1, <2>3 DEF a
<1> HIDE DEF m, n
<1>5. u \in Seq(Bit) /\ Len(u) = 16 /\ v \in Seq(Bit) /\ Len(v) = 16
  <2>1. 16 \in Nat
    OBVIOUS
  <2>2. QED
    BY <1>4, <2>1, LowFirstType
<1>6. /\ q \in Seq(Seq(Bit)) /\ Len(q) = n
      /\ \A k \in 1..n : q[k] = LowFirst(b.bytes[k], 8)
      /\ \A k \in 0..n : Len(FlatTo(q, k)) = 8 * k
  <2>1. b.bytes \in Seq(0..255)
    BY DEF AreBytes
  <2>2. QED
    BY <2>1, ByteCodesType DEF n
<1>7. f \in Seq(Bit) /\ Len(f) = 8 * n
  <2> HIDE DEF q
  <2>1. f \in Seq(Bit) /\ f = FlatTo(q, n) /\ n \in 0..n
    BY <1>4, <1>6, FlatType
  <2>2. QED
    BY <1>6, <2>1
<1> DEFINE xz == x \o z
           xzu == xz \o u
           xzuv == xzu \o v
           all == xzuv \o f
<1> HIDE DEF x, z, u, v, f, q, g
<1>8. xz \in Seq(Bit) /\ Len(xz) = 3 + g
  <2>1. xz \in Seq(Bit) /\ IsJoin(xz, x, z)
    BY <1>2, <1>3, Joined
  <2>2. QED
    BY <1>2, <1>3, <2>1 DEF IsJoin
<1> HIDE DEF xz
<1>9. xzu \in Seq(Bit) /\ Len(xzu) = 3 + g + 16
  <2>1. xzu \in Seq(Bit) /\ IsJoin(xzu, xz, u)
    BY <1>5, <1>8, Joined
  <2>2. QED
    BY <1>3, <1>5, <1>8, <2>1 DEF IsJoin
<1> HIDE DEF xzu
<1>10. xzuv \in Seq(Bit) /\ Len(xzuv) = 3 + g + 32
  <2>1. xzuv \in Seq(Bit) /\ IsJoin(xzuv, xzu, v)
    BY <1>5, <1>9, Joined
  <2>2. QED
    BY <1>3, <1>5, <1>9, <2>1 DEF IsJoin
<1> HIDE DEF xzuv
<1>11. all \in Seq(Bit) /\ Len(all) = 3 + g + 32 + 8 * n
  <2>1. all \in Seq(Bit) /\ IsJoin(all, xzuv, f)
    BY <1>7, <1>10, Joined
  <2>2. QED
    BY <1>3, <1>4, <1>7, <1>10, <2>1 DEF IsJoin
<1>12. ASSUME NEW d, Len(d) \in Nat, Holds(d, at, all)
       PROVE  /\ Holds(d, at, x) /\ Holds(d, at + 3 + g, u) /\ Holds(d, at + 3 + g + 16, v)
              /\ \A k \in 1..n : Holds(d, at + 3 + g + 32 + 8 * (k - 1), q[k])
  <2>1. Holds(d, at, xzuv) /\ Holds(d, at + Len(xzuv), f)
    BY <1>7, <1>10, <1>12, HoldsSplit
  <2>2. Holds(d, at, xzu) /\ Holds(d, at + Len(xzu), v)
    <3>1. Holds(d, at, xzu \o v)
      BY <2>1 DEF xzuv
    <3>2. QED
      BY <1>5, <1>9, <1>12, <3>1, HoldsSplit
  <2>3. Holds(d, at, xz) /\ Holds(d, at + Len(xz), u)
    <3>1. Holds(d, at, xz \o u)
      BY <2>2 DEF xzu
    <3>2. QED
      BY <1>5, <1>8, <1>12, <3>1, HoldsSplit
  <2>4. Holds(d, at, x)
    <3>1. Holds(d, at, x \o z)
      BY <2>3 DEF xz
    <3>2. QED
      BY <1>2, <1>3, <1>12, <3>1, HoldsSplit
  <2> DEFINE p == at + 3 + g + 32
  <2>5. p \in Nat /\ at + Len(xzuv) = p /\ at + Len(xzu) = at + 3 + g + 16 /\ at + Len(xz) = at + 3 + g
    BY <1>3, <1>8, <1>9, <1>10
  <2>6. ASSUME NEW k \in 1..n PROVE Holds(d, p + 8 * (k - 1), q[k])
    <3> HIDE DEF p
    <3>1. k \in 1..Len(q) /\ k - 1 \in 0..n
      BY <1>4, <1>6
    <3>2. Holds(d, p, FlattenSeq(q))
      BY <2>1, <2>5 DEF f
    <3>3. Holds(d, p + Len(FlatTo(q, k - 1)), q[k])
      BY <1>6, <1>12, <2>5, <3>1, <3>2, HoldsFlat
    <3>4. Len(FlatTo(q, k - 1)) = 8 * (k - 1)
      BY <1>6, <3>1
    <3>5. QED
      BY <3>3, <3>4
  <2>7. QED
    BY <2>1, <2>2, <2>3, <2>4, <2>5, <2>6
<1>13. EncodeBlock(b, at, final) = all
  BY <1>1 DEF xz, xzu, xzuv
<1> HIDE DEF all
<1>14. ASSUME NEW d, Len(d) \in Nat, Holds(d, at, EncodeBlock(b, at, final))
       PROVE  /\ Holds(d, at, x) /\ Holds(d, at + 3 + g, u) /\ Holds(d, at + 3 + g + 16, v)
              /\ \A k \in 1..n : Holds(d, at + 3 + g + 32 + 8 * (k - 1), LowFirst(b.bytes[k], 8))
  <2>1. Holds(d, at, all)
    BY <1>13, <1>14
  <2>2. QED
    BY <1>6, <1>12, <1>14, <2>1
<1>15. QED
  BY <1>11, <1>13, <1>14 DEF x, u, v, g, n, m

\* The bits of a block and its literals.
LEMMA LiteralsType ==
    ASSUME NEW b, IsBlock(b)
    PROVE  LiteralBytes(b) \in Seq(Nat) /\ Len(LiteralBytes(b)) \in Nat
PROOF
<1>1. CASE b.kind = "stored" /\ AreBytes(b.bytes)
  <2>1. LiteralBytes(b) = b.bytes
    BY <1>1 DEF LiteralBytes
  <2>2. 0..255 \subseteq Nat
    OBVIOUS
  <2>3. b.bytes \in Seq(Nat)
    <3>1. b.bytes \in Seq(0..255)
      BY <1>1 DEF AreBytes
    <3>2. QED
      BY <2>2, <3>1, SeqWithin, Zenon
  <2>4. QED
    BY <2>1, <2>3
<1>2. ASSUME b.kind # "stored", NEW l, NEW t, AreTokens(b.tokens, l, t) PROVE LiteralBytes(b) \in Seq(Nat)
  <2> DEFINE q == TokenBytes(b.tokens)
             S == 0..(NumLiterals - 1)
  <2>1. LiteralBytes(b) = FlattenSeq(q)
    BY <1>2 DEF LiteralBytes, TokenBytes
  <2>2. q \in Seq(Seq(S)) /\ S \subseteq Nat
    BY <1>2, TokensType, Parameters
  <2> HIDE DEF q, S
  <2>3. FlattenSeq(q) \in Seq(S)
    BY <2>2, FlatType
  <2>4. FlattenSeq(q) \in Seq(Nat)
    BY <2>2, <2>3, SeqWithin
  <2>5. QED
    BY <2>1, <2>4
<1>3. CASE b.kind = "fixed" /\ AreTokens(b.tokens, FixedLiterals, FixedDistances)
  <2>1. b.kind # "stored"
    BY <1>3
  <2>2. LiteralBytes(b) \in Seq(Nat)
    BY <1>2, <1>3, <2>1
  <2>3. QED
    BY <2>2
<1>4. CASE b.kind = "dynamic" /\ AreTokens(b.tokens, Literals(b), Distances(b))
  <2>1. b.kind # "stored"
    BY <1>4
  <2>2. LiteralBytes(b) \in Seq(Nat)
    BY <1>2, <1>4, <2>1
  <2>3. QED
    BY <2>2
<1>5. QED
  BY <1>1, <1>3, <1>4 DEF IsBlock

\* The bits of a block, whatever its type.
LEMMA BlockBits ==
    ASSUME NEW b, IsBlock(b), NEW at \in Nat, NEW final \in BOOLEAN
    PROVE  EncodeBlock(b, at, final) \in Seq(Bit) /\ Len(EncodeBlock(b, at, final)) \in Nat
PROOF
<1>1. CASE b.kind = "stored" /\ AreBytes(b.bytes)
  BY <1>1, StoredBits
<1>2. CASE b.kind = "fixed" /\ AreTokens(b.tokens, FixedLiterals, FixedDistances)
  BY <1>2, FixedBits
<1>3. CASE b.kind = "dynamic" /\ AreTrees(b) /\ AreTokens(b.tokens, Literals(b), Distances(b))
  BY <1>3, DynamicBits
<1>4. EncodeBlock(b, at, final) \in Seq(Bit)
  BY <1>1, <1>2, <1>3 DEF IsBlock
<1>5. QED
  BY <1>4

\* The encoding of the first n blocks, and what the next one adds to it.
Encoded == [bits : Seq(Bit), extents : Seq(BlockType)]

Extend(so, b, final) ==
    LET bits == so.bits \o EncodeBlock(b, Len(so.bits), final)
    IN  [bits |-> bits,
         extents |-> Append(so.extents, [start |-> Len(so.bits), end |-> Len(bits), literals |-> LiteralBytes(b)])]

UpToBlock(bs) ==
    LET upto[n \in 0..Len(bs)] ==
            IF n = 0 THEN [bits |-> <<>>, extents |-> <<>>]
            ELSE LET so   == upto[n - 1]
                     bits == so.bits \o EncodeBlock(bs[n], Len(so.bits), n = Len(bs))
                 IN  [bits |-> bits,
                      extents |-> Append(so.extents, [start |-> Len(so.bits), end |-> Len(bits),
                                                      literals |-> LiteralBytes(bs[n])])]
    IN  upto

\* One block more is behind the others.
LEMMA ExtendIs ==
    ASSUME NEW so \in Encoded, NEW b, IsBlock(b), NEW final \in BOOLEAN
    PROVE  LET c == EncodeBlock(b, Len(so.bits), final)
               e == Extend(so, b, final)
               n == Len(so.extents)
           IN  /\ e \in Encoded /\ c \in Seq(Bit) /\ e.bits = so.bits \o c /\ n \in Nat
               /\ Len(so.bits) \in Nat /\ Len(c) \in Nat /\ Len(e.bits) = Len(so.bits) + Len(c)
               /\ Len(e.extents) = n + 1 /\ \A i \in 1..n : e.extents[i] = so.extents[i]
               /\ e.extents[n + 1] = [start |-> Len(so.bits), end |-> Len(e.bits), literals |-> LiteralBytes(b)]
PROOF
<1> DEFINE a == so.bits
           c == EncodeBlock(b, Len(a), final)
           z == a \o c
           x == [start |-> Len(a), end |-> Len(z), literals |-> LiteralBytes(b)]
           q == so.extents
           n == Len(q)
           e == Extend(so, b, final)
<1>1. a \in Seq(Bit) /\ q \in Seq(BlockType) /\ n \in Nat /\ Len(a) \in Nat
  BY DEF Encoded
<1>2. c \in Seq(Bit) /\ Len(c) \in Nat
  BY <1>1, BlockBits
<1>3. e.bits = z /\ e.extents = Append(q, x) /\ e = [bits |-> z, extents |-> Append(q, x)]
  BY DEF Extend
<1>4. LiteralBytes(b) \in Seq(Nat)
  BY LiteralsType
<1> HIDE DEF a, c, q, e
<1>5. z \in Seq(Bit) /\ Len(z) = Len(a) + Len(c)
  <2>1. z \in Seq(Bit) /\ IsJoin(z, a, c)
    BY <1>1, <1>2, Joined
  <2>2. QED
    BY <2>1 DEF IsJoin
<1> HIDE DEF z
<1>6. x \in BlockType
  BY <1>1, <1>2, <1>4, <1>5 DEF BlockType
<1> HIDE DEF x
<1> DEFINE r == Append(q, x)
<1>7. r \in Seq(BlockType) /\ Len(r) = n + 1 /\ r[n + 1] = x /\ \A i \in 1..n : r[i] = q[i]
  BY <1>1, <1>6, Appended
<1> HIDE DEF r
<1>8. e \in Encoded
  BY <1>3, <1>5, <1>7 DEF Encoded, r
<1>9. e.extents = r /\ e.bits = z
  BY <1>3 DEF r
<1>10. x = [start |-> Len(a), end |-> Len(z), literals |-> LiteralBytes(b)]
  BY DEF x
<1>11. z = a \o c
  BY DEF z
<1>12. /\ e \in Encoded /\ c \in Seq(Bit) /\ e.bits = a \o c /\ n \in Nat
       /\ Len(a) \in Nat /\ Len(c) \in Nat /\ Len(e.bits) = Len(a) + Len(c)
       /\ Len(e.extents) = n + 1 /\ \A i \in 1..n : e.extents[i] = q[i]
       /\ e.extents[n + 1] = [start |-> Len(a), end |-> Len(e.bits), literals |-> LiteralBytes(b)]
  BY <1>1, <1>2, <1>5, <1>7, <1>8, <1>9, <1>10, <1>11
<1>13. QED
  BY <1>12 DEF a, c, q, e

\* The encoding block by block.
LEMMA UpToBlockIs ==
    ASSUME NEW bs, AreBlocks(bs)
    PROVE  /\ EncodeBlocks(bs) = UpToBlock(bs)[Len(bs)]
           /\ UpToBlock(bs)[0] = [bits |-> <<>>, extents |-> <<>>]
           /\ \A n \in 0..Len(bs) : UpToBlock(bs)[n] \in Encoded
           /\ \A n \in 1..Len(bs) : UpToBlock(bs)[n] = Extend(UpToBlock(bs)[n - 1], bs[n], n = Len(bs))
PROOF
<1> DEFINE m == Len(bs)
           none == [bits |-> <<>>, extents |-> <<>>]
           more(v, n) == Extend(v, bs[n], n = m)
           body(h, n) == IF n = 0 THEN none ELSE more(h[n - 1], n)
           IsUpTo(h) == h = [n \in 0..m |-> body(h, n)]
           g == [n \in 1..m |-> [v \in Encoded |-> more(v, n)]]
<1>1. m \in Nat /\ \A n \in 1..m : IsBlock(bs[n])
  BY DEF AreBlocks
<1> HIDE DEF m
<1>2. \A v \in Encoded, n \in 1..m : more(v, n) \in Encoded
  <2>1. ASSUME NEW v \in Encoded, NEW n \in 1..m PROVE more(v, n) \in Encoded
    <3>1. (n = m) \in BOOLEAN /\ IsBlock(bs[n])
      BY <1>1
    <3>2. QED
      BY <3>1, ExtendIs
  <2>2. QED
    BY <2>1
<1>3. none \in Encoded
  BY DEF Encoded
<1> DEFINE u == UpToBlock(bs)
<1>4. u = CHOOSE h : IsUpTo(h)
  BY Zenon DEF UpToBlock, m, Extend
<1>5. EncodeBlocks(bs) = u[m]
  BY Zenon DEF EncodeBlocks, UpToBlock, m
<1> HIDE DEF more, none, u
<1>6. g \in [1..m -> [Encoded -> Encoded]]
  BY <1>2
<1>7. PICK f : Iterates(f, Encoded, none, m, g)
  <2> HIDE DEF g
  <2>1. QED
    BY <1>1, <1>3, <1>6, Recursive
<1>8. f \in [0..m -> Encoded] /\ f[0] = none /\ \A n \in 1..m : f[n] = g[n][f[n - 1]]
  BY <1>7, Zenon DEF Iterates
<1>9. \A n \in 1..m, v \in Encoded : g[n][v] = more(v, n)
  OBVIOUS
<1> HIDE DEF g
<1>10. ASSUME NEW n \in 0..m PROVE f[n] = body(f, n)
  <2>1. CASE n = 0
    BY <1>8, <2>1
  <2>2. CASE n # 0
    <3>1. n \in 1..m /\ n - 1 \in 0..m
      BY <1>1, <2>2
    <3>2. f[n - 1] \in Encoded
      BY <1>8, <3>1
    <3>3. QED
      BY <1>8, <1>9, <2>2, <3>1, <3>2
  <2>3. QED
    BY <2>1, <2>2
<1>11. IsUpTo(f)
  <2>1. f = [n \in 0..m |-> f[n]]
    BY <1>8
  <2> HIDE DEF body
  <2>2. QED
    BY <1>10, <2>1
<1>12. IsUpTo(u)
  <2> HIDE DEF IsUpTo
  <2>1. QED
    BY <1>4, <1>11
<1>13. \A n \in 0..m : u[n] = body(u, n)
  <2> HIDE DEF body
  <2>1. QED
    BY <1>12, Zenon
<1>14. u[0] = none /\ \A n \in 1..m : u[n] = more(u[n - 1], n)
  BY <1>1, <1>13
<1> DEFINE P == {n \in 0..m : u[n] \in Encoded}
<1>15. 0 \in P
  BY <1>1, <1>3, <1>14
<1>16. ASSUME NEW n \in 0..(m - 1), n \in P PROVE n + 1 \in P
  <2>1. n + 1 \in 1..m /\ n + 1 \in 0..m /\ (n + 1) - 1 = n
    BY <1>1
  <2>2. u[n + 1] = more(u[n], n + 1) /\ u[n] \in Encoded
    BY <1>14, <1>16, <2>1
  <2>3. QED
    BY <1>2, <2>1, <2>2
<1> HIDE DEF P
<1>17. \A n \in 0..m : n \in P
  BY <1>1, <1>15, <1>16, UpTo
<1>18. QED
  BY <1>5, <1>14, <1>17 DEF P, u, m, none, more

\* What holds a string of bits holds it with more bits behind it.
LEMMA HoldsMore ==
    ASSUME NEW a \in Seq(Bit), NEW c \in Seq(Bit), NEW p \in Nat, NEW q \in Seq(Bit), Holds(a, p, q)
    PROVE  Holds(a \o c, p, q)
PROOF
<1> DEFINE z == a \o c
<1>1. IsJoin(z, a, c) /\ Len(a) \in Nat /\ Len(c) \in Nat /\ Len(q) \in Nat
  <2>1. z \in Seq(Bit) /\ IsJoin(z, a, c)
    BY Joined
  <2>2. QED
    BY <2>1
<1> HIDE DEF z
<1>2. Len(z) = Len(a) + Len(c) /\ \A j \in 1..Len(a) : z[j] = a[j]
  BY <1>1 DEF IsJoin
<1>3. p + Len(q) <= Len(a) /\ \A j \in 1..Len(q) : a[p + j] = q[j]
  BY DEF Holds
<1>4. ASSUME NEW j \in 1..Len(q) PROVE z[p + j] = q[j]
  <2>1. p + j \in 1..Len(a)
    BY <1>1, <1>3
  <2>2. QED
    BY <1>2, <1>3, <2>1
<1>5. Holds(z, p, q)
  BY <1>1, <1>2, <1>3, <1>4 DEF Holds
<1>6. QED
  BY <1>5 DEF z

\* The i-th block of bs lies in v where its extent says, behind the one before.
InPlace(v, bs, i) ==
    LET e == v.extents[i]
        c == EncodeBlock(bs[i], e.start, i = Len(bs))
    IN  /\ IsBlock(bs[i]) /\ e.start \in Nat /\ e.end \in Nat
        /\ e.start = (IF i = 1 THEN 0 ELSE v.extents[i - 1].end)
        /\ e.end = e.start + Len(c) /\ e.literals = LiteralBytes(bs[i])
        /\ Holds(v.bits, e.start, c)

\* So do the first n of them.
Placed(v, bs, n) ==
    /\ v.bits \in Seq(Bit) /\ v.extents \in Seq(BlockType)
    /\ Len(v.extents) = n /\ Len(v.bits) = IF n = 0 THEN 0 ELSE v.extents[n].end
    /\ \A i \in 1..n : InPlace(v, bs, i)

\* One block more.
LEMMA PlacedMore ==
    ASSUME NEW v \in Encoded, NEW bs, AreBlocks(bs), NEW n \in Nat, n < Len(bs), Placed(v, bs, n)
    PROVE  Placed(Extend(v, bs[n + 1], n + 1 = Len(bs)), bs, n + 1)
PROOF
<1> DEFINE b == bs[n + 1]
           final == n + 1 = Len(bs)
           e == Extend(v, b, final)
           a == v.bits
           c == EncodeBlock(b, Len(a), final)
<1>1. IsBlock(b) /\ final \in BOOLEAN /\ Len(bs) \in Nat
  BY DEF AreBlocks
<1>2. /\ e \in Encoded /\ c \in Seq(Bit) /\ e.bits = a \o c /\ Len(v.extents) \in Nat
      /\ Len(a) \in Nat /\ Len(c) \in Nat /\ Len(e.bits) = Len(a) + Len(c)
      /\ Len(e.extents) = Len(v.extents) + 1 /\ \A i \in 1..Len(v.extents) : e.extents[i] = v.extents[i]
      /\ e.extents[Len(v.extents) + 1] = [start |-> Len(a), end |-> Len(e.bits), literals |-> LiteralBytes(b)]
  <2> HIDE DEF b, final
  <2>1. QED
    BY <1>1, ExtendIs
<1>3. /\ Len(v.extents) = n /\ Len(a) = (IF n = 0 THEN 0 ELSE v.extents[n].end) /\ a \in Seq(Bit)
      /\ \A i \in 1..n : InPlace(v, bs, i)
  BY DEF Placed
<1> HIDE DEF e, a, b, final
<1> DEFINE x == e.extents[n + 1]
<1>4. x.start = Len(a) /\ x.end = Len(e.bits) /\ x.literals = LiteralBytes(b)
  BY <1>2, <1>3
<1>5. InPlace(e, bs, n + 1)
  <2>1. Holds(e.bits, Len(a), c)
    <3>1. IsJoin(a \o c, a, c)
      BY <1>2, <1>3, Joined
    <3> HIDE DEF c
    <3>2. QED
      BY <1>2, <3>1 DEF IsJoin, Holds
  <2>2. x.start = IF n + 1 = 1 THEN 0 ELSE e.extents[(n + 1) - 1].end
    <3>1. CASE n = 0
      BY <1>3, <1>4, <3>1
    <3>2. CASE n # 0
      <4>1. n \in 1..n /\ (n + 1) - 1 = n /\ n + 1 # 1
        BY <3>2
      <4>2. e.extents[n] = v.extents[n]
        BY <1>2, <1>3, <4>1
      <4>3. QED
        BY <1>3, <1>4, <3>2, <4>1, <4>2
    <3>3. QED
      BY <3>1, <3>2
  <2>3. c = EncodeBlock(bs[n + 1], x.start, n + 1 = Len(bs))
    BY <1>4 DEF c, b, final
  <2> HIDE DEF c, x
  <2>4. x.end = x.start + Len(c) /\ x.start \in Nat /\ x.end \in Nat /\ IsBlock(bs[n + 1])
    BY <1>1, <1>2, <1>4 DEF b
  <2>5. QED
    BY <1>4, <2>1, <2>2, <2>3, <2>4 DEF InPlace, x, b
<1> HIDE DEF c
<1>6. ASSUME NEW i \in 1..n PROVE InPlace(e, bs, i)
  <2> DEFINE y == v.extents[i]
             w == EncodeBlock(bs[i], y.start, i = Len(bs))
  <2>1. InPlace(v, bs, i)
    BY <1>3
  <2>2. e.extents[i] = y
    BY <1>2, <1>3
  <2>3. IF i = 1 THEN TRUE ELSE e.extents[i - 1].end = v.extents[i - 1].end
    <3>1. CASE i # 1
      <4>1. i - 1 \in 1..n
        BY <3>1
      <4>2. e.extents[i - 1] = v.extents[i - 1]
        BY <1>2, <1>3, <4>1
      <4>3. QED
        BY <3>1, <4>2
    <3>2. QED
      BY <3>1
  <2>4. /\ IsBlock(bs[i]) /\ y.start \in Nat /\ y.end \in Nat
        /\ y.start = (IF i = 1 THEN 0 ELSE v.extents[i - 1].end)
        /\ y.end = y.start + Len(w) /\ y.literals = LiteralBytes(bs[i])
        /\ Holds(a, y.start, w)
    BY <2>1 DEF InPlace, a
  <2>5. w \in Seq(Bit)
    <3>1. (i = Len(bs)) \in BOOLEAN
      OBVIOUS
    <3>2. QED
      BY <2>4, <3>1, BlockBits
  <2>6. Holds(e.bits, y.start, w)
    <3> HIDE DEF w, y
    <3>1. Holds(a \o c, y.start, w)
      BY <1>2, <1>3, <2>4, <2>5, HoldsMore
    <3>2. QED
      BY <1>2, <3>1
  <2> HIDE DEF y
  <2>7. QED
    BY <2>2, <2>3, <2>4, <2>6 DEF InPlace
<1>7. \A i \in 1..(n + 1) : InPlace(e, bs, i)
  <2>1. ASSUME NEW i \in 1..(n + 1) PROVE InPlace(e, bs, i)
    <3>1. i \in 1..n \/ i = n + 1
      OBVIOUS
    <3>2. QED
      BY <1>5, <1>6, <3>1
  <2>2. QED
    BY <2>1
<1>8. e.bits \in Seq(Bit) /\ e.extents \in Seq(BlockType)
  BY <1>2 DEF Encoded
<1>9. Placed(e, bs, n + 1)
  BY <1>2, <1>3, <1>4, <1>7, <1>8 DEF Placed
<1>10. QED
  BY <1>9 DEF e, b, final

\* All of them.
LEMMA EncodedPlaced ==
    ASSUME NEW bs, AreBlocks(bs) PROVE Placed(EncodeBlocks(bs), bs, Len(bs))
PROOF
<1> DEFINE u == UpToBlock(bs)
           m == Len(bs)
           P == {n \in 0..m : Placed(u[n], bs, n)}
<1>1. /\ EncodeBlocks(bs) = u[m] /\ u[0] = [bits |-> <<>>, extents |-> <<>>]
      /\ \A n \in 0..m : u[n] \in Encoded
      /\ \A n \in 1..m : u[n] = Extend(u[n - 1], bs[n], n = m)
  BY UpToBlockIs
<1>2. m \in Nat
  BY DEF AreBlocks
<1> HIDE DEF u
<1>3. 0 \in P
  <2>1. Placed(u[0], bs, 0)
    BY <1>1 DEF Placed
  <2>2. QED
    BY <1>2, <2>1
<1>4. ASSUME NEW n \in 0..(m - 1), n \in P PROVE n + 1 \in P
  <2>1. n + 1 \in 1..m /\ n + 1 \in 0..m /\ (n + 1) - 1 = n /\ n \in 0..m /\ n \in Nat /\ n < m
    BY <1>2
  <2>2. u[n + 1] = Extend(u[n], bs[n + 1], n + 1 = m) /\ u[n] \in Encoded /\ Placed(u[n], bs, n)
    BY <1>1, <1>4, <2>1
  <2>3. Placed(u[n + 1], bs, n + 1)
    BY <2>1, <2>2, PlacedMore
  <2>4. QED
    BY <2>1, <2>3
<1> HIDE DEF P
<1>5. \A n \in 0..m : n \in P
  BY <1>2, <1>3, <1>4, UpTo
<1>6. m \in P
  BY <1>2, <1>5
<1>7. QED
  BY <1>1, <1>6 DEF P

\* The halves are numbers of sixteen bits.
LEMMA Halves ==
    ASSUME NEW v, AreHalves(v)
    PROVE  /\ v = <<v[1], v[2]>> /\ v[1] \in Nat /\ v[1] < 2^16 /\ v[2] \in Nat /\ v[2] < 2^16
PROOF
<1> DEFINE w == 2^16
           T == 0..(w - 1)
<1>0. w \in Nat
  OBVIOUS
<1>1. v \in T \X T /\ w \in Nat
  BY <1>0, Zenon DEF AreHalves
<1> HIDE DEF w
<1>2. v = <<v[1], v[2]>> /\ v[1] \in T /\ v[2] \in T
  <2> HIDE DEF T
  <2>1. QED
    BY <1>1
<1>3. \A x \in T : x \in Nat /\ x < w
  BY <1>1
<1>4. QED
  BY <1>2, <1>3, Zenon DEF w

\* Where a member's blocks end.
BlocksEnd(s) == s.extents[Len(s.blocks)].end

\* Where its trailer begins, behind the padding.
TrailerStart(s) == BlocksEnd(s) + Pad(BlocksEnd(s))

\* Its blocks are where its extents say.
Laid(s) ==
    /\ s.bits \in Seq(Bit) /\ s.extents \in Seq(BlockType) /\ Len(s.extents) = Len(s.blocks)
    /\ \A i \in 1..Len(s.blocks) : InPlace(s, s.blocks, i)

\* A member is its blocks, the padding and the four halves of the trailer.
LEMMA MemberIs ==
    ASSUME NEW s, IsMember(s)
    PROVE  /\ Len(s.blocks) \in Nat /\ Len(s.blocks) >= 1 /\ Laid(s)
           /\ BlocksEnd(s) \in Nat /\ Len(s.bits) = TrailerStart(s) + 64 /\ Len(s.bits) % 8 = 0
           /\ Holds(s.bits, TrailerStart(s), LowFirst(s.crc[1], 16))
           /\ Holds(s.bits, TrailerStart(s) + 16, LowFirst(s.crc[2], 16))
           /\ Holds(s.bits, TrailerStart(s) + 32, LowFirst(s.isize[1], 16))
           /\ Holds(s.bits, TrailerStart(s) + 48, LowFirst(s.isize[2], 16))
PROOF
<1> DEFINE bs == s.blocks
           v == EncodeBlocks(bs)
           n == Len(bs)
           a == v.bits
           z == Len(a)
           w == 16
           pad == [k \in 1..((8 - (z % 8)) % 8) |-> 0]
           c1 == LowFirst(s.crc[1], w)
           c2 == LowFirst(s.crc[2], w)
           i1 == LowFirst(s.isize[1], w)
           i2 == LowFirst(s.isize[2], w)
           t3 == a \o pad
           t4 == t3 \o c1
           t5 == t4 \o c2
           t6 == t5 \o i1
           t7 == t6 \o i2
<1>1. n \in Nat /\ n >= 1
  BY DEF IsMember, AreBlocks
<1>2. Placed(v, bs, n)
  BY EncodedPlaced DEF IsMember
<1>3. s.bits = t7 /\ s.extents = v.extents
  <2>1. s = Member(bs, s.crc, s.isize)
    BY DEF IsMember
  <2>2. Member(bs, s.crc, s.isize).extents = v.extents
    BY DEF Member
  <2>3. Member(bs, s.crc, s.isize).bits = t7
    BY DEF Member
  <2>4. QED
    BY <2>1, <2>2, <2>3, Zenon
<1>4. a \in Seq(Bit) /\ z \in Nat /\ z = v.extents[n].end
  BY <1>1, <1>2 DEF Placed
<1>5. z = BlocksEnd(s)
  BY <1>3, <1>4, Zenon DEF BlocksEnd
<1>6. pad \in Seq(Bit) /\ Len(pad) = Pad(z) /\ Pad(z) \in Nat /\ (z + Pad(z)) % 8 = 0
  <2>1. Pad(z) \in 0..7 /\ (z + Pad(z)) % 8 = 0 /\ (8 - (z % 8)) % 8 = Pad(z)
    BY <1>4, PadIs DEF Pad
  <2> DEFINE p == Pad(z)
             q == [k \in 1..p |-> 0]
  <2>2. pad = q
    BY <2>1
  <2> HIDE DEF pad
  <2>3. p \in Nat
    BY <2>1
  <2> HIDE DEF p
  <2>4. q \in Seq(Bit) /\ Len(q) = p
    BY <2>3 DEF Bit
  <2>5. QED
    BY <2>1, <2>2, <2>3, <2>4 DEF p
<1>7. w \in Nat /\ w = 16
  OBVIOUS
<1> HIDE DEF a, v, pad, w
<1>8. /\ c1 \in Seq(Bit) /\ Len(c1) = w /\ c2 \in Seq(Bit) /\ Len(c2) = w
      /\ i1 \in Seq(Bit) /\ Len(i1) = w /\ i2 \in Seq(Bit) /\ Len(i2) = w
  <2>1. s.crc[1] \in Nat /\ s.crc[2] \in Nat /\ s.isize[1] \in Nat /\ s.isize[2] \in Nat
    BY Halves DEF IsMember
  <2>2. QED
    BY <1>7, <2>1, LowFirstType
<1> HIDE DEF c1, c2, i1, i2
<1>9. t3 \in Seq(Bit) /\ IsJoin(t3, a, pad)
  BY <1>4, <1>6, Joined
<1> HIDE DEF t3
<1>10. t4 \in Seq(Bit) /\ IsJoin(t4, t3, c1)
  BY <1>8, <1>9, Joined
<1> HIDE DEF t4
<1>11. t5 \in Seq(Bit) /\ IsJoin(t5, t4, c2)
  BY <1>8, <1>10, Joined
<1> HIDE DEF t5
<1>12. t6 \in Seq(Bit) /\ IsJoin(t6, t5, i1)
  BY <1>8, <1>11, Joined
<1> HIDE DEF t6
<1>13. t7 \in Seq(Bit) /\ IsJoin(t7, t6, i2)
  BY <1>8, <1>12, Joined
<1>14. /\ Len(t3) = z + Pad(z) /\ Len(t4) = z + Pad(z) + 16 /\ Len(t5) = z + Pad(z) + 32
       /\ Len(t6) = z + Pad(z) + 48 /\ Len(t7) = z + Pad(z) + 64
       /\ Len(t3) \in Nat /\ Len(t4) \in Nat /\ Len(t5) \in Nat /\ Len(t6) \in Nat /\ Len(t7) \in Nat
  <2>1. Len(t3) = z + Pad(z) /\ Len(t3) \in Nat
    BY <1>4, <1>6, <1>9 DEF IsJoin
  <2>2. Len(t4) = Len(t3) + 16 /\ Len(t4) \in Nat
    BY <2>1, <1>7, <1>8, <1>10 DEF IsJoin
  <2>3. Len(t5) = Len(t4) + 16 /\ Len(t5) \in Nat
    BY <2>2, <1>7, <1>8, <1>11 DEF IsJoin
  <2>4. Len(t6) = Len(t5) + 16 /\ Len(t6) \in Nat
    BY <2>3, <1>7, <1>8, <1>12 DEF IsJoin
  <2> DEFINE len == Len(t7)
  <2>5. len = Len(t6) + 16 /\ len \in Nat
    BY <2>4, <1>7, <1>8, <1>13 DEF IsJoin
  <2> HIDE DEF len
  <2> DEFINE y == Pad(z)
             k3 == Len(t3)
             k4 == Len(t4)
             k5 == Len(t5)
             k6 == Len(t6)
  <2>6. k3 = z + y /\ k4 = k3 + 16 /\ k5 = k4 + 16 /\ k6 = k5 + 16 /\ len = k6 + 16 /\ z \in Nat /\ y \in Nat
    BY <1>4, <1>6, <2>1, <2>2, <2>3, <2>4, <2>5
  <2> HIDE DEF y, k3, k4, k5, k6
  <2>7. k4 = z + y + 16 /\ k5 = z + y + 32 /\ k6 = z + y + 48 /\ len = z + y + 64
    BY <2>6
  <2>8. QED
    BY <2>1, <2>2, <2>3, <2>4, <2>5, <2>6, <2>7 DEF len, y, k3, k4, k5, k6
<1>15. ASSUME NEW p \in Nat, NEW q \in Seq(Bit), Holds(t6, p, q) PROVE Holds(t7, p, q)
  BY <1>8, <1>12, <1>15, HoldsMore
<1>16. ASSUME NEW p \in Nat, NEW q \in Seq(Bit), Holds(t5, p, q) PROVE Holds(t7, p, q)
  <2>1. Holds(t6, p, q)
    BY <1>8, <1>11, <1>16, HoldsMore DEF t6
  <2> HIDE DEF t7
  <2>2. QED
    BY <1>15, <2>1
<1>17. ASSUME NEW p \in Nat, NEW q \in Seq(Bit), Holds(t4, p, q) PROVE Holds(t7, p, q)
  <2>1. Holds(t5, p, q)
    BY <1>8, <1>10, <1>17, HoldsMore DEF t5
  <2> HIDE DEF t7
  <2>2. QED
    BY <1>16, <2>1
<1>18. ASSUME NEW p \in Nat, NEW q \in Seq(Bit), Holds(a, p, q) PROVE Holds(t7, p, q)
  <2>1. Holds(t3, p, q)
    BY <1>4, <1>6, <1>18, HoldsMore DEF t3
  <2>2. Holds(t4, p, q)
    BY <1>8, <1>9, <2>1, HoldsMore DEF t4
  <2> HIDE DEF t7
  <2>3. QED
    BY <1>17, <2>2
<1> HIDE DEF t7
<1>19. Holds(t7, z + Pad(z), c1)
  <2>1. Holds(t4, Len(t3), c1)
    BY <1>10, <1>14 DEF IsJoin, Holds
  <2>2. QED
    BY <1>8, <1>14, <1>17, <2>1
<1>20. Holds(t7, z + Pad(z) + 16, c2)
  <2>1. Holds(t5, Len(t4), c2)
    BY <1>11, <1>14 DEF IsJoin, Holds
  <2>2. QED
    BY <1>8, <1>14, <1>16, <2>1
<1>21. Holds(t7, z + Pad(z) + 32, i1)
  <2>1. Holds(t6, Len(t5), i1)
    BY <1>12, <1>14 DEF IsJoin, Holds
  <2>2. QED
    BY <1>8, <1>14, <1>15, <2>1
<1>22. Holds(t7, z + Pad(z) + 48, i2)
  <2>1. Holds(t7, Len(t6), i2)
    BY <1>13, <1>14 DEF IsJoin, Holds
  <2>2. QED
    BY <1>14, <2>1
<1>23. Laid(s)
  <2>1. ASSUME NEW i \in 1..n PROVE InPlace(s, bs, i)
    <3> DEFINE e == v.extents[i]
               c == EncodeBlock(bs[i], e.start, i = Len(bs))
    <3>1. InPlace(v, bs, i)
      BY <1>2 DEF Placed
    <3>2. IsBlock(bs[i]) /\ e.start \in Nat /\ (i = Len(bs)) \in BOOLEAN /\ Holds(a, e.start, c)
      BY <3>1 DEF InPlace, a
    <3>3. c \in Seq(Bit)
      BY <3>2, BlockBits
    <3>4. Holds(s.bits, e.start, c)
      <4> HIDE DEF e, c
      <4>1. QED
        BY <1>3, <1>18, <3>2, <3>3
    <3>5. s.extents[i] = e /\ s.extents[i - 1] = v.extents[i - 1]
      BY <1>3
    <3>6. QED
      BY <3>1, <3>4, <3>5 DEF InPlace
  <2>2. s.bits \in Seq(Bit)
    BY <1>3, <1>13
  <2>3. QED
    BY <1>1, <1>2, <1>3, <2>1, <2>2 DEF Placed, Laid
<1>24. Len(t7) % 8 = 0
  <2> DEFINE k == z + Pad(z)
             len == Len(t7)
  <2>1. k \in Nat /\ k % 8 = 0
    BY <1>4, <1>6
  <2>2. len = k + 64
    BY <1>14
  <2> HIDE DEF k, len
  <2>3. len % 8 = 0
    BY <2>1, <2>2
  <2>4. QED
    BY <2>3 DEF len
<1>25. QED
  BY <1>1, <1>3, <1>4, <1>5, <1>14, <1>19, <1>20, <1>21, <1>22, <1>23, <1>24, <1>7
     DEF TrailerStart, c1, c2, i1, i2, w

\* A cut member begins the member.
LEMMA CutBegins ==
    ASSUME NEW bits \in Seq(Bit), NEW n \in 0..(Len(bits) \div 8)
    PROVE  Begins(SubSeq(bits, 1, 8 * n), bits) /\ Len(SubSeq(bits, 1, 8 * n)) % 8 = 0
PROOF
<1> DEFINE len == Len(bits)
           bytes == len \div 8
           last == 8 * n
<1>1. len \in Nat /\ bytes \in Nat /\ 8 * bytes <= len
  <2>1. len \in Nat
    OBVIOUS
  <2>2. bytes \in Nat /\ len % 8 \in 0..7 /\ len = 8 * bytes + (len % 8)
    BY <2>1, Bytes
  <2>3. QED
    BY <2>1, <2>2
<1>2. n \in Nat /\ n <= bytes
  <2>1. n \in 0..bytes
    OBVIOUS
  <2> HIDE DEF bytes
  <2>2. QED
    BY <1>1, <2>1
<1> HIDE DEF len, bytes
<1>3. last \in Nat /\ last <= len
  BY <1>1, <1>2
<1>4. last % 8 = 0
  BY <1>2
<1> HIDE DEF last
<1>5. \A i \in 1..last : bits[i] \in Bit
  BY <1>1, <1>3 DEF len
<1> DEFINE d == SubSeq(bits, 1, last)
<1>6. d \in Seq(Bit) /\ Len(d) = last /\ \A i \in 1..last : d[i] = bits[i]
  BY <1>1, <1>3, <1>5, SubSeqProperties DEF len
<1>7. Begins(d, bits)
  BY <1>1, <1>3, <1>6 DEF Begins, len
<1>8. QED
  BY <1>4, <1>6, <1>7 DEF last

-----------------------------------------------------------------------------
(* The inductive invariant.  Inside a block its place among the blocks is  *)
(* still free, which is what a block that ends takes.                      *)

BlockInProgress == [start : Nat, final : BOOLEAN, literals : Seq(Nat)]

InBlock ==
    /\ phase \in {"stored", "sizes", "codelens", "lengths", "symbols"} => Len(blocks) < MaxBlocks
    /\ phase = "stored" => block.literals = <<>>

IInv == TypeOK /\ ReaderAgrees /\ LimitsHeld /\ InBlock

Moves == Position(reader') > Position(reader)

\* The reader of a state of the invariant.
LEMMA InvReads == ASSUME IInv PROVE Reads /\ Wanted \in Nat
PROOF
<1>1. data \in Seq(Bit) /\ ReaderOK(data, reader)
  BY DEF IInv, TypeOK, ReaderAgrees, ByteStrings
<1>2. sizes.hlit \in Nat /\ sizes.hdist \in Nat
  BY DEF IInv, TypeOK
<1>3. QED
  BY <1>1, <1>2 DEF Reads, Wanted

\* It holds in the beginning.
LEMMA InitInv == Init => IInv
PROOF
<1> SUFFICES ASSUME Init PROVE IInv
  OBVIOUS
<1>1. data \in ByteStrings
  <2>1. CASE source = {} /\ data \in Arbitrary
    BY <2>1, DecoderConstants
  <2>2. CASE \E s \in Sources : \E n \in 0..(Len(s.bits) \div 8) : data = SubSeq(s.bits, 1, 8 * n)
    <3>1. PICK s \in Sources : \E n \in 0..(Len(s.bits) \div 8) : data = SubSeq(s.bits, 1, 8 * n)
      BY <2>2
    <3>2. PICK n \in 0..(Len(s.bits) \div 8) : data = SubSeq(s.bits, 1, 8 * n)
      BY <3>1
    <3>3. s.bits \in Seq(Bit)
      <4>1. IsMember(s)
        BY DecoderConstants
      <4>2. Laid(s)
        BY <4>1, MemberIs
      <4>3. QED
        BY <4>2 DEF Laid
    <3>4. Begins(data, s.bits) /\ Len(data) % 8 = 0
      BY <3>2, <3>3, CutBegins
    <3>5. QED
      BY <3>4 DEF ByteStrings, Begins
  <2>3. QED
    BY <2>1, <2>2 DEF Init
<1>2. ReaderAgrees
  <2>1. data \in Seq(Bit)
    BY <1>1 DEF ByteStrings
  <2>2. 0 \in Nat /\ 0 <= Len(data) \div 8
    BY <2>1, Bytes
  <2>3. QED
    BY <2>1, <2>2, NewReaderOK DEF Init, ReaderAgrees
<1>3. TypeOK
  <2>1. /\ status = "running" /\ phase = "block" /\ blocks = <<>> /\ total = 0 /\ had_matches = FALSE
        /\ block = [start |-> 0, final |-> FALSE, literals |-> <<>>]
        /\ sizes = [hlit |-> 0, hdist |-> 0, hclen |-> 0]
        /\ codelens = <<>> /\ lengths = <<>> /\ prev = 0 /\ instructions = 0
    BY DEF Init
  <2>2. prev \in 0..MaxCodeBits /\ instructions \in 0..MaxInstructions
    BY <2>1, Parameters
  <2>3. codelens \in Seq(Nat) /\ Len(codelens) <= sizes.hclen /\ lengths \in Seq(0..MaxCodeBits)
    BY <2>1
  <2>4. block \in [start : Nat, final : BOOLEAN, literals : Seq(Nat)]
    BY <2>1
  <2>5. sizes \in [hlit : Nat, hdist : Nat, hclen : Nat] /\ blocks \in Seq(BlockType) /\ total \in Nat
    BY <2>1
  <2>6. QED
    BY <1>1, <2>1, <2>2, <2>3, <2>4, <2>5 DEF TypeOK
<1>4. LimitsHeld
  BY Parameters DEF Init, LimitsHeld
<1>5. InBlock
  BY DEF Init, InBlock
<1>6. QED
  BY <1>2, <1>3, <1>4, <1>5 DEF IInv

\* What a pass inside a block leaves alone.
LEMMA SameBlocks ==
    ASSUME IInv, UNCHANGED <<blocks, total>>, block' \in BlockInProgress,
           Len(block'.literals) <= MaxBlockLiterals
    PROVE  LimitsHeld'
PROOF
  BY DEF IInv, LimitsHeld

\* A block begins.
LEMMA BlockHeaderStep == ASSUME IInv, BlockHeader PROVE IInv' /\ Moves
PROOF
<1>1. PICK h \in Header :
        /\ h.type \in {0, 1, 2} /\ reader' = h.reader
        /\ block' = [start |-> Position(reader), final |-> h.final, literals |-> <<>>]
        /\ phase' = CASE h.type = 0 -> "stored" [] h.type = 1 -> "symbols" [] h.type = 2 -> "sizes"
  BY DEF BlockHeader
<1>2. /\ Further(h.reader) /\ h.final \in BOOLEAN /\ ~(Len(blocks) >= MaxBlocks)
      /\ Position(reader) \in Nat
  BY InvReads, HeaderReads, ReaderNumbers DEF Reads
<1>3. /\ status' = status /\ data' = data /\ instructions' = 0
      /\ UNCHANGED <<blocks, total, had_matches, sizes, codelens, lengths, prev>>
  BY DEF BlockHeader
<1>4. block' \in BlockInProgress /\ block'.literals = <<>> /\ Len(block'.literals) <= MaxBlockLiterals
  BY <1>1, <1>2, Parameters DEF BlockInProgress
<1>5. phase' \in {"stored", "symbols", "sizes"}
  BY <1>1
<1>6. TypeOK'
  <2>1. instructions' \in 0..MaxInstructions
    BY <1>3, Parameters
  <2>2. block' \in [start : Nat, final : BOOLEAN, literals : Seq(Nat)] /\ phase' # "lengths"
    BY <1>4, <1>5 DEF BlockInProgress
  <2>3. QED
    BY <1>3, <1>5, <2>1, <2>2 DEF IInv, TypeOK
<1>7. ReaderAgrees'
  BY <1>1, <1>2, <1>3 DEF Further, ReaderAgrees
<1>8. LimitsHeld'
  BY <1>3, <1>4, SameBlocks
<1>9. InBlock'
  <2>1. Len(blocks) < MaxBlocks
    BY <1>2, Parameters DEF IInv, TypeOK
  <2>2. QED
    BY <1>3, <1>4, <2>1 DEF InBlock
<1>10. Moves
  BY <1>1, <1>2 DEF Further, Moves
<1>11. QED
  BY <1>6, <1>7, <1>8, <1>9, <1>10 DEF IInv

\* A block that ends takes its place.
LEMMA EndBlockStep ==
    ASSUME IInv, phase \in {"stored", "symbols"}, NEW r, Further(r),
           NEW b \in BlockInProgress, Len(b.literals) <= MaxBlockLiterals, EndBlock(r, b),
           UNCHANGED <<data, status, had_matches, sizes, codelens, lengths, prev, instructions>>
    PROVE  IInv' /\ Moves
PROOF
<1> DEFINE extent == [start |-> b.start, end |-> Position(r), literals |-> b.literals]
<1>1. /\ total + Len(b.literals) <= MaxTotal /\ total' = total + Len(b.literals)
      /\ blocks' = Append(blocks, extent)
      /\ phase' \in {"trailer", "block"} /\ reader' = r /\ block' = b
  BY DEF EndBlock
<1>2. extent \in BlockType /\ extent.literals = b.literals
  <2>1. Position(r) \in Nat
    BY InvReads, ReaderNumbers DEF Reads, Further
  <2>2. QED
    BY <2>1 DEF BlockType, BlockInProgress
<1> HIDE DEF extent
<1>3. /\ blocks \in Seq(BlockType) /\ total \in Nat /\ Len(blocks) < MaxBlocks
      /\ \A i \in DOMAIN blocks : Len(blocks[i].literals) <= MaxBlockLiterals
  BY DEF IInv, TypeOK, LimitsHeld, InBlock
<1>4. /\ blocks' \in Seq(BlockType) /\ Len(blocks') = Len(blocks) + 1
      /\ \A i \in 1..Len(blocks) : blocks'[i] = blocks[i]
      /\ blocks'[Len(blocks) + 1] = extent
  BY <1>1, <1>2, <1>3, AppendProperties
<1>5. total' \in Nat
  BY <1>1, <1>3 DEF BlockInProgress
<1>6. TypeOK'
  BY <1>1, <1>4, <1>5 DEF IInv, TypeOK, BlockInProgress, Wanted
<1>7. ReaderAgrees'
  BY <1>1 DEF Further, ReaderAgrees
<1>8. LimitsHeld'
  <2>1. Len(blocks') <= MaxBlocks
    BY <1>3, <1>4, Parameters
  <2>2. ASSUME NEW i \in DOMAIN blocks' PROVE Len(blocks'[i].literals) <= MaxBlockLiterals
    <3>1. i \in 1..Len(blocks) \/ i = Len(blocks) + 1
      BY <1>3, <1>4
    <3>2. QED
      BY <1>2, <1>3, <1>4, <3>1
  <2>3. QED
    BY <1>1, <2>1, <2>2 DEF LimitsHeld
<1>9. InBlock'
  BY <1>1 DEF InBlock
<1>10. Moves
  BY <1>1 DEF Further, Moves
<1>11. QED
  BY <1>6, <1>7, <1>8, <1>9, <1>10 DEF IInv

\* A stored block is read.
LEMMA StoredBlockStep == ASSUME IInv, StoredBlock PROVE IInv' /\ Moves
PROOF
<1>1. PICK s \in Stored : EndBlock(s.reader, [block EXCEPT !.literals = s.bytes])
  BY DEF StoredBlock
<1> DEFINE b == [block EXCEPT !.literals = s.bytes]
<1>2. /\ phase = "stored" /\ block.literals = <<>> /\ block \in BlockInProgress
      /\ UNCHANGED <<data, status, had_matches, sizes, codelens, lengths, prev, instructions>>
  BY DEF StoredBlock, At, IInv, InBlock, TypeOK, BlockInProgress
<1>3. Further(s.reader) /\ s.bytes \in Seq(Nat) /\ Len(s.bytes) <= MaxBlockLiterals
  BY <1>2, InvReads, StoredReads
<1>4. b \in BlockInProgress /\ b.literals = s.bytes
  BY <1>2, <1>3 DEF BlockInProgress
<1> HIDE DEF b
<1>5. EndBlock(s.reader, b)
  BY <1>1 DEF b
<1>6. QED
  BY <1>2, <1>3, <1>4, <1>5, EndBlockStep

\* A block of symbols ends.
LEMMA EndOfSymbolsStep == ASSUME IInv, EndOfSymbols PROVE IInv' /\ Moves
PROOF
<1>1. PICK w \in LastSymbol : EndBlock(w.reader, block)
  BY DEF EndOfSymbols
<1>2. /\ phase = "symbols" /\ block \in BlockInProgress /\ Len(block.literals) <= MaxBlockLiterals
      /\ UNCHANGED <<data, status, had_matches, sizes, codelens, lengths, prev, instructions>>
  BY DEF EndOfSymbols, At, IInv, LimitsHeld, TypeOK, BlockInProgress
<1>3. Further(w.reader)
  BY InvReads, SymbolReads DEF LastSymbol
<1>4. QED
  BY <1>1, <1>2, <1>3, EndBlockStep

\* A pass that adds nothing to the block and stays inside of it.
LEMMA InsideStep ==
    ASSUME IInv, phase \in {"sizes", "codelens", "lengths", "symbols"},
           phase' \in {"sizes", "codelens", "lengths", "symbols"},
           UNCHANGED <<data, status, blocks, total, block>>, ReaderOK(data, reader'),
           had_matches' \in BOOLEAN, sizes' \in [hlit : Nat, hdist : Nat, hclen : Nat],
           codelens' \in Seq(Nat), Len(codelens') <= sizes'.hclen,
           lengths' \in Seq(0..MaxCodeBits), phase' = "lengths" => Len(lengths') <= Wanted',
           prev' \in 0..MaxCodeBits, instructions' \in 0..MaxInstructions
    PROVE  IInv'
PROOF
<1>1. TypeOK'
  BY DEF IInv, TypeOK
<1>2. ReaderAgrees'
  BY DEF ReaderAgrees
<1>3. LimitsHeld'
  BY DEF IInv, LimitsHeld
<1>4. InBlock'
  BY DEF IInv, InBlock
<1>5. QED
  BY <1>1, <1>2, <1>3, <1>4 DEF IInv

\* The sizes of a dynamic block are read.
LEMMA DynamicSizesStep == ASSUME IInv, DynamicSizes PROVE IInv' /\ Moves
PROOF
<1>1. PICK h \in Sizes : /\ reader' = h.reader
                         /\ sizes' = [hlit |-> h.hlit, hdist |-> h.hdist, hclen |-> h.hclen]
  BY DEF DynamicSizes
<1>2. Further(h.reader) /\ h.hlit \in Nat /\ h.hdist \in Nat /\ h.hclen \in Nat
  BY InvReads, SizesRead
<1>3. sizes' \in [hlit : Nat, hdist : Nat, hclen : Nat]
  BY <1>1, <1>2
<1>4. /\ phase = "sizes" /\ phase' = "codelens" /\ codelens' = <<>>
      /\ UNCHANGED <<data, status, blocks, total, had_matches, block, lengths, prev, instructions>>
  BY DEF DynamicSizes, At
<1>5. codelens' \in Seq(Nat) /\ Len(codelens') <= sizes'.hclen
  BY <1>3, <1>4
<1>6. ReaderOK(data, reader') /\ Moves
  BY <1>1, <1>2 DEF Further, Moves
<1>7. /\ had_matches \in BOOLEAN /\ lengths \in Seq(0..MaxCodeBits)
      /\ prev \in 0..MaxCodeBits /\ instructions \in 0..MaxInstructions
  BY DEF IInv, TypeOK
<1>8. QED
  BY <1>3, <1>4, <1>5, <1>6, <1>7, InsideStep

\* A length of its code-length code is read.
LEMMA ReadCodeLengthLengthStep == ASSUME IInv, ReadCodeLengthLength PROVE IInv' /\ Moves
PROOF
<1>1. PICK a \in ReadBits(data, reader, CodeLenBits) :
        reader' = a.reader /\ codelens' = Append(codelens, Number(a.bits))
  BY DEF ReadCodeLengthLength
<1>2. /\ phase = "codelens" /\ phase' = phase /\ Len(codelens) < sizes.hclen
      /\ UNCHANGED <<data, status, blocks, total, had_matches, block, sizes, lengths, prev, instructions>>
  BY DEF ReadCodeLengthLength, At
<1>3. /\ had_matches \in BOOLEAN /\ lengths \in Seq(0..MaxCodeBits)
      /\ prev \in 0..MaxCodeBits /\ instructions \in 0..MaxInstructions
      /\ sizes \in [hlit : Nat, hdist : Nat, hclen : Nat] /\ codelens \in Seq(Nat)
  BY DEF IInv, TypeOK
<1>4. /\ ReaderOK(data, a.reader) /\ Position(a.reader) = Position(reader) + CodeLenBits
      /\ a.bits \in Seq(Bit)
  BY <1>1, InvReads, ReadBitsOK, Parameters DEF Reads
<1>5. Position(reader) \in Nat
  BY InvReads, ReaderNumbers DEF Reads
<1>6. ReaderOK(data, reader') /\ Moves
  BY <1>1, <1>4, <1>5, Parameters DEF Moves
<1>7. Number(a.bits) \in Nat
  BY <1>4, NumberNat
<1>8. codelens' \in Seq(Nat) /\ Len(codelens') = Len(codelens) + 1
  BY <1>1, <1>3, <1>7, AppendProperties
<1>9. Len(codelens') <= sizes'.hclen
  BY <1>2, <1>3, <1>8
<1>10. QED
  BY <1>2, <1>3, <1>6, <1>8, <1>9, InsideStep

\* The two passes that read nothing: each ends a loop of the code lengths.
LEMMA CodeLengthTreeStep ==
    ASSUME IInv, CodeLengthTree PROVE IInv' /\ phase = "codelens" /\ phase' = "lengths"
PROOF
<1>1. /\ phase = "codelens" /\ phase' = "lengths" /\ lengths' = <<>> /\ prev' = 0 /\ instructions' = 0
      /\ UNCHANGED <<data, reader, status, blocks, total, had_matches, block, sizes, codelens>>
  BY DEF CodeLengthTree, At
<1>2. /\ had_matches \in BOOLEAN /\ sizes \in [hlit : Nat, hdist : Nat, hclen : Nat]
      /\ codelens \in Seq(Nat) /\ Len(codelens) <= sizes.hclen
  BY DEF IInv, TypeOK
<1>3. ReaderOK(data, reader') /\ Wanted' \in Nat
  BY <1>1, <1>2, InvReads DEF Reads, Wanted
<1>4. /\ lengths' \in Seq(0..MaxCodeBits) /\ Len(lengths') <= Wanted'
      /\ prev' \in 0..MaxCodeBits /\ instructions' \in 0..MaxInstructions
  BY <1>1, <1>3, Parameters
<1>5. QED
  BY <1>1, <1>2, <1>3, <1>4, InsideStep

\* Its codes are made.
LEMMA DynamicTreesStep ==
    ASSUME IInv, DynamicTrees PROVE IInv' /\ phase = "lengths" /\ phase' = "symbols"
PROOF
<1>1. /\ phase = "lengths" /\ phase' = "symbols" /\ instructions' = 0
      /\ UNCHANGED <<data, reader, status, blocks, total, had_matches, block, sizes, codelens, lengths, prev>>
  BY DEF DynamicTrees, At
<1>2. /\ had_matches \in BOOLEAN /\ sizes \in [hlit : Nat, hdist : Nat, hclen : Nat]
      /\ codelens \in Seq(Nat) /\ Len(codelens) <= sizes.hclen
      /\ lengths \in Seq(0..MaxCodeBits) /\ prev \in 0..MaxCodeBits
  BY DEF IInv, TypeOK
<1>3. ReaderOK(data, reader') /\ instructions' \in 0..MaxInstructions
  BY <1>1, InvReads, Parameters DEF Reads
<1>4. QED
  BY <1>1, <1>2, <1>3, InsideStep

\* A run of its code lengths is read.
LEMMA DecodeCodeLengthStep == ASSUME IInv, DecodeCodeLength PROVE IInv' /\ Moves
PROOF
<1>1. PICK c \in CodeLength : reader' = c.reader /\ lengths' = c.lengths /\ prev' = c.prev
  BY DEF DecodeCodeLength
<1>2. /\ phase = "lengths" /\ phase' = phase /\ Len(lengths) < Wanted /\ instructions' = instructions + 1
      /\ UNCHANGED <<data, status, blocks, total, had_matches, block, sizes, codelens>>
  BY DEF DecodeCodeLength, At
<1>3. /\ had_matches \in BOOLEAN /\ sizes \in [hlit : Nat, hdist : Nat, hclen : Nat]
      /\ codelens \in Seq(Nat) /\ Len(codelens) <= sizes.hclen
      /\ lengths \in Seq(0..MaxCodeBits) /\ prev \in 0..MaxCodeBits
      /\ instructions \in 0..MaxInstructions
  BY DEF IInv, TypeOK
<1>4. /\ Further(c.reader) /\ LengthsOK(c.lengths) /\ c.prev \in 0..MaxCodeBits
      /\ ~(instructions >= MaxInstructions)
  BY <1>2, <1>3, InvReads, CodeLengthReads
<1>5. ReaderOK(data, reader') /\ Moves
  BY <1>1, <1>4 DEF Further, Moves
<1>6. lengths' \in Seq(0..MaxCodeBits) /\ Len(lengths') <= Wanted'
  BY <1>1, <1>2, <1>4 DEF LengthsOK, Wanted
<1>7. instructions' \in 0..MaxInstructions
  BY <1>2, <1>3, <1>4, Parameters
<1>8. QED
  BY <1>1, <1>2, <1>3, <1>4, <1>5, <1>6, <1>7, InsideStep

\* A match is skipped.
LEMMA SkipMatchStep == ASSUME IInv, SkipMatch PROVE IInv' /\ Moves
PROOF
<1>1. PICK m \in SkippedMatch : reader' = m.reader
  BY DEF SkipMatch
<1>2. /\ phase = "symbols" /\ phase' = phase /\ instructions' = instructions + 1 /\ had_matches' = TRUE
      /\ UNCHANGED <<data, status, blocks, total, block, sizes, codelens, lengths, prev>>
  BY DEF SkipMatch, At
<1>3. /\ sizes \in [hlit : Nat, hdist : Nat, hclen : Nat]
      /\ codelens \in Seq(Nat) /\ Len(codelens) <= sizes.hclen
      /\ lengths \in Seq(0..MaxCodeBits) /\ prev \in 0..MaxCodeBits
      /\ instructions \in 0..MaxInstructions
  BY DEF IInv, TypeOK
<1>4. Further(m.reader) /\ ~(instructions >= MaxInstructions)
  BY InvReads, MatchReads
<1>5. ReaderOK(data, reader') /\ Moves
  BY <1>1, <1>4 DEF Further, Moves
<1>6. instructions' \in 0..MaxInstructions
  BY <1>2, <1>3, <1>4, Parameters
<1>7. QED
  BY <1>2, <1>3, <1>5, <1>6, InsideStep

\* A literal is kept.
LEMMA LiteralStep == ASSUME IInv, Literal PROVE IInv' /\ Moves
PROOF
<1>1. PICK w \in LiteralSymbol :
        reader' = w.reader /\ block' = [block EXCEPT !.literals = Append(block.literals, w.symbol)]
  BY DEF Literal
<1>2. /\ phase = "symbols" /\ phase' = phase /\ instructions' = instructions + 1
      /\ UNCHANGED <<data, status, blocks, total, had_matches, sizes, codelens, lengths, prev>>
  BY DEF Literal, At
<1>3. /\ w.symbol \in Nat /\ Len(block.literals) + 1 <= MaxBlockLiterals /\ w \in Symbol
  BY Parameters DEF LiteralSymbol, Fits
<1>4. Further(w.reader) /\ ~(instructions >= MaxInstructions)
  BY <1>3, InvReads, SymbolReads
<1>5. block \in BlockInProgress /\ instructions \in 0..MaxInstructions
  BY DEF IInv, TypeOK, BlockInProgress
<1>6. /\ Append(block.literals, w.symbol) \in Seq(Nat)
      /\ Len(Append(block.literals, w.symbol)) = Len(block.literals) + 1
  BY <1>3, <1>5, AppendProperties DEF BlockInProgress
<1>7. block' \in BlockInProgress /\ block'.literals = Append(block.literals, w.symbol)
  BY <1>1, <1>5, <1>6 DEF BlockInProgress
<1>8. instructions' \in 0..MaxInstructions
  BY <1>2, <1>4, <1>5, Parameters
<1>9. TypeOK'
  BY <1>2, <1>7, <1>8 DEF IInv, TypeOK, BlockInProgress, Wanted
<1>10. ReaderAgrees' /\ Moves
  BY <1>1, <1>2, <1>4 DEF Further, Moves, ReaderAgrees
<1>11. LimitsHeld'
  BY <1>2, <1>3, <1>6, <1>7, SameBlocks
<1>12. InBlock'
  BY <1>2 DEF IInv, InBlock
<1>13. QED
  BY <1>9, <1>10, <1>11, <1>12 DEF IInv

\* The trailer is read.
LEMMA ReadTrailerStep == ASSUME IInv, ReadTrailer PROVE IInv' /\ status' = "ok"
PROOF
<1>1. PICK t \in Trailer : reader' = t.reader
  BY DEF ReadTrailer
<1>2. /\ phase' = phase /\ status' = "ok"
      /\ UNCHANGED <<data, blocks, total, had_matches, block, sizes, codelens, lengths, prev, instructions>>
  BY DEF ReadTrailer
<1>3. ReaderOK(data, reader')
  BY <1>1, InvReads, TrailerReads
<1>4. TypeOK'
  BY <1>2 DEF IInv, TypeOK, Wanted
<1>5. QED
  BY <1>2, <1>3, <1>4 DEF IInv, ReaderAgrees, LimitsHeld, InBlock

\* The call gives up.
LEMMA RefuseStep == ASSUME IInv, Refuse PROVE IInv' /\ status' = "error"
PROOF
<1>1. /\ status' = "error"
      /\ UNCHANGED <<data, reader, phase, blocks, total, had_matches, block, sizes, codelens, lengths,
                     prev, instructions>>
  BY DEF Refuse
<1>2. TypeOK'
  BY <1>1 DEF IInv, TypeOK, Wanted
<1>3. QED
  BY <1>1, <1>2 DEF IInv, ReaderAgrees, LimitsHeld, InBlock

\* Nothing happens.
LEMMA StutterStep == ASSUME IInv, UNCHANGED vars PROVE IInv'
PROOF
<1>1. TypeOK'
  BY DEF IInv, TypeOK, Wanted, vars
<1>2. QED
  BY <1>1 DEF IInv, ReaderAgrees, LimitsHeld, InBlock, vars

Progress ==
    status' = "running" =>
        \/ Position(reader') > Position(reader)
        \/ phase = "codelens" /\ phase' = "lengths"
        \/ phase = "lengths" /\ phase' = "symbols"

\* Every step keeps the invariant, and moves.
LEMMA NextStep == ASSUME IInv, [Next]_vars PROVE IInv' /\ [Progress]_vars
PROOF
<1>1. CASE BlockHeader
  BY <1>1, BlockHeaderStep DEF Moves, Progress
<1>2. CASE StoredBlock
  BY <1>2, StoredBlockStep DEF Moves, Progress
<1>3. CASE DynamicSizes
  BY <1>3, DynamicSizesStep DEF Moves, Progress
<1>4. CASE ReadCodeLengthLength
  BY <1>4, ReadCodeLengthLengthStep DEF Moves, Progress
<1>5. CASE CodeLengthTree
  BY <1>5, CodeLengthTreeStep DEF Progress
<1>6. CASE DecodeCodeLength
  BY <1>6, DecodeCodeLengthStep DEF Moves, Progress
<1>7. CASE DynamicTrees
  BY <1>7, DynamicTreesStep DEF Progress
<1>8. CASE Literal
  BY <1>8, LiteralStep DEF Moves, Progress
<1>9. CASE SkipMatch
  BY <1>9, SkipMatchStep DEF Moves, Progress
<1>10. CASE EndOfSymbols
  BY <1>10, EndOfSymbolsStep DEF Moves, Progress
<1>11. CASE ReadTrailer
  BY <1>11, ReadTrailerStep DEF Progress
<1>12. CASE Refuse
  BY <1>12, RefuseStep DEF Progress
<1>13. CASE UNCHANGED vars
  BY <1>13, StutterStep
<1>14. QED
  BY <1>1, <1>2, <1>3, <1>4, <1>5, <1>6, <1>7, <1>8, <1>9, <1>10, <1>11, <1>12, <1>13
     DEF Next, Returned

-----------------------------------------------------------------------------

\* The invariant holds in every state.
THEOREM Invariance == Spec => []IInv
PROOF
<1>1. Init => IInv
  BY InitInv
<1>2. IInv /\ [Next]_vars => IInv'
  BY NextStep
<1>3. QED
  BY <1>1, <1>2, PTL DEF Spec

\* The state keeps its types: no count of code lengths, of instructions or of
\* symbols leaves its range on any input (parse_deflate_stream and below).
THEOREM TypeCorrect == Spec => []TypeOK
PROOF
<1>1. IInv => TypeOK
  BY DEF IInv
<1>2. QED
  BY <1>1, Invariance, PTL

\* The word of BitReader and its position never come apart.
THEOREM ReaderStaysInStep == Spec => []ReaderAgrees
PROOF
<1>1. IInv => ReaderAgrees
  BY DEF IInv
<1>2. QED
  BY <1>1, Invariance, PTL

\* The limits of the DEFLATE parser hold for every value they may have.
THEOREM LimitsAlwaysHeld == Spec => []LimitsHeld
PROOF
<1>1. IInv => LimitsHeld
  BY DEF IInv
<1>2. QED
  BY <1>1, Invariance, PTL

\* No pass of a loop goes on without taking a bit, whatever the input and
\* whatever the codes: the loops of the parser end.
THEOREM AlwaysConsumes == Spec => Consumes
PROOF
<1>1. IInv /\ [Next]_vars => [Progress]_vars
  BY NextStep
<1>2. [Progress]_vars <=> [status' = "running" =>
          \/ Position(reader') > Position(reader)
          \/ phase = "codelens" /\ phase' = "lengths"
          \/ phase = "lengths" /\ phase' = "symbols"]_vars
  BY DEF Progress
<1>3. QED
  BY <1>1, <1>2, Invariance, PTL DEF Spec, Consumes

-----------------------------------------------------------------------------
(* What each pass reads where the part of a member it reads lies.          *)

\* A number that lies there in w bits is read, if its bits are all there.
LEMMA ReadNumberIs ==
    ASSUME NEW d \in Seq(Bit), NEW r, ReaderOK(d, r), NEW w \in Nat, w <= 8, NEW v \in Nat, v < 2^w,
           Lies(d, Position(r), LowFirst(v, w))
    PROVE  /\ \A a \in ReadBits(d, r, w) : /\ ReaderOK(d, a.reader) /\ Position(a.reader) = Position(r) + w
                                           /\ a.bits = LowFirst(v, w) /\ Number(a.bits) = v
           /\ Whole8(d) /\ Position(r) + w <= Len(d) => ReadBits(d, r, w) # {}
PROOF
<1>1. LowFirst(v, w) \in Seq(Bit) /\ Len(LowFirst(v, w)) = w /\ Number(LowFirst(v, w)) = v
  BY LowFirstType, NumberOfBits
<1>2. ASSUME NEW a \in ReadBits(d, r, w)
      PROVE  ReaderOK(d, a.reader) /\ Position(a.reader) = Position(r) + w /\ a.bits = LowFirst(v, w)
  BY <1>1, ReadBitsIs
<1>3. ASSUME Whole8(d), Position(r) + w <= Len(d) PROVE ReadBits(d, r, w) # {}
  <2>1. w <= WordBits - 8
    BY Widths
  <2>2. QED
    BY <1>3, <2>1, ReadBitsThere
<1>4. QED
  BY <1>1, <1>2, <1>3

\* Extra bits are skipped, whatever they are.
LEMMA SkipIs ==
    ASSUME NEW d, Whole8(d), NEW r, ReaderOK(d, r), NEW n \in Nat, n <= WordBits - 8
    PROVE  /\ \A a \in ReadBits(d, r, n) : ReaderOK(d, a.reader) /\ Position(a.reader) = Position(r) + n
           /\ Position(r) + n <= Len(d) => ReadBits(d, r, n) # {}
PROOF
<1>1. d \in Seq(Bit)
  BY DEF Whole8
<1>2. QED
  BY <1>1, ReadBitsOK, ReadBitsThere

\* What lies in the data: a reader of it, and what a pass takes from there.
Reading == Whole8(data) /\ ReaderOK(data, reader)

\* Where a reader is in the data.
LEMMA ReadingIs ==
    ASSUME Reading
    PROVE  /\ Whole8(data) /\ data \in Seq(Bit) /\ ReaderOK(data, reader) /\ Len(data) \in Nat
           /\ Position(reader) \in Nat /\ Position(reader) <= Len(data)
PROOF
<1>1. Whole8(data) /\ data \in Seq(Bit) /\ ReaderOK(data, reader) /\ Len(data) \in Nat
  BY DEF Reading, Whole8
<1>2. QED
  BY <1>1, ReaderNumbers

\* What is left of a stored block has room for each of its parts.
LEMMA Room ==
    ASSUME NEW a \in Nat, NEW m \in Nat, NEW l \in Nat, a + 32 + m <= l
    PROVE  a <= l /\ a + 16 <= l /\ a + 16 + 16 <= l
PROOF
  OBVIOUS

\* The reader r stands n bits further on.
Along(r, n) == ReaderOK(data, r) /\ Position(r) = Position(reader) + n

\* The head of a block.
LEMMA HeaderIs ==
    ASSUME Reading, NEW final \in BOOLEAN, NEW type \in 0..2,
           Lies(data, Position(reader), <<IF final THEN 1 ELSE 0>>),
           Lies(data, Position(reader) + 1, LowFirst(type, 2))
    PROVE  /\ \A h \in Header : h.final = final /\ h.type = type /\ Along(h.reader, 3)
           /\ Position(reader) + 3 <= Len(data) /\ Len(blocks) < MaxBlocks /\ Len(blocks) \in Nat => Header # {}
PROOF
<1> DEFINE x == <<IF final THEN 1 ELSE 0>>
           p == Position(reader)
           one == 1
           two == 2
<1>0. Whole8(data) /\ data \in Seq(Bit) /\ ReaderOK(data, reader) /\ p \in Nat /\ Len(data) \in Nat
  BY ReadingIs
<1>1. x \in Seq(Bit) /\ Len(x) = one /\ one \in Nat /\ two \in Nat /\ type < 2^two /\ type \in Nat /\ two <= 8 /\ one <= WordBits - 8
  <2>1. x \in Seq(Bit) /\ Len(x) = 1
    BY HeaderType
  <2>2. 2^2 = 4
    OBVIOUS
  <2>3. 1 <= WordBits - 8
    BY Widths
  <2>4. QED
    BY <2>1, <2>2, <2>3
<1>2. (x[1] = 1) = final
  OBVIOUS
<1>3. p = Position(reader) /\ Lies(data, p, x) /\ Lies(data, p + one, LowFirst(type, two))
  OBVIOUS
<1>4. Header = IF Len(blocks) >= MaxBlocks THEN {}
               ELSE Then(ReadBits(data, reader, one), LAMBDA a :
                    Then(ReadBits(data, a.reader, two), LAMBDA b :
                    {[reader |-> b.reader, final |-> a.bits[1] = 1, type |-> Number(b.bits)]}))
  BY DEF Header
<1>a. one = 1 /\ two = 2
  OBVIOUS
<1> HIDE DEF x, p, one, two
<1>5. ASSUME NEW a \in ReadBits(data, reader, one)
      PROVE  /\ a.bits = x /\ ReaderOK(data, a.reader) /\ Position(a.reader) = p + one
             /\ \A b \in ReadBits(data, a.reader, two) :
                   ReaderOK(data, b.reader) /\ Position(b.reader) = p + one + two /\ Number(b.bits) = type
             /\ p + one + two <= Len(data) => ReadBits(data, a.reader, two) # {}
  <2>1. a.bits = x /\ ReaderOK(data, a.reader) /\ Position(a.reader) = p + one
    BY <1>0, <1>1, <1>3, ReadBitsIs
  <2>2. /\ \A b \in ReadBits(data, a.reader, two) :
             ReaderOK(data, b.reader) /\ Position(b.reader) = Position(a.reader) + two /\ Number(b.bits) = type
        /\ Whole8(data) /\ Position(a.reader) + two <= Len(data) => ReadBits(data, a.reader, two) # {}
    BY <1>0, <1>1, <1>3, <2>1, ReadNumberIs
  <2>3. QED
    BY <1>0, <2>1, <2>2
<1>6. ASSUME NEW h \in Header PROVE h.final = final /\ h.type = type /\ Along(h.reader, 3)
  <2>1. PICK a \in ReadBits(data, reader, one) :
          \E b \in ReadBits(data, a.reader, two) : h = [reader |-> b.reader, final |-> a.bits[1] = 1, type |-> Number(b.bits)]
    BY <1>4 DEF Then
  <2>2. PICK b \in ReadBits(data, a.reader, two) : h = [reader |-> b.reader, final |-> a.bits[1] = 1, type |-> Number(b.bits)]
    BY <2>1
  <2>3. a.bits = x /\ ReaderOK(data, b.reader) /\ Position(b.reader) = p + one + two /\ Number(b.bits) = type
    BY <1>5
  <2>4. h.final = final /\ h.type = type /\ h.reader = b.reader
    BY <1>2, <2>2, <2>3
  <2>5. Position(b.reader) = p + 3
    BY <1>0, <1>a, <2>3
  <2>6. QED
    BY <1>3, <2>3, <2>4, <2>5 DEF Along
<1>7. ASSUME p + 3 <= Len(data), Len(blocks) < MaxBlocks, Len(blocks) \in Nat PROVE Header # {}
  <2>1. p + one <= Len(data) /\ p + one + two <= Len(data)
    BY <1>0, <1>7, <1>a
  <2>2. PICK a \in ReadBits(data, reader, one) : TRUE
    BY <1>0, <1>1, <2>1, ReadBitsThere DEF p
  <2>3. PICK b \in ReadBits(data, a.reader, two) : TRUE
    BY <1>5, <2>1
  <2>4. ~(Len(blocks) >= MaxBlocks)
    BY <1>7, Parameters
  <2>5. [reader |-> b.reader, final |-> a.bits[1] = 1, type |-> Number(b.bits)] \in Header
    BY <1>4, <2>4 DEF Then
  <2>6. QED
    BY <2>5
<1>8. QED
  BY <1>6, <1>7 DEF p

\* A stored block: its length, the complement and its bytes.
LEMMA StoredIs ==
    ASSUME Reading, NEW bytes, AreBytes(bytes), NEW at, at = Position(reader) + Pad(Position(reader)),
           Lies(data, at, LowFirst(Len(bytes), 16)), Lies(data, at + 16, LowFirst(2^16 - 1 - Len(bytes), 16)),
           BytesLie(data, at + 32, bytes), block.literals = <<>>
    PROVE  /\ \A b \in Stored : /\ b.bytes = bytes /\ ReaderOK(data, b.reader)
                                /\ Position(b.reader) = at + 32 + 8 * Len(bytes)
           /\ at + 32 + 8 * Len(bytes) <= Len(data) /\ Len(bytes) <= MaxBlockLiterals => Stored # {}
PROOF
<1> DEFINE n == Len(bytes)
           top == 2^16 - 1
           p == Position(reader)
<1>0. Whole8(data) /\ data \in Seq(Bit) /\ ReaderOK(data, reader) /\ p \in Nat /\ Len(data) \in Nat
  BY ReadingIs
<1>1. n \in Nat /\ n < 2^16 /\ top - n \in Nat /\ top - n < 2^16 /\ top - (top - n) = n /\ bytes \in Seq(0..255)
  BY DEF AreBytes
<1>2. at \in Nat /\ at % 8 = 0 /\ at = p + Pad(p) /\ Pad(p) \in Nat
  <2> HIDE DEF p
  <2>1. Pad(p) \in Nat /\ (p + Pad(p)) % 8 = 0
    BY <1>0, PadIs
  <2>2. at = p + Pad(p)
    BY DEF p
  <2>3. QED
    BY <1>0, <2>1, <2>2
<1>3. Lies(data, at, LowFirst(n, 16)) /\ Lies(data, at + 16, LowFirst(top - n, 16)) /\ BytesLie(data, at + 32, bytes)
  OBVIOUS
<1>4. Stored = Then(AlignToByte(data, reader), LAMBDA r :
               Then(ReadU16(data, r), LAMBDA len :
               Then(ReadU16(data, len.reader), LAMBDA nlen :
               IF len.value = top - nlen.value /\ Fits(len.value)
               THEN ReadBytes(data, nlen.reader, len.value) ELSE {})))
  BY DEF Stored
<1> HIDE DEF n, top, p
<1>5. ASSUME NEW r \in AlignToByte(data, reader)
      PROVE  ReaderOK(data, r) /\ Position(r) = at /\ r.bit_pos = 0
  BY <1>0, <1>2, AlignIs DEF p
<1>6. ASSUME NEW r \in AlignToByte(data, reader), NEW len \in ReadU16(data, r)
      PROVE  ReaderOK(data, len.reader) /\ Position(len.reader) = at + 16 /\ len.value = n /\ len.reader.bit_pos = 0
  <2>1. ReaderOK(data, len.reader) /\ Position(len.reader) = at + 16 /\ len.value = n
    BY <1>0, <1>1, <1>3, <1>5, ReadU16Is
  <2>2. (at + 16) % 8 = 0
    BY <1>2
  <2>3. QED
    BY <1>0, <2>1, <2>2, OnByte
<1>7. ASSUME NEW r \in AlignToByte(data, reader), NEW len \in ReadU16(data, r), NEW nlen \in ReadU16(data, len.reader)
      PROVE  /\ ReaderOK(data, nlen.reader) /\ Position(nlen.reader) = at + 32 /\ nlen.value = top - n
             /\ nlen.reader.bit_pos = 0
  <2>1. ReaderOK(data, len.reader) /\ Position(len.reader) = at + 16
    BY <1>6
  <2>2. ReaderOK(data, nlen.reader) /\ Position(nlen.reader) = Position(len.reader) + 16 /\ nlen.value = top - n
    BY <1>0, <1>1, <1>3, <2>1, ReadU16Is
  <2>3. (at + 32) % 8 = 0 /\ Position(nlen.reader) = at + 32
    BY <1>2, <2>1, <2>2
  <2>4. QED
    BY <1>0, <2>2, <2>3, OnByte
<1>8. ASSUME NEW b \in Stored
      PROVE  b.bytes = bytes /\ ReaderOK(data, b.reader) /\ Position(b.reader) = at + 32 + 8 * n
  <2>1. PICK r \in AlignToByte(data, reader) : b \in
               Then(ReadU16(data, r), LAMBDA len :
               Then(ReadU16(data, len.reader), LAMBDA nlen :
               IF len.value = top - nlen.value /\ Fits(len.value)
               THEN ReadBytes(data, nlen.reader, len.value) ELSE {}))
    BY <1>4 DEF Then
  <2>2. PICK len \in ReadU16(data, r) : b \in
               Then(ReadU16(data, len.reader), LAMBDA nlen :
               IF len.value = top - nlen.value /\ Fits(len.value)
               THEN ReadBytes(data, nlen.reader, len.value) ELSE {})
    BY <2>1 DEF Then
  <2>3. PICK nlen \in ReadU16(data, len.reader) : b \in ReadBytes(data, nlen.reader, len.value)
    BY <2>2 DEF Then
  <2>4. ReaderOK(data, nlen.reader) /\ Position(nlen.reader) = at + 32 /\ len.value = n
    BY <1>6, <1>7
  <2>5. QED
    BY <1>0, <1>1, <1>3, <2>3, <2>4, ReadBytesIs DEF n
<1>9. ASSUME at + 32 + 8 * n <= Len(data), n <= MaxBlockLiterals PROVE Stored # {}
  <2>1. at <= Len(data) /\ at + 16 <= Len(data) /\ at + 16 + 16 <= Len(data)
    <3> DEFINE m == 8 * n
    <3>1. m \in Nat /\ at + 32 + m <= Len(data)
      BY <1>1, <1>9
    <3> HIDE DEF m
    <3>2. QED
      BY <1>0, <1>2, <3>1, Room
  <2>2. PICK r \in AlignToByte(data, reader) : TRUE
    BY <1>0, <1>2, <2>1, AlignIs DEF p
  <2>3. PICK len \in ReadU16(data, r) : TRUE
    BY <1>0, <1>1, <1>3, <1>5, <2>1, ReadU16Is
  <2>4. PICK nlen \in ReadU16(data, len.reader) : TRUE
    BY <1>0, <1>1, <1>3, <1>6, <2>1, ReadU16Is
  <2>5. /\ ReaderOK(data, nlen.reader) /\ Position(nlen.reader) = at + 32 /\ nlen.value = top - n
        /\ nlen.reader.bit_pos = 0 /\ len.value = n
    BY <1>6, <1>7
  <2>6. PICK b \in ReadBytes(data, nlen.reader, n) : TRUE
    BY <1>0, <1>1, <1>3, <1>9, <2>5, ReadBytesIs DEF n
  <2>7. len.value = top - nlen.value /\ Fits(len.value)
    <3>1. top - nlen.value = n
      BY <1>1, <2>5
    <3>2. Len(block.literals) = 0
      OBVIOUS
    <3>3. Fits(n)
      BY <1>1, <1>9, <3>2 DEF Fits
    <3>4. QED
      BY <2>5, <3>1, <3>3
  <2>8. b \in Stored
    BY <1>4, <2>5, <2>6, <2>7 DEF Then
  <2>9. QED
    BY <2>8
<1>10. QED
  BY <1>8, <1>9 DEF n

\* HLIT, HDIST and HCLEN.
LEMMA SizesIs ==
    ASSUME Reading, NEW b, AreTrees(b), NEW p, p = Position(reader),
           Lies(data, p, LowFirst(b.hlit - NumLiterals - 1, SizeBits[1])),
           Lies(data, p + SizeBits[1], LowFirst(b.hdist - 1, SizeBits[2])),
           Lies(data, p + (SizeBits[1] + SizeBits[2]), LowFirst(b.hclen - MinHclen, SizeBits[3]))
    PROVE  /\ \A h \in Sizes : h.hlit = b.hlit /\ h.hdist = b.hdist /\ h.hclen = b.hclen /\ Along(h.reader, SizesHead)
           /\ p + SizesHead <= Len(data) => Sizes # {}
PROOF
<1> DEFINE u == b.hlit - NumLiterals - 1
           v == b.hdist - 1
           w == b.hclen - MinHclen
           x == SizeBits[1]
           y == SizeBits[2]
           z == SizeBits[3]
           Result(i, j, k, r) == OnlyIf(i <= NumLiterals + 1 + Len(LengthExtra) /\ j <= Len(DistanceExtra),
                                        [reader |-> r, hlit |-> i, hdist |-> j, hclen |-> k])
<1>0. Whole8(data) /\ data \in Seq(Bit) /\ ReaderOK(data, reader) /\ p \in Nat /\ Len(data) \in Nat
  BY ReadingIs
<1>1. /\ u \in Nat /\ u < 2^x /\ v \in Nat /\ v < 2^y /\ w \in Nat /\ w < 2^z
      /\ u + NumLiterals + 1 = b.hlit /\ v + 1 = b.hdist /\ w + MinHclen = b.hclen
      /\ b.hlit <= NumLiterals + 1 + Len(LengthExtra) /\ b.hdist <= Len(DistanceExtra)
  <2>1. /\ b.hlit \in Nat /\ b.hdist \in Nat /\ b.hclen \in Nat
        /\ u \in Nat /\ u < 2^x /\ v \in Nat /\ v < 2^y /\ w \in Nat /\ w < 2^z
        /\ b.hlit <= NumLiterals + 1 + Len(LengthExtra) /\ b.hdist <= Len(DistanceExtra)
    BY TreesType
  <2> DEFINE hlit == b.hlit
             hclen == b.hclen
  <2>0. NumLiterals \in Nat /\ MinHclen \in Nat /\ hlit \in Nat /\ hclen \in Nat
    BY <2>1, Parameters
  <2> HIDE DEF hlit, hclen
  <2>a. (hlit - NumLiterals - 1) + NumLiterals + 1 = hlit /\ (hclen - MinHclen) + MinHclen = hclen
    BY <2>0
  <2>2. u + NumLiterals + 1 = b.hlit
    BY <2>a DEF hlit
  <2>3. v + 1 = b.hdist
    BY <2>1
  <2>4. w + MinHclen = b.hclen
    BY <2>a DEF hclen
  <2>5. QED
    BY <2>1, <2>2, <2>3, <2>4
<1>2. x \in Nat /\ x <= 8 /\ y \in Nat /\ y <= 8 /\ z \in Nat /\ z <= 8
  <2>1. 1 \in 1..3 /\ 2 \in 1..3 /\ 3 \in 1..3
    OBVIOUS
  <2>2. QED
    BY <2>1, Widths
<1>3. Lies(data, p, LowFirst(u, x)) /\ Lies(data, p + x, LowFirst(v, y)) /\ Lies(data, p + (x + y), LowFirst(w, z))
  OBVIOUS
<1>4. Sizes = Then(ReadBits(data, reader, x), LAMBDA i :
              Then(ReadBits(data, i.reader, y), LAMBDA j :
              Then(ReadBits(data, j.reader, z), LAMBDA k :
                   Result(Number(i.bits) + NumLiterals + 1, Number(j.bits) + 1, Number(k.bits) + MinHclen, k.reader))))
  BY DEF Sizes
<1>5. SizesHead = x + y + z
  BY DEF SizesHead
<1>6. Result(b.hlit, b.hdist, b.hclen, 0) # {} /\ \A r, i, j, k : \A h \in Result(i, j, k, r) : h = [reader |-> r, hlit |-> i, hdist |-> j, hclen |-> k]
  BY <1>1 DEF OnlyIf
<1>7. \A r : [reader |-> r, hlit |-> b.hlit, hdist |-> b.hdist, hclen |-> b.hclen] \in Result(b.hlit, b.hdist, b.hclen, r)
  BY <1>1 DEF OnlyIf
<1> HIDE DEF u, v, w, x, y, z, Result
<1>8. ASSUME NEW i \in ReadBits(data, reader, x)
      PROVE  ReaderOK(data, i.reader) /\ Position(i.reader) = p + x /\ Number(i.bits) = u
  <2>1. Lies(data, Position(reader), LowFirst(u, x)) /\ p = Position(reader)
    BY <1>3
  <2>2. QED
    BY <1>0, <1>1, <1>2, <2>1, ReadNumberIs
<1>9. ASSUME NEW i \in ReadBits(data, reader, x), NEW j \in ReadBits(data, i.reader, y)
      PROVE  ReaderOK(data, j.reader) /\ Position(j.reader) = p + (x + y) /\ Number(j.bits) = v
  <2>1. ReaderOK(data, i.reader) /\ Position(i.reader) = p + x
    BY <1>8
  <2>2. ReaderOK(data, j.reader) /\ Position(j.reader) = (p + x) + y /\ Number(j.bits) = v
    BY <1>0, <1>1, <1>2, <1>3, <2>1, ReadNumberIs
  <2>3. QED
    BY <1>0, <1>2, <2>2
<1>10. ASSUME NEW i \in ReadBits(data, reader, x), NEW j \in ReadBits(data, i.reader, y), NEW k \in ReadBits(data, j.reader, z)
       PROVE  ReaderOK(data, k.reader) /\ Position(k.reader) = p + SizesHead /\ Number(k.bits) = w
  <2>1. ReaderOK(data, j.reader) /\ Position(j.reader) = p + (x + y)
    BY <1>9
  <2>2. ReaderOK(data, k.reader) /\ Position(k.reader) = (p + (x + y)) + z /\ Number(k.bits) = w
    BY <1>0, <1>1, <1>2, <1>3, <2>1, ReadNumberIs
  <2>3. QED
    BY <1>0, <1>2, <1>5, <2>2
<1>11. ASSUME NEW h \in Sizes
       PROVE  h.hlit = b.hlit /\ h.hdist = b.hdist /\ h.hclen = b.hclen /\ Along(h.reader, SizesHead)
  <2>1. PICK i \in ReadBits(data, reader, x) : h \in
              Then(ReadBits(data, i.reader, y), LAMBDA j :
              Then(ReadBits(data, j.reader, z), LAMBDA k :
                   Result(Number(i.bits) + NumLiterals + 1, Number(j.bits) + 1, Number(k.bits) + MinHclen, k.reader)))
    BY <1>4 DEF Then
  <2>2. PICK j \in ReadBits(data, i.reader, y) : h \in
              Then(ReadBits(data, j.reader, z), LAMBDA k :
                   Result(Number(i.bits) + NumLiterals + 1, Number(j.bits) + 1, Number(k.bits) + MinHclen, k.reader))
    BY <2>1 DEF Then
  <2>3. PICK k \in ReadBits(data, j.reader, z) :
          h \in Result(Number(i.bits) + NumLiterals + 1, Number(j.bits) + 1, Number(k.bits) + MinHclen, k.reader)
    BY <2>2 DEF Then
  <2>4. Number(i.bits) = u /\ Number(j.bits) = v /\ Number(k.bits) = w
    BY <1>8, <1>9, <1>10
  <2>5. h \in Result(b.hlit, b.hdist, b.hclen, k.reader)
    BY <1>1, <2>3, <2>4
  <2>6. h = [reader |-> k.reader, hlit |-> b.hlit, hdist |-> b.hdist, hclen |-> b.hclen]
    BY <1>6, <2>5
  <2>7. QED
    BY <1>10, <2>6 DEF Along
<1>12. ASSUME p + SizesHead <= Len(data) PROVE Sizes # {}
  <2>1. p + x <= Len(data) /\ p + x + y <= Len(data) /\ p + (x + y) + z <= Len(data)
    BY <1>0, <1>2, <1>5, <1>12
  <2>2. PICK i \in ReadBits(data, reader, x) : TRUE
    <3>1. Lies(data, Position(reader), LowFirst(u, x)) /\ Position(reader) + x <= Len(data)
      BY <1>3, <2>1
    <3>2. QED
      BY <1>0, <1>1, <1>2, <3>1, ReadNumberIs
  <2>3. PICK j \in ReadBits(data, i.reader, y) : TRUE
    <3>1. ReaderOK(data, i.reader) /\ Position(i.reader) = p + x
      BY <1>8
    <3>2. Lies(data, Position(i.reader), LowFirst(v, y)) /\ Position(i.reader) + y <= Len(data)
      BY <1>3, <2>1, <3>1
    <3>3. QED
      BY <1>0, <1>1, <1>2, <3>1, <3>2, ReadNumberIs
  <2>4. PICK k \in ReadBits(data, j.reader, z) : TRUE
    <3>1. ReaderOK(data, j.reader) /\ Position(j.reader) = p + (x + y)
      BY <1>9
    <3>2. Lies(data, Position(j.reader), LowFirst(w, z)) /\ Position(j.reader) + z <= Len(data)
      BY <1>3, <2>1, <3>1
    <3>3. QED
      BY <1>0, <1>1, <1>2, <3>1, <3>2, ReadNumberIs
  <2>5. Number(i.bits) = u /\ Number(j.bits) = v /\ Number(k.bits) = w
    BY <1>8, <1>9, <1>10
  <2>6. [reader |-> k.reader, hlit |-> b.hlit, hdist |-> b.hdist, hclen |-> b.hclen]
          \in Result(Number(i.bits) + NumLiterals + 1, Number(j.bits) + 1, Number(k.bits) + MinHclen, k.reader)
    BY <1>1, <1>7, <2>5
  <2>7. [reader |-> k.reader, hlit |-> b.hlit, hdist |-> b.hdist, hclen |-> b.hclen] \in Sizes
    BY <1>4, <2>6 DEF Then
  <2>8. QED
    BY <2>7
<1>13. QED
  BY <1>11, <1>12

\* All that was sent, put where HCLEN_ORDER says, are the lengths of the code.
LEMMA CodeLengthLengthsIs ==
    ASSUME NEW b, AreTrees(b), codelens \in Seq(Nat), Len(codelens) = b.hclen,
           \A i \in 1..b.hclen : codelens[i] = b.codelens[HclenOrder[i] + 1]
    PROVE  CodeLengthLengths = b.codelens
PROOF
<1> DEFINE m == MaxCodeBits + 4
           i(s) == CHOOSE j \in DOMAIN HclenOrder : HclenOrder[j] = s - 1
<1>1. /\ DOMAIN HclenOrder = 1..m /\ m \in Nat /\ Len(HclenOrder) = m
      /\ \A s \in 1..m : \E j \in DOMAIN HclenOrder : HclenOrder[j] = s - 1
  <2>1. MaxCodeBits \in Nat /\ HclenOrder \in Seq(0..(MaxCodeBits + 3)) /\ Len(HclenOrder) = MaxCodeBits + 4
        /\ ToSet(HclenOrder) = 0..(MaxCodeBits + 3)
    BY FormatConstants
  <2>2. ASSUME NEW s \in 1..m PROVE \E j \in DOMAIN HclenOrder : HclenOrder[j] = s - 1
    <3>1. s - 1 \in ToSet(HclenOrder)
      BY <2>1
    <3>2. QED
      BY <3>1, Zenon DEF ToSet
  <2>3. QED
    BY <2>1, <2>2
<1>2. /\ b.codelens \in Lengths /\ Len(b.codelens) = m /\ b.hclen \in Nat /\ b.hclen <= m
      /\ \A j \in (b.hclen + 1)..m : b.codelens[HclenOrder[j] + 1] = 0
  BY <1>1, TreesType DEF AreTrees
<1>3. ASSUME NEW s \in 1..m
      PROVE  (IF i(s) <= Len(codelens) THEN codelens[i(s)] ELSE 0) = b.codelens[s]
  <2> DEFINE j == i(s)
  <2>1. j \in 1..m /\ HclenOrder[j] = s - 1
    BY <1>1
  <2> HIDE DEF j
  <2>2. HclenOrder[j] + 1 = s
    BY <2>1
  <2>3. CASE j <= b.hclen
    <3>1. j \in 1..b.hclen
      BY <1>2, <2>1, <2>3
    <3>2. codelens[j] = b.codelens[s]
      BY <2>2, <3>1
    <3>3. QED
      BY <2>3, <3>2 DEF j
  <2>4. CASE ~(j <= b.hclen)
    <3>1. j \in (b.hclen + 1)..m
      BY <1>2, <2>1, <2>4
    <3>2. b.codelens[s] = 0
      BY <1>2, <2>2, <3>1
    <3>3. QED
      BY <2>4, <3>2 DEF j
  <2>5. QED
    BY <2>3, <2>4
<1>4. CodeLengthLengths = [s \in 1..m |-> IF i(s) <= Len(codelens) THEN codelens[i(s)] ELSE 0]
  BY Zenon DEF CodeLengthLengths
<1> HIDE DEF i, m
<1>5. CodeLengthLengths = [s \in 1..m |-> b.codelens[s]]
  BY <1>3, <1>4
<1>6. b.codelens = [s \in 1..m |-> b.codelens[s]]
  BY <1>2 DEF Lengths
<1>7. QED
  BY <1>5, <1>6

\* Where two strings lie one behind the other, each of them lies.
LEMMA LiesSplit ==
    ASSUME NEW d, NEW p \in Nat, NEW x \in Seq(Bit), NEW y \in Seq(Bit), Lies(d, p, x \o y)
    PROVE  Lies(d, p, x) /\ Lies(d, p + Len(x), y) /\ Len(x \o y) = Len(x) + Len(y)
PROOF
<1> DEFINE z == x \o y
<1>1. Lies(d, p, z)
  OBVIOUS
<1>2. z \in Seq(Bit) /\ IsJoin(z, x, y)
  BY Joined
<1> HIDE DEF z
<1>3. /\ Len(z) = Len(x) + Len(y) /\ Len(x) \in Nat /\ Len(y) \in Nat
      /\ \A j \in 1..Len(x) : z[j] = x[j]
      /\ \A j \in 1..Len(y) : z[Len(x) + j] = y[j]
  BY <1>2 DEF IsJoin
<1>4. ASSUME NEW j \in 1..Len(x), p + j <= Len(d) PROVE d[p + j] = x[j]
  <2>1. j \in 1..Len(z)
    BY <1>3
  <2>2. QED
    BY <1>1, <1>3, <1>4, <2>1 DEF Lies
<1>5. ASSUME NEW j \in 1..Len(y), (p + Len(x)) + j <= Len(d) PROVE d[(p + Len(x)) + j] = y[j]
  <2>1. Len(x) + j \in 1..Len(z) /\ p + (Len(x) + j) = (p + Len(x)) + j
    BY <1>3
  <2>2. QED
    BY <1>1, <1>3, <1>5, <2>1 DEF Lies
<1>6. QED
  BY <1>3, <1>4, <1>5 DEF Lies, z

\* A number of times one length, behind those that are there: if they fit.
LEMMA RepeatedIs ==
    ASSUME Reading, NEW w, ReaderOK(data, w.reader), NEW kind \in 1..3, NEW value, NEW extra \in Nat,
           extra < 2^Repeat[kind].bits, Lies(data, Position(w.reader), LowFirst(extra, Repeat[kind].bits))
    PROVE  /\ \A c \in Repeated(w, kind, value) :
                 /\ c.lengths = lengths \o [k \in 1..(Repeat[kind].base + extra) |-> value] /\ c.prev = prev
                 /\ ReaderOK(data, c.reader) /\ Position(c.reader) = Position(w.reader) + Repeat[kind].bits
           /\ /\ Position(w.reader) + Repeat[kind].bits <= Len(data)
              /\ Len(lengths) + (Repeat[kind].base + extra) <= Wanted
              => Repeated(w, kind, value) # {}
PROOF
<1> DEFINE n == Repeat[kind].bits
           base == Repeat[kind].base
           more == lengths \o [k \in 1..(base + extra) |-> value]
<1>0. Whole8(data) /\ data \in Seq(Bit)
  BY ReadingIs
<1>1. n \in Nat /\ n <= 8 /\ base \in Nat /\ extra < 2^n /\ Lies(data, Position(w.reader), LowFirst(extra, n))
  BY Widths
<1>2. Repeated(w, kind, value) =
        Then(ReadBits(data, w.reader, n), LAMBDA a :
        Then(Fill(value, base + Number(a.bits)), LAMBDA filled :
        {[reader |-> a.reader, lengths |-> filled, prev |-> prev]}))
  BY DEF Repeated
<1>3. \A l \in Fill(value, base + extra) : l = more
  BY DEF Fill, OnlyIf
<1>4. Len(lengths) + (base + extra) <= Wanted => more \in Fill(value, base + extra)
  BY DEF Fill, OnlyIf
<1> HIDE DEF n, base, more
<1>5. ASSUME NEW a \in ReadBits(data, w.reader, n)
      PROVE  ReaderOK(data, a.reader) /\ Position(a.reader) = Position(w.reader) + n /\ Number(a.bits) = extra
  BY <1>0, <1>1, ReadNumberIs
<1>6. ASSUME NEW c \in Repeated(w, kind, value)
      PROVE  c.lengths = more /\ c.prev = prev /\ ReaderOK(data, c.reader) /\ Position(c.reader) = Position(w.reader) + n
  <2>1. PICK a \in ReadBits(data, w.reader, n) : c \in
          Then(Fill(value, base + Number(a.bits)), LAMBDA filled : {[reader |-> a.reader, lengths |-> filled, prev |-> prev]})
    BY <1>2 DEF Then
  <2>2. PICK l \in Fill(value, base + Number(a.bits)) : c = [reader |-> a.reader, lengths |-> l, prev |-> prev]
    BY <2>1 DEF Then
  <2>3. l = more
    BY <1>3, <1>5, <2>2
  <2>4. QED
    BY <1>5, <2>2, <2>3
<1>7. ASSUME Position(w.reader) + n <= Len(data), Len(lengths) + (base + extra) <= Wanted
      PROVE  Repeated(w, kind, value) # {}
  <2>1. PICK a \in ReadBits(data, w.reader, n) : TRUE
    BY <1>0, <1>1, <1>7, ReadNumberIs
  <2>2. more \in Fill(value, base + Number(a.bits))
    BY <1>4, <1>5, <1>7
  <2>3. [reader |-> a.reader, lengths |-> more, prev |-> prev] \in Repeated(w, kind, value)
    BY <1>2, <2>2 DEF Then
  <2>4. QED
    BY <2>3
<1>8. QED
  BY <1>6, <1>7 DEF n, base, more

\* What a code length's symbol does.
Outcome(w) ==
    CASE w.symbol \in 0..MaxCodeBits ->
           {[reader |-> w.reader, lengths |-> Append(lengths, w.symbol), prev |-> w.symbol]}
      [] w.symbol = MaxCodeBits + 1 -> IF lengths = <<>> THEN {} ELSE Repeated(w, 1, prev)
      [] w.symbol = MaxCodeBits + 2 -> Repeated(w, 2, 0)
      [] w.symbol = MaxCodeBits + 3 -> Repeated(w, 3, 0)
      [] OTHER -> {}

\* It, symbol by symbol.
LEMMA OutcomeIs ==
    ASSUME NEW w, w.symbol \in 0..(MaxCodeBits + 3)
    PROVE  /\ w.symbol \in 0..MaxCodeBits =>
                 Outcome(w) = {[reader |-> w.reader, lengths |-> Append(lengths, w.symbol), prev |-> w.symbol]}
           /\ w.symbol = MaxCodeBits + 1 /\ lengths # <<>> => Outcome(w) = Repeated(w, 1, prev)
           /\ w.symbol = MaxCodeBits + 2 => Outcome(w) = Repeated(w, 2, 0)
           /\ w.symbol = MaxCodeBits + 3 => Outcome(w) = Repeated(w, 3, 0)
PROOF
<1>1. MaxCodeBits \in Nat
  BY Parameters
<1>2. CASE w.symbol \in 0..MaxCodeBits
  <2>1. w.symbol # MaxCodeBits + 1 /\ w.symbol # MaxCodeBits + 2 /\ w.symbol # MaxCodeBits + 3
    BY <1>1, <1>2
  <2>2. QED
    BY <1>2, <2>1 DEF Outcome
<1>3. CASE ~(w.symbol \in 0..MaxCodeBits)
  <2>1. MaxCodeBits + 1 # MaxCodeBits + 2 /\ MaxCodeBits + 1 # MaxCodeBits + 3 /\ MaxCodeBits + 2 # MaxCodeBits + 3
    BY <1>1
  <2>2. QED
    BY <1>3, <2>1 DEF Outcome
<1>4. QED
  BY <1>2, <1>3

\* A run of the code lengths: its code, its extra bits, what it adds.
LEMMA CodeLengthIs ==
    ASSUME Reading, NEW c \in Lengths, IsCode(c), decoders.code_length = Tree(c), NEW r, IsRun(r, c),
           Lies(data, Position(reader), EncodeRun(r, c)), lengths \in Lengths,
           r.symbol = MaxCodeBits + 1 => lengths # <<>> /\ prev = Last(lengths)
    PROVE  /\ \A x \in CodeLength :
                 /\ x.lengths = lengths \o RunLengths(lengths, r) /\ Along(x.reader, Len(EncodeRun(r, c)))
                 /\ r.symbol \in 0..MaxCodeBits => x.prev = r.symbol
                 /\ r.symbol > MaxCodeBits => x.prev = prev
           /\ /\ Position(reader) + Len(EncodeRun(r, c)) <= Len(data) /\ instructions \in Nat /\ instructions < MaxInstructions
              /\ Len(lengths) + Len(RunLengths(lengths, r)) <= Wanted
              => CodeLength # {}
PROOF
<1> DEFINE p == Position(reader)
           s == r.symbol
           M == MaxCodeBits
           code == Code(c, s)
           z == EncodeRun(r, c)
           tree == decoders.code_length
<1>0. /\ Whole8(data) /\ data \in Seq(Bit) /\ ReaderOK(data, reader) /\ p \in Nat /\ Len(data) \in Nat /\ M \in Nat
  BY ReadingIs, Parameters
<1>1. /\ s \in Used(c) /\ s \in 0..(M + 3) /\ z \in Seq(Bit)
      /\ s \in 0..M => z = code
      /\ s > M => /\ s - M \in 1..3 /\ r.extra \in Nat /\ r.extra < 2^Repeat[s - M].bits
                  /\ z = code \o LowFirst(r.extra, Repeat[s - M].bits)
  BY RunType
<1>2. code \in Seq(Bit) /\ Len(code) \in Nat
  <2>1. code \in Seq(Bit)
    BY <1>1, CodeIs
  <2>2. QED
    BY <2>1
<1>3. CodeLength = IF instructions >= MaxInstructions THEN {} ELSE Then(Decode(data, tree, reader), LAMBDA w : Outcome(w))
  BY Zenon DEF CodeLength, Outcome
<1>4. ASSUME Lies(data, p, code)
      PROVE  /\ \A w \in Decode(data, tree, reader) :
                   w.symbol = s /\ ReaderOK(data, w.reader) /\ Position(w.reader) = p + Len(code)
             /\ p + Len(code) <= Len(data) => Decode(data, tree, reader) # {}
  BY <1>0, <1>1, <1>4, DecodeIs
<1>5. instructions \in Nat /\ instructions < MaxInstructions => ~(instructions >= MaxInstructions)
  BY Parameters
<1>6. \A x \in CodeLength : \E w \in Decode(data, tree, reader) : x \in Outcome(w)
  BY <1>3 DEF Then
<1>7. /\ instructions \in Nat /\ instructions < MaxInstructions
      /\ \E w \in Decode(data, tree, reader) : Outcome(w) # {}
      => CodeLength # {}
  BY <1>3, <1>5 DEF Then
<1>8. Lies(data, p, z)
  OBVIOUS
<1> HIDE DEF p, code, z, s, M
<1>9. CASE s \in 0..M
  <2>1. z = code /\ Lies(data, p, code)
    BY <1>1, <1>8, <1>9
  <2>2. RunLengths(lengths, r) = <<s>>
    BY <1>0, <1>9 DEF RunLengths, M, s
  <2>3. ASSUME NEW w \in Decode(data, tree, reader)
        PROVE  /\ Outcome(w) = {[reader |-> w.reader, lengths |-> Append(lengths, s), prev |-> s]}
               /\ ReaderOK(data, w.reader) /\ Position(w.reader) = p + Len(code)
    <3>1. w.symbol = s /\ ReaderOK(data, w.reader) /\ Position(w.reader) = p + Len(code)
      BY <1>4, <2>1
    <3>2. w.symbol \in 0..(MaxCodeBits + 3) /\ w.symbol \in 0..MaxCodeBits
      BY <1>1, <1>9, <3>1 DEF M
    <3>3. QED
      BY <3>1, <3>2, OutcomeIs
  <2>4. Append(lengths, s) = lengths \o <<s>>
    BY <1>9 DEF Lengths, M
  <2>5. ASSUME NEW x \in CodeLength
        PROVE  x.lengths = lengths \o RunLengths(lengths, r) /\ Along(x.reader, Len(z)) /\ x.prev = s
    <3>1. PICK w \in Decode(data, tree, reader) : x = [reader |-> w.reader, lengths |-> Append(lengths, s), prev |-> s]
      BY <1>6, <2>3
    <3>2. Along(w.reader, Len(z))
      BY <2>1, <2>3 DEF Along, p
    <3>3. QED
      BY <2>2, <2>4, <3>1, <3>2
  <2>6. ASSUME p + Len(z) <= Len(data), instructions \in Nat, instructions < MaxInstructions PROVE CodeLength # {}
    <3>1. PICK w \in Decode(data, tree, reader) : TRUE
      BY <1>4, <2>1, <2>6
    <3>2. Outcome(w) # {}
      BY <2>3
    <3>3. QED
      BY <1>7, <2>6, <3>1, <3>2
  <2>7. ~(s > M)
    BY <1>0, <1>9
  <2>8. QED
    BY <2>5, <2>6, <2>7 DEF p, s, M, z
<1>10. CASE s > M
  <2> DEFINE kind == s - M
             n == Repeat[kind].bits
             e == LowFirst(r.extra, n)
             value == IF kind = 1 THEN prev ELSE 0
             many == Repeat[kind].base + r.extra
  <2>1. /\ kind \in 1..3 /\ r.extra \in Nat /\ r.extra < 2^n /\ z = code \o e /\ ~(s \in 0..M)
        /\ kind = 1 => s = M + 1
        /\ kind = 2 => s = M + 2
        /\ kind = 3 => s = M + 3
    BY <1>0, <1>1, <1>10
  <2>2. n \in Nat /\ Repeat[kind].base \in Nat
    BY <2>1, Widths
  <2>3. e \in Seq(Bit) /\ Len(e) = n
    BY <2>1, <2>2, LowFirstType
  <2>4. many \in Nat
    BY <2>1, <2>2
  <2>5. RunLengths(lengths, r) = [k \in 1..many |-> value]
    <3>1. ~(r.symbol <= MaxCodeBits)
      BY <1>0, <1>1, <1>10 DEF s, M
    <3>2. RunLengths(lengths, r) = [k \in 1..many |-> IF kind = 1 THEN Last(lengths) ELSE 0]
      BY <3>1 DEF RunLengths, s, M
    <3>3. kind = 1 => prev = Last(lengths)
      BY <2>1 DEF s, M
    <3>4. QED
      BY <3>2, <3>3
  <2>6. Len(RunLengths(lengths, r)) = many
    <3> DEFINE q == [k \in 1..many |-> value]
    <3> HIDE DEF many, value
    <3>1. q \in Seq({value}) /\ Len(q) = many
      <4>1. q = [k \in 1..many |-> q[k]] /\ \A k \in 1..many : q[k] \in {value}
        OBVIOUS
      <4> HIDE DEF q
      <4>2. QED
        BY <2>4, <4>1, ASequence
    <3>2. QED
      BY <2>5, <3>1
  <2> HIDE DEF kind, n, e, value, many
  <2>7. Lies(data, p, code) /\ Lies(data, p + Len(code), e) /\ Len(z) = Len(code) + n
    <3>1. Lies(data, p, code \o e)
      BY <1>8, <2>1
    <3>0. p \in Nat /\ code \in Seq(Bit) /\ e \in Seq(Bit)
      BY <1>0, <1>2, <2>3
    <3>2. Lies(data, p, code) /\ Lies(data, p + Len(code), e) /\ Len(code \o e) = Len(code) + Len(e)
      BY <3>0, <3>1, LiesSplit
    <3>3. QED
      BY <2>1, <2>3, <3>2
  <2>8. ASSUME NEW w \in Decode(data, tree, reader)
        PROVE  /\ Outcome(w) = Repeated(w, kind, value)
               /\ ReaderOK(data, w.reader) /\ Position(w.reader) = p + Len(code)
    <3>1. w.symbol = s /\ ReaderOK(data, w.reader) /\ Position(w.reader) = p + Len(code)
      BY <1>4, <2>7
    <3>2. w.symbol \in 0..(MaxCodeBits + 3)
      BY <1>1, <3>1 DEF M
    <3>3. Outcome(w) = Repeated(w, kind, value)
      <4>1. CASE kind = 1
        <5>1. w.symbol = MaxCodeBits + 1 /\ lengths # <<>> /\ value = prev
          BY <2>1, <3>1, <4>1 DEF M, s, value
        <5>2. QED
          BY <3>2, <4>1, <5>1, OutcomeIs
      <4>2. CASE kind = 2
        <5>1. w.symbol = MaxCodeBits + 2 /\ value = 0
          BY <2>1, <3>1, <4>2 DEF M, value
        <5>2. QED
          BY <3>2, <4>2, <5>1, OutcomeIs
      <4>3. CASE kind = 3
        <5>1. w.symbol = MaxCodeBits + 3 /\ value = 0
          BY <2>1, <3>1, <4>3 DEF M, value
        <5>2. QED
          BY <3>2, <4>3, <5>1, OutcomeIs
      <4>4. QED
        BY <2>1, <4>1, <4>2, <4>3
    <3>4. QED
      BY <3>1, <3>3
  <2>9. ASSUME NEW w \in Decode(data, tree, reader)
        PROVE  /\ \A x \in Repeated(w, kind, value) :
                     /\ x.lengths = lengths \o RunLengths(lengths, r) /\ x.prev = prev
                     /\ Along(x.reader, Len(z))
               /\ p + Len(z) <= Len(data) /\ Len(lengths) + Len(RunLengths(lengths, r)) <= Wanted
                  => Repeated(w, kind, value) # {}
    <3>1. ReaderOK(data, w.reader) /\ Position(w.reader) = p + Len(code)
      BY <2>8
    <3>2. r.extra < 2^Repeat[kind].bits /\ Lies(data, Position(w.reader), LowFirst(r.extra, Repeat[kind].bits))
      BY <2>1, <2>7, <3>1 DEF n, e
    <3>3. /\ \A x \in Repeated(w, kind, value) :
               /\ x.lengths = lengths \o [k \in 1..many |-> value] /\ x.prev = prev
               /\ ReaderOK(data, x.reader) /\ Position(x.reader) = Position(w.reader) + n
          /\ Position(w.reader) + n <= Len(data) /\ Len(lengths) + many <= Wanted => Repeated(w, kind, value) # {}
      BY <2>1, <3>1, <3>2, RepeatedIs DEF n, many
    <3>4. Position(w.reader) + n = p + Len(z)
      BY <1>0, <1>2, <2>2, <2>7, <3>1
    <3>5. QED
      BY <2>5, <2>6, <3>3, <3>4 DEF Along, p
  <2>10. ASSUME NEW x \in CodeLength
         PROVE  x.lengths = lengths \o RunLengths(lengths, r) /\ Along(x.reader, Len(z)) /\ x.prev = prev
    <3>1. PICK w \in Decode(data, tree, reader) : x \in Repeated(w, kind, value)
      BY <1>6, <2>8
    <3>2. QED
      BY <2>9, <3>1
  <2>11. ASSUME p + Len(z) <= Len(data), instructions \in Nat, instructions < MaxInstructions,
                Len(lengths) + Len(RunLengths(lengths, r)) <= Wanted
         PROVE  CodeLength # {}
    <3>1. p + Len(code) <= Len(data)
      BY <1>0, <1>2, <2>2, <2>7, <2>11
    <3>2. PICK w \in Decode(data, tree, reader) : TRUE
      BY <1>4, <2>7, <3>1
    <3>3. Outcome(w) # {}
      BY <2>8, <2>9, <2>11
    <3>4. QED
      BY <1>7, <2>11, <3>2, <3>3
  <2>12. QED
    BY <2>1, <2>10, <2>11 DEF p, s, M, z
<1>11. QED
  BY <1>0, <1>1, <1>9, <1>10

\* The next symbol, where its code lies.
LEMMA SymbolIs ==
    ASSUME Reading, NEW l \in Lengths, IsCode(l), NEW s \in Used(l), decoders.literal = Tree(l),
           Lies(data, Position(reader), Code(l, s))
    PROVE  /\ \A w \in Symbol : w.symbol = s /\ Along(w.reader, Len(Code(l, s)))
           /\ /\ Position(reader) + Len(Code(l, s)) <= Len(data) /\ instructions \in Nat /\ instructions < MaxInstructions
              => Symbol # {}
           /\ s \in Nat
PROOF
<1>1. Whole8(data) /\ ReaderOK(data, reader)
  BY ReadingIs
<1>2. /\ \A w \in Decode(data, Tree(l), reader) :
             w.symbol = s /\ ReaderOK(data, w.reader) /\ Position(w.reader) = Position(reader) + Len(Code(l, s))
      /\ Position(reader) + Len(Code(l, s)) <= Len(data) => Decode(data, Tree(l), reader) # {}
  BY <1>1, DecodeIs
<1>3. \A w \in Symbol : w \in Decode(data, Tree(l), reader)
  BY DEF Symbol
<1>4. instructions \in Nat /\ instructions < MaxInstructions => Symbol = Decode(data, Tree(l), reader)
  BY Parameters DEF Symbol
<1>5. s \in Nat
  BY UsedIs
<1>6. QED
  BY <1>2, <1>3, <1>4, <1>5 DEF Along

\* A literal is taken for itself, and for nothing else.
LEMMA LiteralIs ==
    ASSUME Reading, NEW l \in Lengths, IsCode(l), NEW s \in Used(l), s \in 0..(NumLiterals - 1), decoders.literal = Tree(l),
           Lies(data, Position(reader), Code(l, s))
    PROVE  /\ \A w \in LiteralSymbol : w.symbol = s /\ Along(w.reader, Len(Code(l, s)))
           /\ SkippedMatch = {} /\ LastSymbol = {}
           /\ /\ Position(reader) + Len(Code(l, s)) <= Len(data) /\ instructions \in Nat /\ instructions < MaxInstructions
              /\ Fits(1)
              => LiteralSymbol # {}
PROOF
<1>1. /\ \A w \in Symbol : w.symbol = s /\ Along(w.reader, Len(Code(l, s)))
      /\ /\ Position(reader) + Len(Code(l, s)) <= Len(data) /\ instructions \in Nat /\ instructions < MaxInstructions
         => Symbol # {}
  BY SymbolIs
<1>2. NumLiterals \in Nat
  BY Parameters
<1>3. SkippedMatch = {}
  <2>1. \A w \in Symbol : w.symbol \notin (NumLiterals + 1)..(NumLiterals + Len(LengthExtra))
    BY <1>1, <1>2
  <2>2. QED
    BY <2>1 DEF SkippedMatch, Then
<1>4. LastSymbol = {}
  BY <1>1, <1>2 DEF LastSymbol, EndOfBlock
<1>5. Symbol # {} /\ Fits(1) => LiteralSymbol # {}
  BY <1>1 DEF LiteralSymbol
<1>6. \A w \in LiteralSymbol : w \in Symbol
  BY DEF LiteralSymbol
<1>7. QED
  BY <1>1, <1>3, <1>4, <1>5, <1>6

\* So is the end of the block.
LEMMA EndIs ==
    ASSUME Reading, NEW l \in Lengths, IsCode(l), EndOfBlock \in Used(l), decoders.literal = Tree(l),
           Lies(data, Position(reader), Code(l, EndOfBlock))
    PROVE  /\ \A w \in LastSymbol : Along(w.reader, Len(Code(l, EndOfBlock)))
           /\ SkippedMatch = {} /\ LiteralSymbol = {}
           /\ /\ Position(reader) + Len(Code(l, EndOfBlock)) <= Len(data) /\ instructions \in Nat /\ instructions < MaxInstructions
              => LastSymbol # {}
PROOF
<1> DEFINE s == EndOfBlock
<1>1. /\ \A w \in Symbol : w.symbol = s /\ Along(w.reader, Len(Code(l, s)))
      /\ /\ Position(reader) + Len(Code(l, s)) <= Len(data) /\ instructions \in Nat /\ instructions < MaxInstructions
         => Symbol # {}
  BY SymbolIs
<1>2. NumLiterals \in Nat /\ s = NumLiterals
  BY Parameters DEF EndOfBlock
<1>3. SkippedMatch = {}
  <2>1. \A w \in Symbol : w.symbol \notin (NumLiterals + 1)..(NumLiterals + Len(LengthExtra))
    BY <1>1, <1>2
  <2>2. QED
    BY <2>1 DEF SkippedMatch, Then
<1>4. LiteralSymbol = {}
  BY <1>1, <1>2 DEF LiteralSymbol
<1>5. LastSymbol = Symbol
  BY <1>1 DEF LastSymbol
<1>6. QED
  BY <1>1, <1>3, <1>4, <1>5

\* A match is skipped: its symbol, its extra bits, the distance and its own.
LEMMA MatchIs ==
    ASSUME Reading, NEW l \in Lengths, IsCode(l), NEW t \in Lengths, IsCode(t), decoders.literal = Tree(l), decoders.distance = Tree(t),
           NEW k, IsToken(k, l, t), "lit" \notin DOMAIN k, Lies(data, Position(reader), EncodeToken(k, l, t))
    PROVE  /\ \A m \in SkippedMatch : Along(m.reader, Len(EncodeToken(k, l, t)))
           /\ LiteralSymbol = {} /\ LastSymbol = {}
           /\ /\ Position(reader) + Len(EncodeToken(k, l, t)) <= Len(data) /\ instructions \in Nat /\ instructions < MaxInstructions
              => SkippedMatch # {}
PROOF
<1> DEFINE p == Position(reader)
           s == EndOfBlock + 1 + k.match
           z == EncodeToken(k, l, t)
           n == LengthExtra[k.match + 1]
           m == DistanceExtra[k.dist + 1]
           a == Code(l, s)
           b == LowFirst(k.extra, n)
           c == Code(t, k.dist)
           e == LowFirst(k.dextra, m)
           ab == a \o b
           abc == ab \o c
<1>0. /\ Whole8(data) /\ data \in Seq(Bit) /\ ReaderOK(data, reader) /\ p \in Nat /\ Len(data) \in Nat
      /\ NumLiterals \in Nat
  BY ReadingIs, Parameters
<1>1. /\ k.match \in 0..(Len(LengthExtra) - 1) /\ s \in Used(l)
      /\ k.dist \in 0..(Len(DistanceExtra) - 1) /\ k.dist \in Used(t)
      /\ k.extra \in Nat /\ k.dextra \in Nat
      /\ n \in Nat /\ n <= WordBits - 8
      /\ m \in Nat /\ m <= WordBits - 8
      /\ z = abc \o e
  BY TokenType
<1>2. Len(LengthExtra) \in Nat /\ DOMAIN DistanceExtra = 1..Len(DistanceExtra) /\ Len(DistanceExtra) \in Nat
  BY Widths
<1>3. /\ s = NumLiterals + 1 + k.match /\ s \in Nat /\ s - NumLiterals = k.match + 1
      /\ s \in (NumLiterals + 1)..(NumLiterals + Len(LengthExtra)) /\ s \notin 0..(NumLiterals - 1) /\ s # EndOfBlock
      /\ k.dist + 1 \in DOMAIN DistanceExtra
  <2>1. s = NumLiterals + 1 + k.match
    BY DEF EndOfBlock
  <2> DEFINE i == k.match
             u == Len(LengthExtra)
  <2>2. i \in Nat /\ i <= u - 1 /\ u \in Nat
    BY <1>1, <1>2
  <2>3. k.dist + 1 \in DOMAIN DistanceExtra
    BY <1>1, <1>2
  <2>4. s = NumLiterals + 1 + i
    BY <2>1
  <2> HIDE DEF s, i, u
  <2>5. s \in Nat /\ s - NumLiterals = i + 1 /\ s # NumLiterals
    BY <1>0, <2>2, <2>4
  <2>6. s \in (NumLiterals + 1)..(NumLiterals + u) /\ s \notin 0..(NumLiterals - 1)
    BY <1>0, <2>2, <2>4
  <2>7. QED
    BY <2>3, <2>4, <2>5, <2>6 DEF EndOfBlock, i, u
<1>4. a \in Seq(Bit) /\ b \in Seq(Bit) /\ c \in Seq(Bit) /\ e \in Seq(Bit) /\ Len(b) = n /\ Len(e) = m
  <2>1. a \in Seq(Bit) /\ c \in Seq(Bit)
    BY <1>1, CodeIs
  <2>2. b \in Seq(Bit) /\ e \in Seq(Bit) /\ Len(b) = n /\ Len(e) = m
    BY <1>1, LowFirstType
  <2>3. QED
    BY <2>1, <2>2
<1>5. Lies(data, p, z)
  OBVIOUS
<1>6. SkippedMatch = Then({w \in Symbol : w.symbol \in (NumLiterals + 1)..(NumLiterals + Len(LengthExtra))}, Match)
  BY DEF SkippedMatch
<1> HIDE DEF p, s, z, n, m, a, b, c, e, ab, abc
<1>7. ab \in Seq(Bit) /\ abc \in Seq(Bit)
  <2>1. ab \in Seq(Bit)
    BY <1>4, Joined DEF ab
  <2>2. abc \in Seq(Bit)
    BY <1>4, <2>1, Joined DEF abc
  <2>3. QED
    BY <2>1, <2>2
<1>8. Lies(data, p, abc) /\ Len(z) = Len(abc) + Len(e)
  <2>1. p \in Nat /\ abc \in Seq(Bit) /\ e \in Seq(Bit)
    BY <1>0, <1>4, <1>7
  <2>2. Lies(data, p, abc \o e)
    BY <1>1, <1>5
  <2>3. Lies(data, p, abc) /\ Len(abc \o e) = Len(abc) + Len(e)
    BY <2>1, <2>2, LiesSplit
  <2>4. QED
    BY <1>1, <2>3
<1>9. Lies(data, p, ab) /\ Lies(data, p + Len(ab), c) /\ Len(abc) = Len(ab) + Len(c)
  <2>1. p \in Nat /\ ab \in Seq(Bit) /\ c \in Seq(Bit)
    BY <1>0, <1>4, <1>7
  <2>2. Lies(data, p, ab \o c)
    BY <1>8 DEF abc
  <2>3. QED
    BY <2>1, <2>2, LiesSplit DEF abc
<1>10. Lies(data, p, a) /\ Len(ab) = Len(a) + Len(b)
  <2>1. p \in Nat /\ a \in Seq(Bit) /\ b \in Seq(Bit)
    BY <1>0, <1>4
  <2>2. Lies(data, p, a \o b)
    BY <1>9 DEF ab
  <2>3. QED
    BY <2>1, <2>2, LiesSplit DEF ab
<1> DEFINE la == Len(a)
           lc == Len(c)
           lz == Len(z)
<1>11. /\ la \in Nat /\ lc \in Nat /\ lz = la + n + lc + m /\ p + Len(ab) = p + la + n
  <2>1. la \in Nat /\ lc \in Nat
    BY <1>4
  <2> HIDE DEF la, lc, lz
  <2>2. Len(ab) = la + n /\ Len(abc) = Len(ab) + lc /\ lz = Len(abc) + m
    BY <1>4, <1>8, <1>9, <1>10 DEF la, lc, lz
  <2>3. QED
    BY <1>0, <1>1, <2>1, <2>2
<1> HIDE DEF la, lc, lz
<1>12. /\ \A w \in Symbol : w.symbol = s /\ ReaderOK(data, w.reader) /\ Position(w.reader) = p + la
       /\ p + la <= Len(data) /\ instructions \in Nat /\ instructions < MaxInstructions => Symbol # {}
  BY <1>1, <1>10, SymbolIs DEF Along, p, a, la
<1>13. ASSUME NEW w \in Symbol
       PROVE  Match(w) = Then(ReadBits(data, w.reader, n), LAMBDA i :
                         Then(Decode(data, Tree(t), i.reader), LAMBDA j :
                         IF j.symbol + 1 \in DOMAIN DistanceExtra
                         THEN ReadBits(data, j.reader, DistanceExtra[j.symbol + 1]) ELSE {}))
  <2>1. LengthExtra[w.symbol - NumLiterals] = n
    BY <1>3, <1>12 DEF n
  <2>2. decoders.distance = Tree(t)
    OBVIOUS
  <2> DEFINE Skipped(extra, tree) ==
                Then(ReadBits(data, w.reader, extra), LAMBDA i :
                Then(Decode(data, tree, i.reader), LAMBDA j :
                IF j.symbol + 1 \in DOMAIN DistanceExtra
                THEN ReadBits(data, j.reader, DistanceExtra[j.symbol + 1]) ELSE {}))
  <2>3. Match(w) = Skipped(LengthExtra[w.symbol - NumLiterals], decoders.distance)
    BY Zenon DEF Match
  <2> HIDE DEF Skipped
  <2>4. Match(w) = Skipped(n, Tree(t))
    BY <2>1, <2>2, <2>3
  <2>5. QED
    BY <2>4, Zenon DEF Skipped
<1>14. ASSUME NEW w \in Symbol
       PROVE  /\ \A i \in ReadBits(data, w.reader, n) : ReaderOK(data, i.reader) /\ Position(i.reader) = p + la + n
              /\ p + la + n <= Len(data) => ReadBits(data, w.reader, n) # {}
  <2>1. ReaderOK(data, w.reader) /\ Position(w.reader) = p + la
    BY <1>12
  <2>2. QED
    BY <1>0, <1>1, <2>1, SkipIs
<1>15. ASSUME NEW w \in Symbol, NEW i \in ReadBits(data, w.reader, n)
       PROVE  /\ \A j \in Decode(data, Tree(t), i.reader) :
                   j.symbol = k.dist /\ ReaderOK(data, j.reader) /\ Position(j.reader) = p + la + n + lc
              /\ p + la + n + lc <= Len(data) => Decode(data, Tree(t), i.reader) # {}
  <2>1. ReaderOK(data, i.reader) /\ Position(i.reader) = p + la + n
    BY <1>14
  <2>2. Lies(data, Position(i.reader), Code(t, k.dist))
    BY <1>9, <1>11, <2>1 DEF c
  <2>3. QED
    BY <1>0, <1>1, <2>1, <2>2, DecodeIs DEF c, lc
<1>16. ASSUME NEW w \in Symbol, NEW i \in ReadBits(data, w.reader, n), NEW j \in Decode(data, Tree(t), i.reader)
       PROVE  /\ j.symbol + 1 \in DOMAIN DistanceExtra /\ DistanceExtra[j.symbol + 1] = m
              /\ \A x \in ReadBits(data, j.reader, m) : ReaderOK(data, x.reader) /\ Position(x.reader) = p + lz
              /\ p + lz <= Len(data) => ReadBits(data, j.reader, m) # {}
  <2>1. j.symbol = k.dist /\ ReaderOK(data, j.reader) /\ Position(j.reader) = p + la + n + lc
    BY <1>15
  <2>2. /\ \A x \in ReadBits(data, j.reader, m) : ReaderOK(data, x.reader) /\ Position(x.reader) = Position(j.reader) + m
        /\ Position(j.reader) + m <= Len(data) => ReadBits(data, j.reader, m) # {}
    BY <1>0, <1>1, <2>1, SkipIs
  <2>3. Position(j.reader) + m = p + lz
    BY <1>0, <1>1, <1>11, <2>1
  <2>4. QED
    BY <1>3, <2>1, <2>2, <2>3 DEF m
<1>17. LiteralSymbol = {} /\ LastSymbol = {}
  BY <1>3, <1>12 DEF LiteralSymbol, LastSymbol
<1>18. ASSUME NEW x \in SkippedMatch PROVE Along(x.reader, lz)
  <2>1. PICK w \in Symbol : x \in Match(w)
    BY <1>6 DEF Then
  <2>2. PICK i \in ReadBits(data, w.reader, n) : x \in
              Then(Decode(data, Tree(t), i.reader), LAMBDA j :
              IF j.symbol + 1 \in DOMAIN DistanceExtra
              THEN ReadBits(data, j.reader, DistanceExtra[j.symbol + 1]) ELSE {})
    BY <1>13, <2>1 DEF Then
  <2>3. PICK j \in Decode(data, Tree(t), i.reader) :
              x \in IF j.symbol + 1 \in DOMAIN DistanceExtra
                    THEN ReadBits(data, j.reader, DistanceExtra[j.symbol + 1]) ELSE {}
    BY <2>2 DEF Then
  <2>4. x \in ReadBits(data, j.reader, m)
    BY <1>16, <2>3
  <2>5. QED
    BY <1>16, <2>4 DEF Along, p
<1>19. ASSUME p + lz <= Len(data), instructions \in Nat, instructions < MaxInstructions PROVE SkippedMatch # {}
  <2>1. p + la <= Len(data) /\ p + la + n <= Len(data) /\ p + la + n + lc <= Len(data)
    BY <1>0, <1>1, <1>11, <1>19
  <2>2. PICK w \in Symbol : TRUE
    BY <1>12, <1>19, <2>1
  <2>3. PICK i \in ReadBits(data, w.reader, n) : TRUE
    BY <1>14, <2>1
  <2>4. PICK j \in Decode(data, Tree(t), i.reader) : TRUE
    BY <1>15, <2>1
  <2>5. PICK x \in ReadBits(data, j.reader, m) : TRUE
    BY <1>16, <1>19
  <2>6. x \in Match(w)
    BY <1>13, <1>16, <2>5 DEF Then
  <2>7. w.symbol \in (NumLiterals + 1)..(NumLiterals + Len(LengthExtra))
    BY <1>3, <1>12
  <2>8. x \in SkippedMatch
    BY <1>6, <2>6, <2>7 DEF Then
  <2>9. QED
    BY <2>8
<1>20. QED
  BY <1>17, <1>18, <1>19 DEF lz, z, p

\* The trailer, from the next whole byte on.
LEMMA TrailerIs ==
    ASSUME Reading, NEW at, at = Position(reader) + Pad(Position(reader)),
           NEW crc, AreHalves(crc), NEW isize, AreHalves(isize),
           Lies(data, at, LowFirst(crc[1], 16)), Lies(data, at + 16, LowFirst(crc[2], 16)),
           Lies(data, at + 32, LowFirst(isize[1], 16)), Lies(data, at + 48, LowFirst(isize[2], 16))
    PROVE  /\ \A t \in Trailer : t.crc = crc /\ t.isize = isize /\ ReaderOK(data, t.reader) /\ Position(t.reader) = at + 64
           /\ at + 64 <= Len(data) => Trailer # {}
PROOF
<1> DEFINE p == Position(reader)
           c1 == crc[1]
           c2 == crc[2]
           i1 == isize[1]
           i2 == isize[2]
<1>0. Whole8(data) /\ data \in Seq(Bit) /\ ReaderOK(data, reader) /\ p \in Nat /\ Len(data) \in Nat
  BY ReadingIs
<1>1. /\ c1 \in Nat /\ c1 < 2^16 /\ c2 \in Nat /\ c2 < 2^16 /\ i1 \in Nat /\ i1 < 2^16 /\ i2 \in Nat /\ i2 < 2^16
  BY Halves
<1>2. at \in Nat /\ at % 8 = 0 /\ at = p + Pad(p) /\ Pad(p) \in Nat
  <2> HIDE DEF p
  <2>1. Pad(p) \in Nat /\ (p + Pad(p)) % 8 = 0
    BY <1>0, PadIs
  <2>2. at = p + Pad(p)
    BY DEF p
  <2> DEFINE q == Pad(p)
  <2>3. q \in Nat /\ (p + q) % 8 = 0 /\ at = p + q /\ p \in Nat
    BY <1>0, <2>1, <2>2
  <2> HIDE DEF q
  <2>4. at \in Nat /\ at % 8 = 0 /\ at = p + q
    BY <2>3
  <2>5. QED
    BY <2>3, <2>4 DEF q
<1>3. /\ Lies(data, at, LowFirst(c1, 16)) /\ Lies(data, at + 16, LowFirst(c2, 16))
      /\ Lies(data, at + 32, LowFirst(i1, 16)) /\ Lies(data, at + 48, LowFirst(i2, 16))
  OBVIOUS
<1>4. (at + 32) + 16 = at + 48 /\ (at + 32) + 32 = at + 64 /\ (at + 32) % 8 = 0
  BY <1>2
<1>5. crc = <<c1, c2>> /\ isize = <<i1, i2>>
  BY Halves
<1> HIDE DEF p, c1, c2, i1, i2
<1>6. ASSUME NEW r \in AlignToByte(data, reader)
      PROVE  ReaderOK(data, r) /\ Position(r) = at /\ r.bit_pos = 0
  BY <1>0, <1>2, AlignIs DEF p
<1>7. ASSUME NEW r \in AlignToByte(data, reader)
      PROVE  /\ \A c \in ReadU32(data, r) : ReaderOK(data, c.reader) /\ Position(c.reader) = at + 32 /\ c.value = <<c1, c2>>
             /\ at + 32 <= Len(data) => ReadU32(data, r) # {}
  BY <1>0, <1>1, <1>3, <1>6, ReadU32Is
<1>8. ASSUME NEW r \in AlignToByte(data, reader), NEW c \in ReadU32(data, r)
      PROVE  /\ \A i \in ReadU32(data, c.reader) :
                   ReaderOK(data, i.reader) /\ Position(i.reader) = at + 64 /\ i.value = <<i1, i2>>
             /\ at + 64 <= Len(data) => ReadU32(data, c.reader) # {}
  <2>1. ReaderOK(data, c.reader) /\ Position(c.reader) = at + 32
    BY <1>7
  <2>2. c.reader.bit_pos = 0
    BY <1>0, <1>4, <2>1, OnByte
  <2>3. Lies(data, Position(c.reader), LowFirst(i1, 16)) /\ Lies(data, Position(c.reader) + 16, LowFirst(i2, 16))
    BY <1>3, <1>4, <2>1
  <2>4. /\ \A i \in ReadU32(data, c.reader) :
             ReaderOK(data, i.reader) /\ Position(i.reader) = Position(c.reader) + 32 /\ i.value = <<i1, i2>>
        /\ Position(c.reader) + 32 <= Len(data) => ReadU32(data, c.reader) # {}
    BY <1>0, <1>1, <2>1, <2>2, <2>3, ReadU32Is
  <2>5. QED
    BY <1>4, <2>1, <2>4
<1>9. ASSUME NEW t \in Trailer
      PROVE  t.crc = crc /\ t.isize = isize /\ ReaderOK(data, t.reader) /\ Position(t.reader) = at + 64
  <2>1. PICK r \in AlignToByte(data, reader) : t \in
           Then(ReadU32(data, r), LAMBDA c :
           Then(ReadU32(data, c.reader), LAMBDA i :
           {[reader |-> i.reader, crc |-> c.value, isize |-> i.value]}))
    BY DEF Trailer, Then
  <2>2. PICK c \in ReadU32(data, r) : t \in
           Then(ReadU32(data, c.reader), LAMBDA i : {[reader |-> i.reader, crc |-> c.value, isize |-> i.value]})
    BY <2>1 DEF Then
  <2>3. PICK i \in ReadU32(data, c.reader) : t = [reader |-> i.reader, crc |-> c.value, isize |-> i.value]
    BY <2>2 DEF Then
  <2>4. QED
    BY <1>5, <1>7, <1>8, <2>3
<1>10. ASSUME at + 64 <= Len(data) PROVE Trailer # {}
  <2> DEFINE len == Len(data)
  <2>0. len \in Nat /\ at \in Nat /\ at + 64 <= len
    BY <1>0, <1>2, <1>10
  <2> HIDE DEF len
  <2>a. at <= len /\ at + 32 <= len
    BY <2>0
  <2>1. at <= Len(data) /\ at + 32 <= Len(data)
    BY <2>a DEF len
  <2>2. PICK r \in AlignToByte(data, reader) : TRUE
    BY <1>0, <1>2, <2>1, AlignIs DEF p
  <2>3. PICK c \in ReadU32(data, r) : TRUE
    BY <1>7, <2>1
  <2>4. PICK i \in ReadU32(data, c.reader) : TRUE
    BY <1>8, <1>10
  <2>5. [reader |-> i.reader, crc |-> c.value, isize |-> i.value] \in Trailer
    BY DEF Trailer, Then
  <2>6. QED
    BY <2>5
<1>11. QED
  BY <1>9, <1>10

-----------------------------------------------------------------------------
(* Where the decoder stands in a member it reads.                          *)

\* The codes of a block's tokens, the bits before its runs and its tokens.
LiteralLengths(b) == IF b.kind = "fixed" THEN FixedLiterals ELSE Literals(b)
DistanceLengths(b) == IF b.kind = "fixed" THEN FixedDistances ELSE Distances(b)

RunsStart(b) == 3 + (SizesHead + CodeLenBits * b.hclen)
TokensStart(b) == IF b.kind = "fixed" THEN 3 ELSE RunsStart(b) + Len(FlattenSeq(RunCodes(b.runs, b.codelens)))

\* The block in progress, and where it starts.
Now(s) == s.blocks[Len(blocks) + 1]
Start(s) == s.extents[Len(blocks) + 1].start

IsLastBlock(s) == Len(blocks) + 1 = Len(s.blocks)

Stands(s, n) == Position(reader) = Start(s) + n

Entered(s) ==
    /\ Len(blocks) < Len(s.blocks)
    /\ block.start = Start(s) /\ block.final = IsLastBlock(s)

SizesOf(b) == sizes = [hlit |-> b.hlit, hdist |-> b.hdist, hclen |-> b.hclen]

AtBlock(s) == Len(blocks) < Len(s.blocks) /\ Stands(s, 0)

AtStored(s) == Entered(s) /\ Now(s).kind = "stored" /\ Stands(s, 3)

AtSizes(s) == Entered(s) /\ Now(s).kind = "dynamic" /\ Stands(s, 3) /\ block.literals = <<>>

AtCodelens(s) ==
    /\ Entered(s) /\ Now(s).kind = "dynamic" /\ block.literals = <<>> /\ SizesOf(Now(s))
    /\ \A i \in 1..Len(codelens) : codelens[i] = Now(s).codelens[HclenOrder[i] + 1]
    /\ Stands(s, 3 + (SizesHead + CodeLenBits * Len(codelens)))

\* What a repeat of the previous length repeats is the last length.
AtLengths(s) ==
    LET b == Now(s)
    IN  /\ Entered(s) /\ b.kind = "dynamic" /\ block.literals = <<>> /\ SizesOf(b)
        /\ decoders.code_length = Tree(b.codelens)
        /\ instructions <= Len(b.runs) /\ lengths = UpToRun(b.runs)[instructions]
        /\ instructions >= 1 /\ b.runs[instructions].symbol <= MaxCodeBits + 1 => prev = Last(lengths)
        /\ Stands(s, RunsStart(b) + RunBits(b.runs, b.codelens, instructions))

AtSymbols(s) ==
    LET b == Now(s)
    IN  /\ Entered(s) /\ b.kind # "stored"
        /\ decoders.literal = Tree(LiteralLengths(b)) /\ decoders.distance = Tree(DistanceLengths(b))
        /\ instructions <= Len(b.tokens) /\ block.literals = FlatTo(TokenBytes(b.tokens), instructions)
        /\ Stands(s, TokensStart(b) + TokenBits(b.tokens, LiteralLengths(b), DistanceLengths(b), instructions))

AtTrailer(s) == Len(blocks) = Len(s.blocks) /\ Position(reader) = BlocksEnd(s)

Place(s) ==
    /\ phase = "block" => AtBlock(s)
    /\ phase = "stored" => AtStored(s)
    /\ phase = "sizes" => AtSizes(s)
    /\ phase = "codelens" => AtCodelens(s)
    /\ phase = "lengths" => AtLengths(s)
    /\ phase = "symbols" => AtSymbols(s)
    /\ phase = "trailer" /\ status # "ok" => AtTrailer(s)

\* The finished blocks are the first ones of the member.
Finished(s) ==
    /\ Begins(data, s.bits) /\ Len(blocks) <= Len(s.blocks)
    /\ \A i \in 1..Len(blocks) : blocks[i] = s.extents[i]

\* A match among the first n tokens of a block, and in a finished block.
MatchIn(b, n) == b.kind # "stored" /\ \E t \in 1..n : "match" \in DOMAIN b.tokens[t]
MatchBefore(s) == \E i \in 1..Len(blocks) : MatchIn(s.blocks[i], Len(s.blocks[i].tokens))

Matches(s) == had_matches <=> (MatchBefore(s) \/ (phase = "symbols" /\ MatchIn(Now(s), instructions)))

\* How it ends.
Ends(s) ==
    /\ status = "ok" => /\ phase = "trailer" /\ Len(blocks) = Len(s.blocks) /\ Position(reader) = Len(s.bits)
                        /\ trailer = {[crc |-> s.crc, isize |-> s.isize]}
    /\ status = "error" /\ data = s.bits => ExceedsLimits(s)

Follows(s) == Finished(s) /\ Place(s) /\ Matches(s) /\ Ends(s)

\* The decoders are a record that has one for the code lengths.
Formed == "code_length" \in DOMAIN decoders

DInv ==
    /\ IInv /\ Formed /\ total = LiteralsOf(blocks)
    /\ \A s \in source : IsMember(s) /\ (Regular(s) => Follows(s))

-----------------------------------------------------------------------------
(* Literals counted.                                                       *)

\* One block more counts its literals.
LEMMA LiteralsOfMore ==
    ASSUME NEW x \in Seq(BlockType), NEW e \in BlockType
    PROVE  LiteralsOf(x) \in Nat /\ LiteralsOf(Append(x, e)) = LiteralsOf(x) + Len(e.literals) /\ Len(e.literals) \in Nat
PROOF
<1> DEFINE q == [i \in DOMAIN x |-> Len(x[i].literals)]
           y == Append(x, e)
           r == [i \in DOMAIN y |-> Len(y[i].literals)]
           n == Len(e.literals)
<1>1. /\ y \in Seq(BlockType) /\ Len(x) \in Nat /\ Len(y) = Len(x) + 1 /\ DOMAIN x = 1..Len(x)
      /\ DOMAIN y = 1..(Len(x) + 1) /\ y[Len(x) + 1] = e /\ \A i \in 1..Len(x) : y[i] = x[i]
  BY Appended
<1>2. \A z \in BlockType : z.literals \in Seq(Nat)
  BY DEF BlockType
<1>3. n \in Nat
  BY <1>2
<1>4. q \in Seq(Nat) /\ Len(q) = Len(x)
  <2>1. \A i \in 1..Len(x) : Len(x[i].literals) \in Nat
    BY <1>1, <1>2, ElementOfSeq
  <2>2. q = [i \in 1..Len(x) |-> q[i]] /\ \A i \in 1..Len(x) : q[i] \in Nat
    BY <1>1, <2>1
  <2> HIDE DEF q
  <2>3. QED
    BY <1>1, <2>2, ASequence
<1>5. r = Append(q, n)
  <2>1. \A i \in 1..(Len(x) + 1) : r[i] = IF i = Len(x) + 1 THEN n ELSE q[i]
    BY <1>1
  <2>2. r = [i \in 1..(Len(x) + 1) |-> r[i]]
    BY <1>1
  <2> HIDE DEF r, n, q
  <2>3. \A i \in 1..(Len(x) + 1) : Append(q, n)[i] = IF i = Len(x) + 1 THEN n ELSE q[i]
    BY <1>1, <1>3, <1>4
  <2>4. Append(q, n) = [i \in 1..(Len(x) + 1) |-> Append(q, n)[i]]
    <3> DEFINE v == Append(q, n)
    <3>1. v \in Seq(Nat) /\ Len(v) = Len(x) + 1
      BY <1>1, <1>3, <1>4, Appended
    <3> HIDE DEF v
    <3>2. v = [i \in 1..(Len(x) + 1) |-> v[i]]
      BY <3>1
    <3>3. QED
      BY <3>2 DEF v
  <2>5. QED
    BY <2>1, <2>2, <2>3, <2>4
<1>6. LiteralsOf(x) = SumFunction(q) /\ LiteralsOf(y) = SumFunction(r)
  BY DEF LiteralsOf
<1> HIDE DEF q, r, n
<1>7. SumFunction(r) = SumFunction(q) + n /\ SumFunction(q) \in Nat
  BY <1>3, <1>4, <1>5, SumAppend, SumSeqType
<1>8. QED
  BY <1>3, <1>6, <1>7 DEF n

\* The first blocks and the next one count no more than all of them.
LEMMA LiteralsOfFirst ==
    ASSUME NEW x \in Seq(BlockType), NEW y \in Seq(BlockType), NEW k, k = Len(x) + 1, k <= Len(y),
           \A i \in 1..Len(x) : x[i] = y[i]
    PROVE  LiteralsOf(x) + Len(y[k].literals) <= LiteralsOf(y) /\ LiteralsOf(y) \in Nat
PROOF
<1> DEFINE z == Append(x, y[k])
           h == [i \in DOMAIN y |-> Len(y[i].literals)]
           g == [i \in DOMAIN z |-> Len(z[i].literals)]
<1>1. Len(x) \in Nat /\ Len(y) \in Nat /\ DOMAIN y = 1..Len(y) /\ k \in 1..Len(y)
  OBVIOUS
<1>2. y[k] \in BlockType
  BY <1>1, ElementOfSeq
<1>3. /\ z \in Seq(BlockType) /\ DOMAIN z = 1..k /\ \A i \in 1..k : z[i] = y[i]
  <2>1. /\ z \in Seq(BlockType) /\ DOMAIN z = 1..(Len(x) + 1) /\ z[Len(x) + 1] = y[k]
        /\ \A i \in 1..Len(x) : z[i] = x[i]
    BY <1>2, Appended
  <2> HIDE DEF z
  <2>2. ASSUME NEW i \in 1..k PROVE z[i] = y[i]
    <3>1. i = k \/ i \in 1..Len(x)
      BY <1>1
    <3>2. QED
      BY <2>1, <3>1
  <2>3. QED
    BY <2>1, <2>2
<1>4. \A i \in 1..Len(y) : h[i] \in Nat
  <2>1. \A b \in BlockType : b.literals \in Seq(Nat)
    BY DEF BlockType
  <2>2. \A i \in 1..Len(y) : Len(y[i].literals) \in Nat
    BY <1>1, <2>1, ElementOfSeq
  <2>3. QED
    BY <1>1, <2>2
<1>5. \A i \in 1..k : g[i] = h[i]
  BY <1>1, <1>3
<1>6. DOMAIN g = 1..k /\ DOMAIN h = 1..Len(y)
  BY <1>1, <1>3
<1>7. LiteralsOf(y) = SumFunction(h) /\ LiteralsOf(z) = SumFunction(g)
  BY DEF LiteralsOf
<1>8. LiteralsOf(z) = LiteralsOf(x) + Len(y[k].literals)
  BY <1>2, LiteralsOfMore, Zenon
<1> HIDE DEF z, h, g
<1>9. IsFiniteSet(1..k) /\ IsFiniteSet(1..Len(y)) /\ 1..k \subseteq 1..Len(y)
  <2>1. 1 \in Int /\ k \in Int /\ Len(y) \in Int /\ k <= Len(y)
    BY <1>1
  <2>2. IsFiniteSet(1..k) /\ IsFiniteSet(1..Len(y))
    BY <2>1, FS_Interval
  <2>3. QED
    BY <2>1, <2>2
<1>10. SumFunctionOnSet(g, 1..k) = SumFunctionOnSet(h, 1..k)
  BY <1>5, <1>9, SumSame
<1>11. SumFunctionOnSet(h, 1..k) <= SumFunctionOnSet(h, 1..Len(y)) /\ SumFunctionOnSet(h, 1..Len(y)) \in Nat
  BY <1>4, <1>9, SumGrows
<1>12. QED
  BY <1>6, <1>7, <1>8, <1>10, <1>11 DEF SumFunction

-----------------------------------------------------------------------------
(* What is known in a state that follows a member.                         *)

\* The bits of the block in progress.
Coded(s) == EncodeBlock(Now(s), Start(s), IsLastBlock(s))

Here(s) == IInv /\ Formed /\ total = LiteralsOf(blocks) /\ IsMember(s) /\ Regular(s) /\ Follows(s) /\ status = "running"

\* The reader, the data and the finished blocks.
LEMMA HereIs ==
    ASSUME NEW s, Here(s)
    PROVE  /\ Reading /\ Begins(data, s.bits) /\ s.bits \in Seq(Bit) /\ Len(s.bits) \in Nat
           /\ data \in Seq(Bit) /\ Len(data) \in Nat /\ Position(reader) \in Nat
           /\ blocks \in Seq(BlockType) /\ Len(blocks) \in Nat /\ Len(blocks) <= Len(s.blocks) /\ Len(s.blocks) \in Nat
           /\ s.extents \in Seq(BlockType) /\ Len(s.extents) = Len(s.blocks)
           /\ \A i \in 1..Len(blocks) : blocks[i] = s.extents[i]
           /\ instructions \in Nat /\ total = LiteralsOf(blocks)
PROOF
<1>1. Reading
  BY DEF Here, IInv, TypeOK, ReaderAgrees, Reading, Whole8, ByteStrings
<1>2. data \in Seq(Bit) /\ Len(data) \in Nat /\ Position(reader) \in Nat
  BY <1>1, ReadingIs
<1>3. Begins(data, s.bits) /\ Len(blocks) <= Len(s.blocks) /\ \A i \in 1..Len(blocks) : blocks[i] = s.extents[i]
  BY DEF Here, Follows, Finished
<1>4. /\ Len(s.blocks) \in Nat /\ s.bits \in Seq(Bit) /\ s.extents \in Seq(BlockType) /\ Len(s.extents) = Len(s.blocks)
  BY MemberIs DEF Here, Laid
<1>5. blocks \in Seq(BlockType) /\ instructions \in Nat /\ total = LiteralsOf(blocks)
  <2>1. instructions \in 0..MaxInstructions /\ blocks \in Seq(BlockType)
    BY DEF Here, IInv, TypeOK
  <2>2. QED
    BY <2>1, Parameters DEF Here
<1>6. QED
  BY <1>1, <1>2, <1>3, <1>4, <1>5

\* The block in progress and where it is.
LEMMA NowIs ==
    ASSUME NEW s, Here(s), Len(blocks) < Len(s.blocks)
    PROVE  /\ Len(blocks) + 1 \in 1..Len(s.blocks) /\ IsBlock(Now(s)) /\ Start(s) \in Nat /\ IsLastBlock(s) \in BOOLEAN
           /\ Holds(s.bits, Start(s), Coded(s)) /\ Coded(s) \in Seq(Bit) /\ Len(Coded(s)) \in Nat
           /\ s.extents[Len(blocks) + 1] = [start |-> Start(s), end |-> Start(s) + Len(Coded(s)), literals |-> LiteralBytes(Now(s))]
           /\ LiteralBytes(Now(s)) \in Seq(Nat) /\ Len(LiteralBytes(Now(s))) \in Nat
PROOF
<1> DEFINE k == Len(blocks) + 1
<1>1. k \in 1..Len(s.blocks) /\ k \in 1..Len(s.extents)
  BY HereIs
<1>2. Laid(s)
  BY MemberIs DEF Here
<1>3. InPlace(s, s.blocks, k) /\ s.extents \in Seq(BlockType)
  BY <1>1, <1>2 DEF Laid
<1>4. IsLastBlock(s) \in BOOLEAN
  BY DEF IsLastBlock
<1>5. /\ IsBlock(Now(s)) /\ Start(s) \in Nat /\ s.extents[k].end = Start(s) + Len(Coded(s))
      /\ s.extents[k].literals = LiteralBytes(Now(s)) /\ Holds(s.bits, Start(s), Coded(s))
  BY <1>3 DEF InPlace, Now, Start, Coded, IsLastBlock
<1>6. Coded(s) \in Seq(Bit) /\ Len(Coded(s)) \in Nat
  BY <1>4, <1>5, BlockBits DEF Coded
<1>7. LiteralBytes(Now(s)) \in Seq(Nat) /\ Len(LiteralBytes(Now(s))) \in Nat
  BY <1>5, LiteralsType
<1>8. s.extents[k] \in BlockType
  BY <1>1, <1>3, ElementOfSeq
<1>9. s.extents[k] = [start |-> s.extents[k].start, end |-> s.extents[k].end, literals |-> s.extents[k].literals]
  BY <1>8 DEF BlockType
<1>10. s.extents[k].start = Start(s)
  BY DEF Start
<1>11. QED
  BY <1>1, <1>4, <1>5, <1>6, <1>7, <1>9, <1>10

-----------------------------------------------------------------------------
(* Blocks that are too large.                                              *)

\* A block beyond the limits of a block makes the member exceed them.
LEMMA TooMuch ==
    ASSUME NEW s, Here(s), Len(blocks) < Len(s.blocks),
           \/ Len(LiteralBytes(Now(s))) > MaxBlockLiterals
           \/ Now(s).kind # "stored" /\ Len(Now(s).tokens) + 1 > MaxInstructions
           \/ Now(s).kind = "dynamic" /\ Len(Now(s).runs) > MaxInstructions
    PROVE  ExceedsLimits(s)
PROOF
<1> DEFINE k == Len(blocks) + 1
<1>1. AreBlocks(s.blocks)
  BY DEF Here, IsMember
<1>2. s.blocks = [i \in 1..Len(s.blocks) |-> s.blocks[i]]
  BY <1>1 DEF AreBlocks
<1>3. k \in DOMAIN s.blocks
  <2>1. DOMAIN s.blocks = 1..Len(s.blocks)
    BY <1>2
  <2>2. QED
    BY <2>1, HereIs
<1>4. Now(s) = s.blocks[k]
  BY DEF Now
<1> HIDE DEF k
<1>5. QED
  BY <1>3, <1>4 DEF ExceedsLimits

\* So does a block beyond the limit on blocks.
LEMMA TooManyBlocks ==
    ASSUME NEW s, Here(s), Len(blocks) < Len(s.blocks), ~(Len(blocks) < MaxBlocks)
    PROVE  ExceedsLimits(s)
PROOF
<1>1. Len(blocks) \in Nat /\ Len(s.blocks) \in Nat
  BY HereIs
<1>2. MaxBlocks \in Nat
  BY Parameters
<1>3. Len(s.blocks) > MaxBlocks
  BY <1>1, <1>2
<1>4. QED
  BY <1>3 DEF ExceedsLimits

\* So do literals beyond the limit on all of them.
LEMMA TooMuchInAll ==
    ASSUME NEW s, Here(s), Len(blocks) < Len(s.blocks), total + Len(LiteralBytes(Now(s))) > MaxTotal
    PROVE  ExceedsLimits(s)
PROOF
<1> DEFINE k == Len(blocks) + 1
           here == Len(s.extents[k].literals)
<1>1. /\ blocks \in Seq(BlockType) /\ s.extents \in Seq(BlockType) /\ k <= Len(s.extents)
      /\ \A i \in 1..Len(blocks) : blocks[i] = s.extents[i]
  BY HereIs
<1>2. LiteralsOf(blocks) + here <= LiteralsOf(s.extents) /\ LiteralsOf(s.extents) \in Nat
  BY <1>1, LiteralsOfFirst
<1>3. s.extents[k].literals = LiteralBytes(Now(s)) /\ Len(LiteralBytes(Now(s))) \in Nat
  <2>1. /\ s.extents[k] = [start |-> Start(s), end |-> Start(s) + Len(Coded(s)), literals |-> LiteralBytes(Now(s))]
        /\ Len(LiteralBytes(Now(s))) \in Nat
    BY NowIs
  <2>2. QED
    BY <2>1
<1>4. total = LiteralsOf(blocks) /\ total \in Nat
  BY HereIs DEF Here, IInv, TypeOK
<1>5. MaxTotal \in Nat
  BY Parameters
<1> HIDE DEF k
<1>6. LiteralsOf(s.extents) > MaxTotal
  BY <1>2, <1>3, <1>4, <1>5
<1>7. QED
  BY <1>6 DEF ExceedsLimits

-----------------------------------------------------------------------------
(* The head of a block.                                                    *)

TypeOf(b) == IF b.kind = "stored" THEN 0 ELSE IF b.kind = "fixed" THEN 1 ELSE 2

\* A block begins with its head.
LEMMA BlockHead ==
    ASSUME NEW b, IsBlock(b), NEW at \in Nat, NEW final \in BOOLEAN, NEW d, Len(d) \in Nat,
           Holds(d, at, EncodeBlock(b, at, final))
    PROVE  TypeOf(b) \in 0..2 /\ Holds(d, at, HeaderBits(final, TypeOf(b)))
PROOF
<1>1. CASE b.kind = "stored" /\ AreBytes(b.bytes)
  <2>1. Holds(d, at, HeaderBits(final, 0))
    BY <1>1, StoredBits
  <2>2. TypeOf(b) = 0
    BY <1>1 DEF TypeOf
  <2>3. QED
    BY <2>1, <2>2
<1>2. CASE b.kind = "fixed" /\ AreTokens(b.tokens, FixedLiterals, FixedDistances)
  <2>1. Holds(d, at, HeaderBits(final, 1))
    BY <1>2, FixedBits
  <2>2. TypeOf(b) = 1
    BY <1>2 DEF TypeOf
  <2>3. QED
    BY <2>1, <2>2
<1>3. CASE b.kind = "dynamic" /\ AreTrees(b) /\ AreTokens(b.tokens, Literals(b), Distances(b))
  <2>1. Holds(d, at, HeaderBits(final, 2))
    BY <1>3, DynamicBits
  <2>2. TypeOf(b) = 2
    BY <1>3 DEF TypeOf
  <2>3. QED
    BY <2>1, <2>2
<1>4. QED
  BY <1>1, <1>2, <1>3 DEF IsBlock

\* A block's head is read as it was written, unless there are too many blocks.
LEMMA HeaderHere ==
    ASSUME NEW s, Here(s), phase = "block"
    PROVE  /\ Len(blocks) < Len(s.blocks) /\ Position(reader) = Start(s) /\ TypeOf(Now(s)) \in 0..2
           /\ \A h \in Header : h.final = IsLastBlock(s) /\ h.type = TypeOf(Now(s)) /\ Along(h.reader, 3)
           /\ data = s.bits /\ Header = {} => ExceedsLimits(s)
PROOF
<1> DEFINE final == IsLastBlock(s)
           type == TypeOf(Now(s))
           one == <<IF final THEN 1 ELSE 0>>
           two == LowFirst(type, 2)
           p == Position(reader)
<1>1. Len(blocks) < Len(s.blocks) /\ p = Start(s) + 0
  BY DEF Here, Follows, Place, AtBlock, Stands
<1>2. Reading /\ Begins(data, s.bits) /\ Len(s.bits) \in Nat /\ p \in Nat /\ Len(blocks) \in Nat /\ Len(data) \in Nat
  BY HereIs
<1>3. IsBlock(Now(s)) /\ Start(s) \in Nat /\ final \in BOOLEAN /\ Holds(s.bits, Start(s), Coded(s))
  BY <1>1, NowIs
<1>4. p = Start(s)
  BY <1>1, <1>3
<1>5. type \in 0..2 /\ Holds(s.bits, p, HeaderBits(final, type))
  BY <1>2, <1>3, <1>4, BlockHead DEF Coded
<1> HIDE DEF final, type, p
<1>6. one \in Seq(Bit) /\ two \in Seq(Bit) /\ Len(one) = 1 /\ Len(two) = 2
  BY <1>3, <1>5, HeaderType
<1>7. Holds(s.bits, p, one) /\ Holds(s.bits, p + 1, two)
  BY <1>2, <1>3, <1>5, HeaderLies
<1>8. p + 1 \in Nat /\ (p + 1) + 2 = p + 3
  BY <1>2
<1> HIDE DEF one, two
<1>9. Lies(data, p, one)
  BY <1>2, <1>6, <1>7, BeginningLies
<1>10. Lies(data, p + 1, two) /\ (data = s.bits => p + 3 <= Len(data))
  <2>1. Lies(data, p + 1, two) /\ (data = s.bits => (p + 1) + Len(two) <= Len(data))
    BY <1>2, <1>6, <1>7, <1>8, BeginningLies
  <2>2. QED
    BY <1>6, <1>8, <2>1
<1>11. /\ \A h \in Header : h.final = final /\ h.type = type /\ Along(h.reader, 3)
       /\ Position(reader) + 3 <= Len(data) /\ Len(blocks) < MaxBlocks /\ Len(blocks) \in Nat => Header # {}
  <2>1. Lies(data, Position(reader), <<IF final THEN 1 ELSE 0>>) /\ Lies(data, Position(reader) + 1, LowFirst(type, 2))
    BY <1>9, <1>10 DEF one, two, p
  <2>2. QED
    BY <1>2, <1>3, <1>5, <2>1, HeaderIs
<1>12. ASSUME data = s.bits, Header = {} PROVE ExceedsLimits(s)
  <2>1. Position(reader) + 3 <= Len(data)
    BY <1>10, <1>12 DEF p
  <2>2. ~(Len(blocks) < MaxBlocks)
    BY <1>2, <1>11, <1>12, <2>1
  <2>3. QED
    BY <1>1, <2>2, TooManyBlocks
<1>13. QED
  BY <1>1, <1>4, <1>5, <1>11, <1>12 DEF final, type, p

-----------------------------------------------------------------------------
(* A stored block.                                                         *)

\* What is known inside of a block.
LEMMA EnteredIs ==
    ASSUME NEW s, Here(s), Entered(s)
    PROVE  /\ Len(blocks) < Len(s.blocks) /\ block.start = Start(s) /\ block.final = IsLastBlock(s)
           /\ IsBlock(Now(s)) /\ Start(s) \in Nat /\ IsLastBlock(s) \in BOOLEAN
           /\ Holds(s.bits, Start(s), Coded(s)) /\ Len(Coded(s)) \in Nat /\ Len(s.bits) \in Nat
PROOF
<1>1. Len(blocks) < Len(s.blocks) /\ block.start = Start(s) /\ block.final = IsLastBlock(s)
  BY DEF Entered
<1>2. QED
  BY <1>1, NowIs, HereIs

\* A stored block is read as it was written, unless it is too large.
LEMMA StoredHere ==
    ASSUME NEW s, Here(s), phase = "stored"
    PROVE  /\ Entered(s) /\ Now(s).kind = "stored"
           /\ \A b \in Stored : /\ b.bytes = LiteralBytes(Now(s)) /\ ReaderOK(data, b.reader)
                                /\ Position(b.reader) = Start(s) + Len(Coded(s))
           /\ data = s.bits /\ Stored = {} => ExceedsLimits(s)
PROOF
<1> DEFINE b == Now(s)
           bytes == b.bytes
           final == IsLastBlock(s)
           at == Start(s)
           p == Position(reader)
           q == p + Pad(p)
<1>1. Entered(s) /\ b.kind = "stored" /\ p = at + 3 /\ block.literals = <<>>
  BY DEF Here, Follows, Place, AtStored, Stands, IInv, InBlock
<1>2. /\ Reading /\ Begins(data, s.bits) /\ Len(s.bits) \in Nat /\ p \in Nat /\ Len(data) \in Nat
  BY HereIs
<1>3. Len(blocks) < Len(s.blocks) /\ IsBlock(b) /\ at \in Nat /\ final \in BOOLEAN /\ Holds(s.bits, at, Coded(s))
  BY <1>1, EnteredIs
<1>4. AreBytes(bytes)
  BY <1>1, <1>3 DEF IsBlock
<1> HIDE DEF at, final, p, b
<1>5. Coded(s) = EncodeBlock(b, at, final)
  BY DEF Coded, b, at, final
<1>6. /\ Len(Coded(s)) = 3 + Pad(at + 3) + 32 + 8 * Len(bytes)
      /\ Holds(s.bits, at + 3 + Pad(at + 3), LowFirst(Len(bytes), 16))
      /\ Holds(s.bits, at + 3 + Pad(at + 3) + 16, LowFirst(2^16 - 1 - Len(bytes), 16))
      /\ \A k \in 1..Len(bytes) : Holds(s.bits, at + 3 + Pad(at + 3) + 32 + 8 * (k - 1), LowFirst(bytes[k], 8))
  <2>1. b.kind = "stored" /\ AreBytes(b.bytes) /\ at \in Nat /\ final \in BOOLEAN
    BY <1>1, <1>3, <1>4 DEF b
  <2>2. Len(s.bits) \in Nat /\ Holds(s.bits, at, EncodeBlock(b, at, final))
    BY <1>2, <1>3, <1>5
  <2>3. QED
    BY <1>5, <2>1, <2>2, StoredBits, Zenon
<1> DEFINE n == Len(bytes)
           lo == LowFirst(n, 16)
           hi == LowFirst(2^16 - 1 - n, 16)
<1>7. bytes \in Seq(0..255) /\ n \in Nat /\ n < 2^16
  BY <1>4 DEF AreBytes
<1>8. Pad(p) \in Nat /\ q \in Nat /\ at + 3 + Pad(at + 3) = q
  <2>1. Pad(p) \in 0..7
    BY <1>2, PadIs
  <2>2. Pad(p) \in Nat /\ p + Pad(p) \in Nat
    BY <1>2, <2>1
  <2>3. at + 3 + Pad(at + 3) = p + Pad(p)
    BY <1>1, Zenon
  <2>4. QED
    BY <2>2, <2>3
<1>9. lo \in Seq(Bit) /\ hi \in Seq(Bit) /\ Len(lo) = 16 /\ Len(hi) = 16
  <2>1. 2^16 - 1 - n \in Nat /\ 16 \in Nat
    <3> DEFINE m == 2^16
    <3>1. m \in Nat
      BY PowType
    <3> HIDE DEF m
    <3>2. m - 1 - n \in Nat
      BY <1>7, <3>1 DEF m
    <3>3. QED
      BY <3>2 DEF m
  <2>2. QED
    BY <1>7, <2>1, LowFirstType
<1> HIDE DEF q, lo, hi, n
<1>10. Lies(data, q, lo) /\ Lies(data, q + 16, hi)
  <2>1. Holds(s.bits, q, lo) /\ Holds(s.bits, q + 16, hi)
    BY <1>6, <1>8 DEF lo, hi, n
  <2>2. q + 16 \in Nat
    BY <1>8
  <2>3. QED
    BY <1>2, <1>8, <1>9, <2>1, <2>2, BeginningLies
<1>11. BytesLie(data, q + 32, bytes)
  <2>1. ASSUME NEW k \in 1..Len(bytes) PROVE Lies(data, (q + 32) + 8 * (k - 1), LowFirst(bytes[k], 8))
    <3>1. Holds(s.bits, q + 32 + 8 * (k - 1), LowFirst(bytes[k], 8))
      BY <1>6, <1>8
    <3>2. bytes[k] \in Nat /\ q + 32 + 8 * (k - 1) \in Nat
      <4> DEFINE B == 0..255
      <4>1. B \subseteq Nat /\ bytes \in Seq(B)
        BY <1>7
      <4> HIDE DEF B
      <4>2. Len(bytes) \in Nat
        BY <1>7
      <4>3. k \in Nat /\ k >= 1
        BY <4>2
      <4>4. q \in Nat
        BY <1>8
      <4>5. 8 * (k - 1) \in Nat
        BY <4>3
      <4>6. q + 32 + 8 * (k - 1) \in Nat
        BY <4>4, <4>5
      <4>7. bytes[k] \in Nat
        BY <4>1, ElementOfSeq
      <4>8. QED
        BY <4>6, <4>7, Zenon
    <3>3. LowFirst(bytes[k], 8) \in Seq(Bit)
      BY <3>2, LowFirstType
    <3>4. QED
      BY <1>2, <3>1, <3>2, <3>3, BeginningLies
  <2>2. QED
    BY <2>1 DEF BytesLie
<1>12. /\ \A v \in Stored : /\ v.bytes = bytes /\ ReaderOK(data, v.reader) /\ Position(v.reader) = q + 32 + 8 * Len(bytes)
       /\ q + 32 + 8 * Len(bytes) <= Len(data) /\ Len(bytes) <= MaxBlockLiterals => Stored # {}
  <2>1. Lies(data, q, LowFirst(Len(bytes), 16)) /\ Lies(data, q + 16, LowFirst(2^16 - 1 - Len(bytes), 16))
    BY <1>10 DEF lo, hi, n
  <2>2. q = Position(reader) + Pad(Position(reader))
    BY DEF q, p
  <2>3. QED
    BY <1>1, <1>2, <1>4, <1>11, <2>1, <2>2, StoredIs
<1>13. LiteralBytes(b) = bytes
  BY <1>1 DEF LiteralBytes
<1>14. q + 32 + 8 * n = at + Len(Coded(s)) /\ Len(Coded(s)) \in Nat
  <2>1. 3 + Pad(p) + 32 + 8 * n = Len(Coded(s)) /\ q = p + Pad(p) /\ p = at + 3
    BY <1>1, <1>6 DEF q, n
  <2>2. n \in Nat /\ Pad(p) \in Nat
    BY <1>7, <1>8
  <2> DEFINE x == Pad(p)
             c == Len(Coded(s))
  <2>3. x \in Nat /\ c = 3 + x + 32 + 8 * n /\ q = p + x /\ p = at + 3 /\ at \in Nat /\ n \in Nat
    BY <1>3, <2>1, <2>2
  <2> HIDE DEF x, c
  <2>4. q + 32 + 8 * n = at + c /\ c \in Nat
    BY <2>3
  <2>5. QED
    BY <2>4 DEF c
<1>15. ASSUME data = s.bits, Stored = {} PROVE ExceedsLimits(s)
  <2>1. at + Len(Coded(s)) <= Len(data)
    BY <1>3, <1>15 DEF Holds
  <2>2. ~(n <= MaxBlockLiterals)
    BY <1>12, <1>14, <1>15, <2>1 DEF n
  <2>3. Len(LiteralBytes(Now(s))) > MaxBlockLiterals
    <3>1. MaxBlockLiterals \in Nat
      BY Parameters
    <3>2. n > MaxBlockLiterals
      BY <1>7, <2>2, <3>1
    <3>3. QED
      BY <1>13, <3>2 DEF n, b
  <2>4. QED
    BY <1>3, <2>3, TooMuch
<1>16. QED
  BY <1>1, <1>12, <1>13, <1>14, <1>15 DEF at, b, n

-----------------------------------------------------------------------------
(* Where the parts of a dynamic block are.                                 *)

\* The parts of a dynamic block, one behind the other.
LEMMA DynamicIs ==
    ASSUME NEW s, Here(s), Entered(s), Now(s).kind = "dynamic"
    PROVE  LET b == Now(s) IN
           /\ AreTrees(b) /\ AreTokens(b.tokens, Literals(b), Distances(b)) /\ SizesHead \in Nat
           /\ RunsStart(b) \in Nat /\ TokensStart(b) \in Nat
           /\ TokensStart(b) = RunsStart(b) + Len(FlattenSeq(RunCodes(b.runs, b.codelens)))
           /\ Len(FlattenSeq(RunCodes(b.runs, b.codelens))) \in Nat
           /\ Len(Coded(s)) = TokensStart(b) + Len(EncodeTokens(b.tokens, Literals(b), Distances(b)))
           /\ Holds(s.bits, Start(s) + 3, EncodeSizes(b))
           /\ Holds(s.bits, Start(s) + RunsStart(b), FlattenSeq(RunCodes(b.runs, b.codelens)))
           /\ Holds(s.bits, Start(s) + TokensStart(b), EncodeTokens(b.tokens, Literals(b), Distances(b)))
PROOF
<1> DEFINE b == Now(s)
           at == Start(s)
           final == IsLastBlock(s)
           l == Literals(b)
           t == Distances(b)
           e == EncodeTokens(b.tokens, l, t)
           f == FlattenSeq(RunCodes(b.runs, b.codelens))
           h == SizesHead
           w == CodeLenBits * b.hclen
<1>1. /\ IsBlock(b) /\ at \in Nat /\ final \in BOOLEAN /\ Holds(s.bits, at, Coded(s)) /\ Len(s.bits) \in Nat
  BY EnteredIs
<1>2. b.kind = "dynamic" /\ AreTrees(b) /\ AreTokens(b.tokens, l, t)
  BY <1>1 DEF IsBlock
<1>3. Coded(s) = EncodeBlock(b, at, final)
  BY DEF Coded
<1>4. h \in Nat
  BY <1>2, SizesBits
<1>5. w \in Nat
  <2>1. CodeLenBits \in Nat /\ b.hclen \in Nat
    BY <1>2, TreesType, Parameters
  <2>2. QED
    BY <2>1
<1>6. b.kind # "fixed"
  BY <1>2
<1>7. RunsStart(b) = 3 + (h + w) /\ TokensStart(b) = RunsStart(b) + Len(f)
  BY <1>6 DEF RunsStart, TokensStart
<1> HIDE DEF b, at, final
<1>8. /\ Len(f) \in Nat /\ Len(EncodeBlock(b, at, final)) = 3 + h + w + Len(f) + Len(e)
      /\ \A d : Len(d) \in Nat /\ Holds(d, at, EncodeBlock(b, at, final)) =>
                 /\ Holds(d, at + 3, EncodeSizes(b)) /\ Holds(d, at + 3 + (h + w), f)
                 /\ Holds(d, at + 3 + (h + w) + Len(f), e)
  BY <1>1, <1>2, DynamicBits
<1>9. Holds(s.bits, at + 3, EncodeSizes(b)) /\ Holds(s.bits, at + 3 + (h + w), f) /\ Holds(s.bits, at + 3 + (h + w) + Len(f), e)
  BY <1>1, <1>3, <1>8
<1>10. Len(e) \in Nat
  <2>1. e \in Seq(Bit)
    BY <1>2, TokensType
  <2>2. QED
    BY <2>1
<1> DEFINE m == Len(f)
           n == Len(e)
<1>11. m \in Nat /\ n \in Nat /\ Len(Coded(s)) = 3 + h + w + m + n /\ RunsStart(b) = 3 + (h + w) /\ TokensStart(b) = RunsStart(b) + m
  BY <1>3, <1>7, <1>8, <1>10
<1> HIDE DEF l, t, e, f, h, w, m, n
<1>12. /\ at + 3 + (h + w) = at + RunsStart(b) /\ at + 3 + (h + w) + m = at + TokensStart(b)
       /\ RunsStart(b) \in Nat /\ TokensStart(b) \in Nat /\ Len(Coded(s)) = TokensStart(b) + n
  BY <1>1, <1>4, <1>5, <1>11
<1>13. Holds(s.bits, at + RunsStart(b), f) /\ Holds(s.bits, at + TokensStart(b), e)
  BY <1>9, <1>12 DEF m
<1>14. QED
  BY <1>2, <1>4, <1>9, <1>11, <1>12, <1>13 DEF b, at, l, t, e, f, h, m, n

\* The tokens of a block that has any.
LEMMA HuffmanIs ==
    ASSUME NEW s, Here(s), Entered(s), Now(s).kind # "stored"
    PROVE  LET b == Now(s) IN
           /\ AreTokens(b.tokens, LiteralLengths(b), DistanceLengths(b)) /\ TokensStart(b) \in Nat
           /\ Len(Coded(s)) = TokensStart(b) + Len(EncodeTokens(b.tokens, LiteralLengths(b), DistanceLengths(b)))
           /\ Holds(s.bits, Start(s) + TokensStart(b), EncodeTokens(b.tokens, LiteralLengths(b), DistanceLengths(b)))
PROOF
<1> DEFINE b == Now(s)
           at == Start(s)
           final == IsLastBlock(s)
<1>1. IsBlock(b) /\ at \in Nat /\ final \in BOOLEAN /\ Holds(s.bits, at, Coded(s)) /\ Len(s.bits) \in Nat
  BY EnteredIs
<1>2. CASE b.kind = "fixed"
  <2>1. AreTokens(b.tokens, FixedLiterals, FixedDistances)
    BY <1>1, <1>2 DEF IsBlock
  <2>2. LiteralLengths(b) = FixedLiterals /\ DistanceLengths(b) = FixedDistances /\ TokensStart(b) = 3
    BY <1>2 DEF LiteralLengths, DistanceLengths, TokensStart
  <2>3. Coded(s) = EncodeBlock(b, at, final)
    BY DEF Coded
  <2> HIDE DEF b, at, final
  <2>4. /\ Len(Coded(s)) = 3 + Len(EncodeTokens(b.tokens, FixedLiterals, FixedDistances))
        /\ Holds(s.bits, at + 3, EncodeTokens(b.tokens, FixedLiterals, FixedDistances))
    BY <1>1, <1>2, <2>1, <2>3, FixedBits
  <2>5. QED
    BY <2>1, <2>2, <2>4 DEF b, at
<1>3. CASE b.kind = "dynamic"
  <2>1. LiteralLengths(b) = Literals(b) /\ DistanceLengths(b) = Distances(b)
    BY <1>3 DEF LiteralLengths, DistanceLengths
  <2>2. QED
    BY <1>3, <2>1, DynamicIs
<1>4. QED
  BY <1>1, <1>2, <1>3 DEF IsBlock

-----------------------------------------------------------------------------
(* The sizes and the code-length code.                                     *)

\* The sizes are those of the block.
LEMMA SizesHere ==
    ASSUME NEW s, Here(s), phase = "sizes"
    PROVE  /\ Entered(s) /\ Now(s).kind = "dynamic" /\ block.literals = <<>> /\ Position(reader) = Start(s) + 3
           /\ SizesHead \in Nat
           /\ \A h \in Sizes : /\ h.hlit = Now(s).hlit /\ h.hdist = Now(s).hdist /\ h.hclen = Now(s).hclen
                               /\ Along(h.reader, SizesHead)
           /\ data = s.bits => Sizes # {}
PROOF
<1> DEFINE b == Now(s)
           p == Position(reader)
           one == LowFirst(b.hlit - NumLiterals - 1, SizeBits[1])
           two == LowFirst(b.hdist - 1, SizeBits[2])
           three == LowFirst(b.hclen - MinHclen, SizeBits[3])
<1>1. Entered(s) /\ b.kind = "dynamic" /\ block.literals = <<>> /\ p = Start(s) + 3
  BY DEF Here, Follows, Place, AtSizes, Stands
<1>2. Reading /\ Begins(data, s.bits) /\ Len(s.bits) \in Nat /\ p \in Nat /\ Len(data) \in Nat
  BY HereIs
<1>3. AreTrees(b) /\ Holds(s.bits, p, EncodeSizes(b)) /\ SizesHead \in Nat
  BY <1>1, DynamicIs
<1> HIDE DEF b
<1>4. b.hlit - NumLiterals - 1 \in Nat /\ b.hdist - 1 \in Nat /\ b.hclen - MinHclen \in Nat
  BY <1>3, TreesType
<1>5. SizeBits[1] \in Nat /\ SizeBits[2] \in Nat /\ SizeBits[3] \in Nat
  BY Widths
<1> HIDE DEF p
<1>6. Holds(s.bits, p, one) /\ Holds(s.bits, p + SizeBits[1], two) /\ Holds(s.bits, p + (SizeBits[1] + SizeBits[2]), three)
  BY <1>2, <1>3, SizesBits
<1>7. /\ one \in Seq(Bit) /\ two \in Seq(Bit) /\ three \in Seq(Bit) /\ Len(three) = SizeBits[3]
      /\ p + SizeBits[1] \in Nat /\ p + (SizeBits[1] + SizeBits[2]) \in Nat
  <2>1. one \in Seq(Bit) /\ two \in Seq(Bit) /\ three \in Seq(Bit) /\ Len(three) = SizeBits[3]
    BY <1>4, <1>5, LowFirstType
  <2>2. QED
    BY <1>2, <1>5, <2>1
<1> HIDE DEF one, two, three
<1>8. Lies(data, p, one) /\ Lies(data, p + SizeBits[1], two)
  BY <1>2, <1>6, <1>7, BeginningLies
<1>9. Lies(data, p + (SizeBits[1] + SizeBits[2]), three)
      /\ (data = s.bits => (p + (SizeBits[1] + SizeBits[2])) + SizeBits[3] <= Len(data))
  BY <1>2, <1>6, <1>7, BeginningLies
<1>10. (p + (SizeBits[1] + SizeBits[2])) + SizeBits[3] = p + SizesHead
  BY <1>2, <1>5 DEF SizesHead
<1>11. /\ \A h \in Sizes : h.hlit = b.hlit /\ h.hdist = b.hdist /\ h.hclen = b.hclen /\ Along(h.reader, SizesHead)
       /\ p + SizesHead <= Len(data) => Sizes # {}
  BY <1>2, <1>3, <1>8, <1>9, SizesIs DEF one, two, three, p
<1>12. QED
  BY <1>1, <1>3, <1>9, <1>10, <1>11 DEF b, p

\* The next length of the code-length code is the one that was sent.
LEMMA CodelenHere ==
    ASSUME NEW s, Here(s), phase = "codelens", Len(codelens) < sizes.hclen
    PROVE  LET v == Now(s).codelens[HclenOrder[Len(codelens) + 1] + 1] IN
           /\ AtCodelens(s)
           /\ \A a \in ReadBits(data, reader, CodeLenBits) : Number(a.bits) = v /\ Along(a.reader, CodeLenBits)
           /\ data = s.bits => ReadBits(data, reader, CodeLenBits) # {}
PROOF
<1> DEFINE b == Now(s)
           n == Len(codelens)
           i == n + 1
           v == b.codelens[HclenOrder[i] + 1]
           at == Start(s)
           p == Position(reader)
           q == LowFirst(v, CodeLenBits)
           w == CodeLenBits * n
<1>1. /\ AtCodelens(s) /\ Entered(s) /\ b.kind = "dynamic" /\ p = at + (3 + (SizesHead + w))
      /\ sizes.hclen = b.hclen
  <2>1. AtCodelens(s)
    BY DEF Here, Follows, Place
  <2>2. sizes = [hlit |-> b.hlit, hdist |-> b.hdist, hclen |-> b.hclen]
    BY <2>1 DEF AtCodelens, SizesOf
  <2>3. QED
    BY <2>1, <2>2 DEF AtCodelens, Stands
<1>2. Reading /\ Begins(data, s.bits) /\ Len(s.bits) \in Nat /\ p \in Nat /\ Len(data) \in Nat /\ data \in Seq(Bit)
  BY HereIs
<1>3. AreTrees(b) /\ Holds(s.bits, at + 3, EncodeSizes(b)) /\ SizesHead \in Nat /\ at \in Nat
  BY <1>1, DynamicIs, EnteredIs
<1>4. n \in Nat /\ b.hclen \in Nat /\ CodeLenBits \in Nat /\ CodeLenBits <= 8
  <2>1. codelens \in Seq(Nat)
    BY DEF Here, IInv, TypeOK
  <2>2. b.hclen \in Nat
    BY <1>3, TreesType
  <2>3. QED
    BY <2>1, <2>2, Widths
<1>5. i \in 1..b.hclen /\ i - 1 = n
  BY <1>1, <1>4
<1>6. w \in Nat
  BY <1>4
<1> HIDE DEF b, at, p
<1>7. v \in Nat /\ v < 2^CodeLenBits
  BY <1>3, <1>5, TreesType
<1>8. Holds(s.bits, (at + 3) + SizesHead + CodeLenBits * (i - 1), LowFirst(b.codelens[HclenOrder[i] + 1], CodeLenBits))
  <2>1. at + 3 \in Nat
    BY <1>3
  <2>2. QED
    BY <1>2, <1>3, <1>5, <2>1, SizesBits
<1>9. Holds(s.bits, p, q)
  <2>1. CodeLenBits * (i - 1) = w
    BY <1>5
  <2> HIDE DEF i, w
  <2>2. (at + 3) + SizesHead + w = p
    BY <1>1, <1>3, <1>6
  <2>3. QED
    BY <1>8, <2>1, <2>2 DEF q, v
<1> HIDE DEF v
<1>10. q \in Seq(Bit) /\ Len(q) = CodeLenBits
  BY <1>4, <1>7, LowFirstType
<1> HIDE DEF q
<1>11. Lies(data, p, q) /\ (data = s.bits => p + Len(q) <= Len(data))
  BY <1>2, <1>9, <1>10, BeginningLies
<1>12. /\ \A a \in ReadBits(data, reader, CodeLenBits) : /\ ReaderOK(data, a.reader) /\ Position(a.reader) = p + CodeLenBits
                                                         /\ Number(a.bits) = v
       /\ Whole8(data) /\ p + CodeLenBits <= Len(data) => ReadBits(data, reader, CodeLenBits) # {}
  <2>1. Lies(data, Position(reader), LowFirst(v, CodeLenBits)) /\ ReaderOK(data, reader)
    BY <1>2, <1>11, ReadingIs DEF p, q
  <2>2. QED
    BY <1>2, <1>4, <1>7, <2>1, ReadNumberIs DEF p
<1>13. Whole8(data)
  BY <1>2, ReadingIs
<1>14. QED
  BY <1>1, <1>10, <1>11, <1>12, <1>13 DEF Along, v, b, p

\* The code-length code is the one the runs were coded with.
LEMMA TreeHere ==
    ASSUME NEW s, Here(s), phase = "codelens", Len(codelens) = sizes.hclen
    PROVE  LET b == Now(s) IN
           /\ AtCodelens(s) /\ RunsStart(b) = 3 + (SizesHead + CodeLenBits * Len(codelens))
           /\ FromLengths(CodeLengthLengths) = {Tree(b.codelens)}
PROOF
<1> DEFINE b == Now(s)
<1>1. /\ AtCodelens(s) /\ Entered(s) /\ b.kind = "dynamic" /\ sizes.hclen = b.hclen
      /\ \A i \in 1..Len(codelens) : codelens[i] = b.codelens[HclenOrder[i] + 1]
  <2>1. AtCodelens(s)
    BY DEF Here, Follows, Place
  <2>2. sizes = [hlit |-> b.hlit, hdist |-> b.hdist, hclen |-> b.hclen]
    BY <2>1 DEF AtCodelens, SizesOf
  <2>3. QED
    BY <2>1, <2>2 DEF AtCodelens
<1>2. AreTrees(b)
  BY <1>1, DynamicIs
<1>3. codelens \in Seq(Nat) /\ Len(codelens) = b.hclen
  BY <1>1 DEF Here, IInv, TypeOK
<1> HIDE DEF b
<1>4. CodeLengthLengths = b.codelens
  BY <1>1, <1>2, <1>3, CodeLengthLengthsIs
<1>5. b.codelens \in Lengths /\ IsCode(b.codelens)
  BY <1>2, TreesType
<1>6. FromLengths(CodeLengthLengths) = {Tree(b.codelens)}
  BY <1>4, <1>5, FromLengthsIs
<1>7. RunsStart(b) = 3 + (SizesHead + CodeLenBits * Len(codelens))
  BY <1>3 DEF RunsStart
<1>8. QED
  BY <1>1, <1>6, <1>7 DEF b

-----------------------------------------------------------------------------
(* The code lengths.                                                       *)

\* What is known among the code lengths.
LEMMA LengthsAt ==
    ASSUME NEW s, Here(s), phase = "lengths"
    PROVE  LET b == Now(s) IN
           /\ AtLengths(s) /\ AreTrees(b) /\ AreRuns(b.runs, b.codelens) /\ b.codelens \in Lengths /\ IsCode(b.codelens)
           /\ Len(b.runs) \in Nat /\ instructions \in 0..Len(b.runs) /\ Len(Expand(b.runs)) = Wanted
           /\ Position(reader) = Start(s) + (RunsStart(b) + RunBits(b.runs, b.codelens, instructions))
           /\ lengths = UpToRun(b.runs)[instructions] /\ sizes.hlit = b.hlit /\ sizes.hdist = b.hdist
           /\ decoders.code_length = Tree(b.codelens)
PROOF
<1> DEFINE b == Now(s)
<1>1. AtLengths(s)
  BY DEF Here, Follows, Place
<1>2. /\ Entered(s) /\ b.kind = "dynamic" /\ SizesOf(b) /\ decoders.code_length = Tree(b.codelens)
      /\ instructions <= Len(b.runs) /\ lengths = UpToRun(b.runs)[instructions]
      /\ Position(reader) = Start(s) + (RunsStart(b) + RunBits(b.runs, b.codelens, instructions))
  BY <1>1 DEF AtLengths, Stands
<1>3. sizes.hlit = b.hlit /\ sizes.hdist = b.hdist
  BY <1>2 DEF SizesOf
<1>4. AreTrees(b)
  BY <1>2, DynamicIs
<1> HIDE DEF b
<1>5. /\ AreRuns(b.runs, b.codelens) /\ b.codelens \in Lengths /\ IsCode(b.codelens)
      /\ Len(Expand(b.runs)) = b.hlit + b.hdist
  BY <1>4, TreesType
<1>6. Len(b.runs) \in Nat
  BY <1>5, RunCodesType
<1>7. instructions \in 0..Len(b.runs)
  BY <1>2, <1>6, HereIs
<1>8. Len(Expand(b.runs)) = Wanted
  BY <1>3, <1>5 DEF Wanted
<1>9. QED
  BY <1>1, <1>2, <1>3, <1>4, <1>5, <1>6, <1>7, <1>8 DEF b

\* What a run adds ends in the length that another repetition would repeat.
LEMMA LastOfRun ==
    ASSUME NEW v \in Lengths, NEW c, NEW r, IsRun(r, c), NEW last,
           r.symbol = MaxCodeBits + 1 => v # <<>> /\ last = Last(v),
           r.symbol <= MaxCodeBits => last = r.symbol, r.symbol <= MaxCodeBits + 1
    PROVE  last = Last(v \o RunLengths(v, r))
PROOF
<1> DEFINE x == RunLengths(v, r)
<1>1. x \in Lengths /\ Len(x) \in Nat /\ Len(x) >= 1
  BY RunLengthsType
<1>2. x[Len(x)] = last
  <2>1. r.symbol \in 0..(MaxCodeBits + 3) /\ MaxCodeBits \in Nat
    BY Parameters DEF IsRun
  <2>2. CASE r.symbol <= MaxCodeBits
    <3>1. x = <<r.symbol>> /\ last = r.symbol
      BY <2>2 DEF RunLengths
    <3>2. QED
      BY <3>1
  <2>3. CASE r.symbol = MaxCodeBits + 1
    <3>1. ~(r.symbol <= MaxCodeBits) /\ r.symbol - MaxCodeBits = 1
      BY <2>1, <2>3
    <3> DEFINE n == Repeat[1].base + r.extra
    <3>2. x = [k \in 1..n |-> Last(v)]
      <4>1. x = [k \in 1..(Repeat[r.symbol - MaxCodeBits].base + r.extra) |->
                    IF r.symbol - MaxCodeBits = 1 THEN Last(v) ELSE 0]
        BY <3>1 DEF RunLengths
      <4>2. QED
        BY <3>1, <4>1
    <3>3. Len(x) \in DOMAIN x
      BY <1>1 DEF Lengths
    <3>4. last = Last(v)
      BY <2>3
    <3> HIDE DEF n, x
    <3>5. Len(x) \in 1..n
      BY <3>2, <3>3
    <3>6. QED
      BY <3>2, <3>4, <3>5
  <2>4. QED
    BY <2>1, <2>2, <2>3
<1> HIDE DEF x
<1>3. v \o x \in Lengths /\ Len(v \o x) = Len(v) + Len(x) /\ (v \o x)[Len(v) + Len(x)] = x[Len(x)] /\ Len(v) \in Nat
  BY <1>1 DEF Lengths
<1>4. Last(v \o x) = (v \o x)[Len(v \o x)]
  BY DEF Last
<1>5. QED
  BY <1>2, <1>3, <1>4 DEF x

\* The next run is read as it was written, unless there are too many.
LEMMA LengthsHere ==
    ASSUME NEW s, Here(s), phase = "lengths", Len(lengths) < Wanted
    PROVE  LET b == Now(s)
               n == instructions + 1
               r == b.runs[n]
           IN  /\ n \in 1..Len(b.runs)
               /\ \A x \in CodeLength :
                     /\ x.lengths = UpToRun(b.runs)[n]
                     /\ ReaderOK(data, x.reader) /\ Position(x.reader) = Start(s) + (RunsStart(b) + RunBits(b.runs, b.codelens, n))
                     /\ r.symbol <= MaxCodeBits + 1 => x.prev = Last(x.lengths)
               /\ data = s.bits /\ CodeLength = {} => ExceedsLimits(s)
PROOF
<1> DEFINE b == Now(s)
           n == instructions + 1
           r == b.runs[n]
           c == b.codelens
           p == Position(reader)
           q == EncodeRun(r, c)
<1>1. /\ AtLengths(s) /\ AreTrees(b) /\ AreRuns(b.runs, c) /\ c \in Lengths /\ IsCode(c)
      /\ Len(b.runs) \in Nat /\ instructions \in 0..Len(b.runs) /\ Len(Expand(b.runs)) = Wanted
      /\ p = Start(s) + (RunsStart(b) + RunBits(b.runs, c, instructions))
      /\ lengths = UpToRun(b.runs)[instructions] /\ decoders.code_length = Tree(c)
  BY LengthsAt
<1>2. Reading /\ Begins(data, s.bits) /\ Len(s.bits) \in Nat /\ p \in Nat /\ Len(data) \in Nat /\ instructions \in Nat
  BY HereIs
<1>3. /\ Entered(s) /\ b.kind = "dynamic"
      /\ instructions >= 1 /\ b.runs[instructions].symbol <= MaxCodeBits + 1 => prev = Last(lengths)
  BY <1>1 DEF AtLengths
<1>4. n \in 1..Len(b.runs)
  <2>1. instructions # Len(b.runs)
    BY <1>1, MoreRuns
  <2>2. QED
    BY <1>1, <2>1
<1>5. Holds(s.bits, Start(s) + RunsStart(b), FlattenSeq(RunCodes(b.runs, c))) /\ Start(s) \in Nat /\ RunsStart(b) \in Nat
  BY <1>3, DynamicIs, EnteredIs
<1>6. ~RepeatsBehindZeroes(b)
  <2>1. Len(blocks) + 1 \in DOMAIN s.blocks
    <3>1. Len(blocks) + 1 \in 1..Len(s.blocks)
      BY <1>3, EnteredIs, NowIs
    <3>2. s.blocks = [i \in 1..Len(s.blocks) |-> s.blocks[i]]
      BY DEF Here, IsMember, AreBlocks
    <3>3. DOMAIN s.blocks = 1..Len(s.blocks)
      BY <3>2
    <3>4. QED
      BY <3>1, <3>3
  <2>2. QED
    BY <2>1 DEF Here, Regular, Now
<1> HIDE DEF b, p
<1>7. IsRun(r, c) /\ q \in Seq(Bit)
  BY <1>1, <1>4, RunCodesType, RunType
<1>8. r.symbol \in 0..(MaxCodeBits + 3) /\ MaxCodeBits \in Nat
  BY <1>7, Parameters DEF IsRun
<1>9. lengths \in Lengths /\ (instructions >= 1 => lengths # <<>>)
  BY <1>1, UpToRunIs
<1>10. r.symbol = MaxCodeBits + 1 => lengths # <<>> /\ prev = Last(lengths)
  <2> SUFFICES ASSUME r.symbol = MaxCodeBits + 1 PROVE lengths # <<>> /\ prev = Last(lengths)
    OBVIOUS
  <2>1. instructions >= 1
    <3>1. n # 1
      <4>1. b.runs # <<>>
        BY <1>1, <1>4
      <4>2. QED
        BY <1>1, <4>1 DEF AreRuns
    <3>2. QED
      BY <1>2, <3>1
  <2>2. b.runs[instructions].symbol <= MaxCodeBits + 1
    <3>1. n \in 2..Len(b.runs) /\ n - 1 = instructions
      BY <1>2, <1>4, <2>1
    <3>2. ~(b.runs[n - 1].symbol > MaxCodeBits + 1)
      BY <1>3, <1>6, <3>1 DEF RepeatsBehindZeroes
    <3>3. IsRun(b.runs[instructions], c)
      BY <1>1, <2>1, RunCodesType
    <3>4. b.runs[instructions].symbol \in Nat
      BY <1>8, <3>3 DEF IsRun
    <3>5. QED
      BY <1>8, <3>1, <3>2, <3>4
  <2>3. QED
    BY <1>3, <1>9, <2>1, <2>2
<1>11. /\ Holds(s.bits, (Start(s) + RunsStart(b)) + RunBits(b.runs, c, n - 1), q)
       /\ RunBits(b.runs, c, n) = RunBits(b.runs, c, n - 1) + Len(q)
       /\ RunBits(b.runs, c, n - 1) \in Nat
  <2>1. Start(s) + RunsStart(b) \in Nat
    BY <1>5
  <2>2. n - 1 \in 0..Len(b.runs)
    BY <1>1, <1>4
  <2>3. QED
    BY <1>1, <1>2, <1>4, <1>5, <2>1, <2>2, RunsLie
<1>12. n - 1 = instructions
  BY <1>2
<1>13. Holds(s.bits, p, q) /\ p + Len(q) = Start(s) + (RunsStart(b) + RunBits(b.runs, c, n))
  <2> DEFINE x == RunBits(b.runs, c, instructions)
             y == RunBits(b.runs, c, n)
             z == Len(q)
  <2>1. /\ x \in Nat /\ y = x + z /\ p = Start(s) + (RunsStart(b) + x) /\ Holds(s.bits, (Start(s) + RunsStart(b)) + x, q)
        /\ z \in Nat
    BY <1>1, <1>7, <1>11, <1>12
  <2> HIDE DEF x, y, z, q
  <2>2. (Start(s) + RunsStart(b)) + x = p /\ p + z = Start(s) + (RunsStart(b) + y)
    BY <1>5, <2>1
  <2>3. QED
    BY <2>1, <2>2 DEF y, z
<1>14. Lies(data, p, q) /\ (data = s.bits => p + Len(q) <= Len(data))
  BY <1>2, <1>7, <1>13, BeginningLies
<1>15. /\ \A x \in CodeLength :
             /\ x.lengths = lengths \o RunLengths(lengths, r) /\ Along(x.reader, Len(q))
             /\ r.symbol \in 0..MaxCodeBits => x.prev = r.symbol
             /\ r.symbol > MaxCodeBits => x.prev = prev
       /\ /\ Position(reader) + Len(q) <= Len(data) /\ instructions \in Nat /\ instructions < MaxInstructions
          /\ Len(lengths) + Len(RunLengths(lengths, r)) <= Wanted
          => CodeLength # {}
  <2>1. Lies(data, Position(reader), EncodeRun(r, c))
    BY <1>14 DEF p
  <2> HIDE DEF r
  <2>2. QED
    BY <1>1, <1>2, <1>7, <1>9, <1>10, <2>1, CodeLengthIs
<1>16. UpToRun(b.runs)[n] = lengths \o RunLengths(lengths, r)
  BY <1>1, <1>4, <1>12, UpToRunIs
<1>17. ASSUME NEW x \in CodeLength
       PROVE  /\ x.lengths = UpToRun(b.runs)[n]
              /\ ReaderOK(data, x.reader) /\ Position(x.reader) = Start(s) + (RunsStart(b) + RunBits(b.runs, c, n))
              /\ r.symbol <= MaxCodeBits + 1 => x.prev = Last(x.lengths)
  <2>1. x.lengths = lengths \o RunLengths(lengths, r) /\ Along(x.reader, Len(q))
    BY <1>15
  <2>2. ReaderOK(data, x.reader) /\ Position(x.reader) = Start(s) + (RunsStart(b) + RunBits(b.runs, c, n))
    BY <1>13, <2>1 DEF Along, p
  <2>3. ASSUME r.symbol <= MaxCodeBits + 1 PROVE x.prev = Last(x.lengths)
    <3>1. r.symbol = MaxCodeBits + 1 => lengths # <<>> /\ x.prev = Last(lengths)
      BY <1>8, <1>10, <1>15
    <3>2. r.symbol <= MaxCodeBits => x.prev = r.symbol
      BY <1>8, <1>15
    <3> DEFINE last == x.prev
    <3> HIDE DEF r, last
    <3>3. last = Last(lengths \o RunLengths(lengths, r))
      BY <1>7, <1>9, <2>3, <3>1, <3>2, LastOfRun DEF last
    <3>4. QED
      BY <2>1, <3>3 DEF last
  <2>4. QED
    BY <1>16, <2>1, <2>2, <2>3
<1>18. ASSUME data = s.bits, CodeLength = {} PROVE ExceedsLimits(s)
  <2>1. Len(lengths) + Len(RunLengths(lengths, r)) <= Wanted
    <3>1. Len(UpToRun(b.runs)[n]) <= Len(Expand(b.runs))
      <4>1. n \in 0..Len(b.runs)
        BY <1>1, <1>4
      <4> HIDE DEF n
      <4>2. QED
        BY <1>1, <4>1, MoreRuns
    <3>2. RunLengths(lengths, r) \in Lengths
      BY <1>7, <1>9, <1>10, RunLengthsType
    <3>3. Len(lengths \o RunLengths(lengths, r)) = Len(lengths) + Len(RunLengths(lengths, r))
      BY <1>9, <3>2 DEF Lengths
    <3>4. QED
      BY <1>1, <1>16, <3>1, <3>3
  <2>2. Position(reader) + Len(q) <= Len(data)
    BY <1>14, <1>18 DEF p
  <2>3. ~(instructions < MaxInstructions)
    BY <1>2, <1>15, <1>18, <2>1, <2>2
  <2>4. Len(b.runs) > MaxInstructions
    <3>1. MaxInstructions \in Nat
      BY Parameters
    <3>2. QED
      BY <1>1, <1>2, <1>4, <2>3, <3>1
  <2>5. Len(blocks) < Len(s.blocks)
    BY <1>3, EnteredIs
  <2>6. QED
    BY <1>3, <2>4, <2>5, TooMuch DEF b
<1>19. QED
  BY <1>4, <1>17, <1>18 DEF b

\* The codes are the ones the tokens were coded with.
LEMMA TreesHere ==
    ASSUME NEW s, Here(s), phase = "lengths", Len(lengths) = Wanted
    PROVE  LET b == Now(s)
               d == [code_length |-> NoDecoder, literal |-> Tree(LiteralLengths(b)), distance |-> Tree(DistanceLengths(b))]
           IN  /\ Position(reader) = Start(s) + TokensStart(b) /\ DynamicDecoders = {d}
PROOF
<1> DEFINE b == Now(s)
           l == Literals(b)
           t == Distances(b)
           c == b.codelens
           x == SubSeq(lengths, 1, sizes.hlit)
           y == SubSeq(lengths, sizes.hlit + 1, Wanted)
<1>1. /\ AtLengths(s) /\ AreRuns(b.runs, c) /\ c \in Lengths
      /\ Len(b.runs) \in Nat /\ instructions \in 0..Len(b.runs) /\ Len(Expand(b.runs)) = Wanted
      /\ Position(reader) = Start(s) + (RunsStart(b) + RunBits(b.runs, c, instructions))
      /\ lengths = UpToRun(b.runs)[instructions] /\ sizes.hlit = b.hlit /\ sizes.hdist = b.hdist
  BY LengthsAt
<1>2. /\ Entered(s) /\ b.kind = "dynamic"
  BY <1>1 DEF AtLengths
<1>3. /\ AreTokens(b.tokens, l, t) /\ TokensStart(b) = RunsStart(b) + Len(FlattenSeq(RunCodes(b.runs, c)))
      /\ Holds(s.bits, Start(s) + RunsStart(b), FlattenSeq(RunCodes(b.runs, c))) /\ Start(s) \in Nat /\ RunsStart(b) \in Nat
  BY <1>2, DynamicIs, EnteredIs
<1>4. Len(s.bits) \in Nat
  BY HereIs
<1>5. l = LiteralLengths(b) /\ t = DistanceLengths(b)
  BY <1>2 DEF LiteralLengths, DistanceLengths
<1>6. x = l /\ y = t
  <2>1. instructions = Len(b.runs)
    <3> HIDE DEF b
    <3>1. QED
      BY <1>1, MoreRuns
  <2>2. lengths = Expand(b.runs)
    <3> HIDE DEF b
    <3>1. QED
      BY <1>1, <2>1, UpToRunIs
  <2>3. QED
    BY <1>1, <2>2 DEF Literals, Distances, Wanted
<1>7. Len(FlattenSeq(RunCodes(b.runs, c))) = RunBits(b.runs, c, instructions)
  <2> HIDE DEF b
  <2>1. instructions = Len(b.runs)
    BY <1>1, MoreRuns
  <2>2. Start(s) + RunsStart(b) \in Nat
    BY <1>3
  <2>3. QED
    BY <1>1, <1>3, <1>4, <2>1, <2>2, RunsLie
<1>8. l \in Lengths /\ t \in Lengths /\ IsCode(l) /\ IsCode(t)
  <2> HIDE DEF b, l, t
  <2>1. QED
    BY <1>3, TokensType
<1> HIDE DEF b, l, t, x, y
<1>9. FromLengths(l) = {Tree(l)} /\ FromLengths(t) = {Tree(t)}
  BY <1>8, FromLengthsIs
<1>10. DynamicDecoders = {[code_length |-> NoDecoder, literal |-> Tree(l), distance |-> Tree(t)]}
  <2> DEFINE g(u) == {[code_length |-> NoDecoder, literal |-> u, distance |-> v] : v \in {Tree(t)}}
             all == Then(FromLengths(x), LAMBDA u : Then(FromLengths(y), LAMBDA v :
                         {[code_length |-> NoDecoder, literal |-> u, distance |-> v]}))
  <2>1. DynamicDecoders = all
    BY DEF DynamicDecoders, x, y
  <2>2. FromLengths(x) = {Tree(l)} /\ FromLengths(y) = {Tree(t)}
    BY <1>6, <1>9
  <2>3. all = UNION {UNION {{[code_length |-> NoDecoder, literal |-> u, distance |-> v]} : v \in FromLengths(y)} : u \in FromLengths(x)}
    BY Zenon DEF Then
  <2> HIDE DEF all
  <2>4. all = UNION {UNION {{[code_length |-> NoDecoder, literal |-> u, distance |-> v]} : v \in {Tree(t)}} : u \in {Tree(l)}}
    BY <2>2, <2>3
  <2>5. QED
    BY <2>1, <2>4, Zenon
<1>11. Position(reader) = Start(s) + TokensStart(b)
  BY <1>1, <1>3, <1>7
<1>12. QED
  BY <1>5, <1>10, <1>11 DEF b

-----------------------------------------------------------------------------
(* The tokens of a block.                                                  *)

\* The decoders of a fixed block are those of the fixed codes.
LEMMA FixedIs ==
    ASSUME NEW b, b.kind = "fixed", AreTokens(b.tokens, FixedLiterals, FixedDistances)
    PROVE  FixedDecoders = {[code_length |-> NoDecoder, literal |-> Tree(FixedLiterals), distance |-> Tree(FixedDistances)]}
PROOF
<1>1. FixedLiterals \in Lengths /\ FixedDistances \in Lengths /\ IsCode(FixedLiterals) /\ IsCode(FixedDistances)
  BY TokensType
<1>2. FromLengths(FixedLiterals) = {Tree(FixedLiterals)} /\ FromLengths(FixedDistances) = {Tree(FixedDistances)}
  BY <1>1, FromLengthsIs
<1> DEFINE all == Then(FromLengths(FixedLiterals), LAMBDA u : Then(FromLengths(FixedDistances), LAMBDA v :
                       {[code_length |-> NoDecoder, literal |-> u, distance |-> v]}))
<1>3. FixedDecoders = all
  BY DEF FixedDecoders
<1>4. all = UNION {UNION {{[code_length |-> NoDecoder, literal |-> u, distance |-> v]} : v \in FromLengths(FixedDistances)} :
                         u \in FromLengths(FixedLiterals)}
  BY Zenon DEF Then
<1> HIDE DEF all
<1>5. all = UNION {UNION {{[code_length |-> NoDecoder, literal |-> u, distance |-> v]} : v \in {Tree(FixedDistances)}} :
                         u \in {Tree(FixedLiterals)}}
  BY <1>2, <1>4
<1>6. QED
  BY <1>3, <1>5, Zenon

\* What is known among the tokens.
LEMMA SymbolsAt ==
    ASSUME NEW s, Here(s), phase = "symbols"
    PROVE  LET b == Now(s)
               l == LiteralLengths(b)
               t == DistanceLengths(b)
           IN  /\ AtSymbols(s) /\ Entered(s) /\ b.kind # "stored" /\ AreTokens(b.tokens, l, t)
               /\ l \in Lengths /\ t \in Lengths /\ IsCode(l) /\ IsCode(t) /\ EndOfBlock \in Used(l)
               /\ Len(b.tokens) \in Nat /\ instructions \in 0..Len(b.tokens)
               /\ decoders.literal = Tree(l) /\ decoders.distance = Tree(t)
               /\ block.literals = FlatTo(TokenBytes(b.tokens), instructions)
               /\ Position(reader) = Start(s) + (TokensStart(b) + TokenBits(b.tokens, l, t, instructions))
               /\ Holds(s.bits, Start(s) + TokensStart(b), EncodeTokens(b.tokens, l, t))
               /\ Start(s) \in Nat /\ TokensStart(b) \in Nat
PROOF
<1> DEFINE b == Now(s)
           l == LiteralLengths(b)
           t == DistanceLengths(b)
<1>1. AtSymbols(s)
  BY DEF Here, Follows, Place
<1>2. /\ Entered(s) /\ b.kind # "stored"
      /\ decoders.literal = Tree(l) /\ decoders.distance = Tree(t)
      /\ instructions <= Len(b.tokens) /\ block.literals = FlatTo(TokenBytes(b.tokens), instructions)
      /\ Position(reader) = Start(s) + (TokensStart(b) + TokenBits(b.tokens, l, t, instructions))
  BY <1>1 DEF AtSymbols, Stands
<1>3. /\ AreTokens(b.tokens, l, t) /\ Start(s) \in Nat /\ TokensStart(b) \in Nat
      /\ Holds(s.bits, Start(s) + TokensStart(b), EncodeTokens(b.tokens, l, t))
  BY <1>2, HuffmanIs, EnteredIs
<1> HIDE DEF b, l, t
<1>4. /\ l \in Lengths /\ t \in Lengths /\ IsCode(l) /\ IsCode(t) /\ EndOfBlock \in Used(l) /\ Len(b.tokens) \in Nat
  BY <1>3, TokensType
<1>5. instructions \in 0..Len(b.tokens)
  BY <1>2, <1>4, HereIs
<1>6. QED
  BY <1>1, <1>2, <1>3, <1>4, <1>5 DEF b, l, t

\* The literals of a block that is not stored are those of its tokens.
LEMMA BytesOf ==
    ASSUME NEW b, b.kind # "stored", NEW l, NEW t, AreTokens(b.tokens, l, t)
    PROVE  /\ LiteralBytes(b) = FlattenSeq(TokenBytes(b.tokens))
           /\ FlatTo(TokenBytes(b.tokens), 0) = <<>> /\ FlatTo(TokenBytes(b.tokens), Len(b.tokens)) = LiteralBytes(b)
           /\ LiteralBytes(b) \in Seq(Nat)
           /\ \A n \in 0..Len(b.tokens) :
                 /\ FlatTo(TokenBytes(b.tokens), n) \in Seq(Nat)
                 /\ Len(FlatTo(TokenBytes(b.tokens), n)) <= Len(LiteralBytes(b))
                 /\ \A j \in 1..Len(FlatTo(TokenBytes(b.tokens), n)) : LiteralBytes(b)[j] = FlatTo(TokenBytes(b.tokens), n)[j]
           /\ \A n \in 1..Len(b.tokens) :
                 FlatTo(TokenBytes(b.tokens), n) =
                    IF "lit" \in DOMAIN b.tokens[n] THEN Append(FlatTo(TokenBytes(b.tokens), n - 1), b.tokens[n].lit)
                    ELSE FlatTo(TokenBytes(b.tokens), n - 1)
PROOF
<1> DEFINE q == TokenBytes(b.tokens)
           S == 0..(NumLiterals - 1)
<1>1. LiteralBytes(b) = FlattenSeq(q)
  BY DEF LiteralBytes, TokenBytes
<1>2. /\ Len(b.tokens) \in Nat /\ q \in Seq(Seq(S)) /\ Len(q) = Len(b.tokens)
      /\ \A i \in 1..Len(b.tokens) : q[i] = IF "lit" \in DOMAIN b.tokens[i] THEN <<b.tokens[i].lit>> ELSE <<>>
      /\ \A i \in 1..Len(b.tokens) : IsToken(b.tokens[i], l, t)
  BY TokensType
<1>3. S \subseteq Nat
  BY Parameters
<1>4. \A i \in 1..Len(b.tokens) : "lit" \in DOMAIN b.tokens[i] => b.tokens[i].lit \in S
  BY <1>2 DEF IsToken
<1> HIDE DEF q, S
<1>5. FlatTo(q, 0) = <<>> /\ FlatTo(q, Len(q)) = FlattenSeq(q) /\ \A n \in 1..Len(q) : FlatTo(q, n) = FlatTo(q, n - 1) \o q[n]
  BY <1>2, FlatToSteps
<1>6. ASSUME NEW n \in 0..Len(b.tokens)
      PROVE  /\ FlatTo(q, n) \in Seq(S) /\ FlatTo(q, n) \in Seq(Nat) /\ Len(FlatTo(q, n)) <= Len(FlattenSeq(q))
             /\ \A j \in 1..Len(FlatTo(q, n)) : FlattenSeq(q)[j] = FlatTo(q, n)[j]
  BY <1>2, <1>3, FlatToType, FlatToPrefix, SeqWithin
<1>7. ASSUME NEW n \in 1..Len(b.tokens)
      PROVE  FlatTo(q, n) = IF "lit" \in DOMAIN b.tokens[n] THEN Append(FlatTo(q, n - 1), b.tokens[n].lit) ELSE FlatTo(q, n - 1)
  <2> DEFINE f == FlatTo(q, n - 1)
             x == b.tokens[n].lit
  <2>1. n - 1 \in 0..Len(b.tokens)
    BY <1>2
  <2>2. f \in Seq(S)
    BY <1>6, <2>1
  <2>3. FlatTo(q, n) = f \o q[n]
    BY <1>2, <1>5
  <2>4. q[n] = IF "lit" \in DOMAIN b.tokens[n] THEN <<x>> ELSE <<>>
    BY <1>2
  <2>5. "lit" \in DOMAIN b.tokens[n] => x \in S
    BY <1>4
  <2> HIDE DEF f, x
  <2>6. f \o <<>> = f
    BY <2>2
  <2>7. x \in S => f \o <<x>> = Append(f, x)
    BY <2>2
  <2>8. QED
    BY <2>3, <2>4, <2>5, <2>6, <2>7 DEF f, x
<1>8. LiteralBytes(b) \in Seq(Nat)
  <2>1. Len(b.tokens) \in 0..Len(b.tokens)
    BY <1>2
  <2>2. QED
    BY <1>1, <1>2, <1>5, <1>6, <2>1
<1>9. QED
  BY <1>1, <1>2, <1>5, <1>6, <1>7, <1>8 DEF q

\* The next token of the block in progress.
NextToken(s) == Now(s).tokens[instructions + 1]

\* Where the decoder stands behind n tokens of it.
BehindTokens(s, n) ==
    Start(s) + (TokensStart(Now(s)) + TokenBits(Now(s).tokens, LiteralLengths(Now(s)), DistanceLengths(Now(s)), n))

\* The next token lies where the reader is.
LEMMA TokenAt ==
    ASSUME NEW s, Here(s), phase = "symbols", instructions < Len(Now(s).tokens)
    PROVE  LET b == Now(s)
               l == LiteralLengths(b)
               t == DistanceLengths(b)
               k == NextToken(s)
               q == EncodeToken(k, l, t)
           IN  /\ instructions + 1 \in 1..Len(b.tokens) /\ IsToken(k, l, t) /\ q \in Seq(Bit)
               /\ Lies(data, Position(reader), q) /\ (data = s.bits => Position(reader) + Len(q) <= Len(data))
               /\ Position(reader) + Len(q) = BehindTokens(s, instructions + 1)
PROOF
<1> DEFINE b == Now(s)
           l == LiteralLengths(b)
           t == DistanceLengths(b)
           at == Start(s) + TokensStart(b)
           n == instructions + 1
           k == NextToken(s)
           q == EncodeToken(k, l, t)
           p == Position(reader)
<1>1. /\ AreTokens(b.tokens, l, t) /\ l \in Lengths /\ t \in Lengths
      /\ Len(b.tokens) \in Nat /\ instructions \in 0..Len(b.tokens)
      /\ p = Start(s) + (TokensStart(b) + TokenBits(b.tokens, l, t, instructions))
      /\ Holds(s.bits, at, EncodeTokens(b.tokens, l, t)) /\ Start(s) \in Nat /\ TokensStart(b) \in Nat
  BY SymbolsAt
<1>2. Begins(data, s.bits) /\ Len(s.bits) \in Nat /\ p \in Nat /\ Len(data) \in Nat
  BY HereIs
<1>3. n \in 1..Len(b.tokens) /\ n - 1 = instructions /\ n - 1 \in 0..Len(b.tokens)
  BY <1>1
<1>4. k = b.tokens[n]
  BY DEF NextToken
<1>5. BehindTokens(s, n) = Start(s) + (TokensStart(b) + TokenBits(b.tokens, l, t, n))
  BY DEF BehindTokens
<1>6. at \in Nat
  BY <1>1
<1> HIDE DEF b, l, t, at, n, k, p
<1>7. IsToken(k, l, t) /\ q \in Seq(Bit)
  BY <1>1, <1>3, <1>4, TokensType, TokenType
<1>8. /\ Holds(s.bits, at + TokenBits(b.tokens, l, t, n - 1), q)
      /\ TokenBits(b.tokens, l, t, n) = TokenBits(b.tokens, l, t, n - 1) + Len(q)
      /\ TokenBits(b.tokens, l, t, n - 1) \in Nat
  <2> DEFINE m == n - 1
  <2>1. /\ AreTokens(b.tokens, l, t) /\ Len(s.bits) \in Nat /\ at \in Nat /\ Holds(s.bits, at, EncodeTokens(b.tokens, l, t))
        /\ m \in 0..Len(b.tokens)
    BY <1>1, <1>2, <1>3, <1>6
  <2>2. TokenBits(b.tokens, l, t, m) \in Nat
    <3> HIDE DEF m
    <3>1. QED
      BY <2>1, TokensLie
  <2>3. /\ Holds(s.bits, at + TokenBits(b.tokens, l, t, n - 1), EncodeToken(b.tokens[n], l, t))
        /\ TokenBits(b.tokens, l, t, n) = TokenBits(b.tokens, l, t, n - 1) + Len(EncodeToken(b.tokens[n], l, t))
    BY <1>3, <2>1, TokensLie
  <2>4. QED
    BY <1>4, <2>2, <2>3
<1>9. Holds(s.bits, p, q) /\ p + Len(q) = BehindTokens(s, n)
  <2> DEFINE x == TokenBits(b.tokens, l, t, n - 1)
             y == TokenBits(b.tokens, l, t, n)
             z == Len(q)
  <2>1. /\ x \in Nat /\ y = x + z /\ z \in Nat /\ Holds(s.bits, at + x, q)
        /\ p = Start(s) + (TokensStart(b) + x) /\ BehindTokens(s, n) = Start(s) + (TokensStart(b) + y)
    BY <1>1, <1>3, <1>5, <1>7, <1>8
  <2> HIDE DEF x, y, z, q
  <2>2. at + x = p /\ p + z = BehindTokens(s, n)
    BY <1>1, <2>1 DEF at
  <2>3. QED
    BY <2>1, <2>2 DEF z
<1>10. Lies(data, p, q) /\ (data = s.bits => p + Len(q) <= Len(data))
  BY <1>2, <1>7, <1>9, BeginningLies
<1>11. QED
  BY <1>3, <1>7, <1>9, <1>10 DEF b, l, t, n, k, p

\* A member is only refused for instructions when it has too many.
LEMMA TooManyTokens ==
    ASSUME NEW s, Here(s), phase = "symbols", ~(instructions < MaxInstructions)
    PROVE  ExceedsLimits(s)
PROOF
<1> DEFINE n == Len(Now(s).tokens)
<1>1. n \in Nat /\ instructions \in 0..n /\ Entered(s) /\ Now(s).kind # "stored"
  BY SymbolsAt
<1>2. MaxInstructions \in Nat
  BY Parameters
<1>3. n + 1 > MaxInstructions
  BY <1>1, <1>2
<1>4. Len(blocks) < Len(s.blocks)
  BY <1>1, EnteredIs
<1>5. QED
  BY <1>1, <1>3, <1>4, TooMuch

\* A literal is read as it was written, unless it is one too many.
LEMMA LiteralHere ==
    ASSUME NEW s, Here(s), phase = "symbols", instructions < Len(Now(s).tokens), "lit" \in DOMAIN NextToken(s)
    PROVE  /\ \A w \in LiteralSymbol :
                 /\ Append(block.literals, w.symbol) = FlatTo(TokenBytes(Now(s).tokens), instructions + 1)
                 /\ ReaderOK(data, w.reader) /\ Position(w.reader) = BehindTokens(s, instructions + 1)
           /\ SkippedMatch = {} /\ LastSymbol = {}
           /\ data = s.bits /\ LiteralSymbol = {} => ExceedsLimits(s)
PROOF
<1> DEFINE b == Now(s)
           l == LiteralLengths(b)
           t == DistanceLengths(b)
           n == instructions + 1
           k == NextToken(s)
           q == EncodeToken(k, l, t)
<1>1. /\ AreTokens(b.tokens, l, t) /\ l \in Lengths /\ t \in Lengths /\ IsCode(l) /\ decoders.literal = Tree(l)
      /\ Entered(s) /\ b.kind # "stored" /\ Len(b.tokens) \in Nat /\ instructions \in 0..Len(b.tokens)
      /\ block.literals = FlatTo(TokenBytes(b.tokens), instructions)
  BY SymbolsAt
<1>2. Reading /\ Position(reader) \in Nat /\ Len(data) \in Nat /\ instructions \in Nat
  BY HereIs
<1>3. /\ n \in 1..Len(b.tokens) /\ IsToken(k, l, t) /\ q \in Seq(Bit)
      /\ Lies(data, Position(reader), q) /\ (data = s.bits => Position(reader) + Len(q) <= Len(data))
      /\ Position(reader) + Len(q) = BehindTokens(s, n)
  BY TokenAt
<1>4. k = b.tokens[n] /\ n - 1 = instructions
  BY <1>2 DEF NextToken
<1> HIDE DEF b, l, t, n, k
<1>5. k.lit \in 0..(NumLiterals - 1) /\ k.lit \in Used(l) /\ q = Code(l, k.lit)
  BY <1>1, <1>3, TokenType DEF k
<1>6. Lies(data, Position(reader), Code(l, k.lit))
  BY <1>3, <1>5
<1>7. /\ \A w \in LiteralSymbol : w.symbol = k.lit /\ Along(w.reader, Len(Code(l, k.lit)))
      /\ SkippedMatch = {} /\ LastSymbol = {}
      /\ /\ Position(reader) + Len(Code(l, k.lit)) <= Len(data) /\ instructions \in Nat /\ instructions < MaxInstructions
         /\ Fits(1)
         => LiteralSymbol # {}
  <2> DEFINE x == k.lit
  <2>1. x \in 0..(NumLiterals - 1) /\ x \in Used(l) /\ Lies(data, Position(reader), Code(l, x))
    BY <1>5, <1>6
  <2> HIDE DEF x
  <2>2. /\ \A w \in LiteralSymbol : w.symbol = x /\ Along(w.reader, Len(Code(l, x)))
        /\ SkippedMatch = {} /\ LastSymbol = {}
        /\ /\ Position(reader) + Len(Code(l, x)) <= Len(data) /\ instructions \in Nat /\ instructions < MaxInstructions
           /\ Fits(1)
           => LiteralSymbol # {}
    BY <1>1, <1>2, <2>1, LiteralIs
  <2>3. QED
    BY <2>2 DEF x
<1>8. FlatTo(TokenBytes(b.tokens), n) = Append(block.literals, k.lit)
  <2>1. "lit" \in DOMAIN b.tokens[n]
    BY <1>4 DEF k
  <2>2. QED
    BY <1>1, <1>3, <1>4, <2>1, BytesOf
<1>9. ASSUME NEW w \in LiteralSymbol
      PROVE  /\ Append(block.literals, w.symbol) = FlatTo(TokenBytes(b.tokens), n)
             /\ ReaderOK(data, w.reader) /\ Position(w.reader) = BehindTokens(s, n)
  <2>1. w.symbol = k.lit /\ Along(w.reader, Len(Code(l, k.lit)))
    BY <1>7
  <2>2. QED
    BY <1>3, <1>5, <1>8, <2>1 DEF Along
<1>10. ASSUME data = s.bits, LiteralSymbol = {} PROVE ExceedsLimits(s)
  <2>1. CASE ~(instructions < MaxInstructions)
    BY <2>1, TooManyTokens
  <2>2. CASE ~Fits(1)
    <3> DEFINE x == FlatTo(TokenBytes(b.tokens), instructions)
               y == FlatTo(TokenBytes(b.tokens), n)
    <3>1. x \in Seq(Nat) /\ Len(y) <= Len(LiteralBytes(b)) /\ LiteralBytes(b) \in Seq(Nat)
      <4>1. n \in 0..Len(b.tokens)
        BY <1>1, <1>3
      <4>2. QED
        BY <1>1, <4>1, BytesOf
    <3>2. Len(y) = Len(x) + 1 /\ Len(x) \in Nat
      BY <1>1, <1>8, <3>1
    <3>3. ~(Len(x) + 1 <= MaxBlockLiterals)
      BY <1>1, <2>2 DEF Fits
    <3> HIDE DEF x, y
    <3>4. Len(LiteralBytes(b)) > MaxBlockLiterals
      <4>1. MaxBlockLiterals \in Nat /\ Len(LiteralBytes(b)) \in Nat
        BY <3>1, Parameters
      <4>2. QED
        BY <3>1, <3>2, <3>3, <4>1
    <3>5. Len(blocks) < Len(s.blocks)
      BY <1>1, EnteredIs
    <3>6. QED
      BY <3>4, <3>5, TooMuch DEF b
  <2>3. QED
    BY <1>2, <1>3, <1>5, <1>7, <1>10, <2>1, <2>2
<1>11. QED
  BY <1>7, <1>9, <1>10 DEF b, n

\* A match is skipped to its end, unless it is one too many.
LEMMA MatchHere ==
    ASSUME NEW s, Here(s), phase = "symbols", instructions < Len(Now(s).tokens), "lit" \notin DOMAIN NextToken(s)
    PROVE  /\ \A m \in SkippedMatch : ReaderOK(data, m.reader) /\ Position(m.reader) = BehindTokens(s, instructions + 1)
           /\ block.literals = FlatTo(TokenBytes(Now(s).tokens), instructions + 1)
           /\ LiteralSymbol = {} /\ LastSymbol = {} /\ "match" \in DOMAIN NextToken(s)
           /\ data = s.bits /\ SkippedMatch = {} => ExceedsLimits(s)
PROOF
<1> DEFINE b == Now(s)
           l == LiteralLengths(b)
           t == DistanceLengths(b)
           n == instructions + 1
           k == NextToken(s)
           q == EncodeToken(k, l, t)
<1>1. /\ AreTokens(b.tokens, l, t) /\ l \in Lengths /\ t \in Lengths /\ IsCode(l) /\ IsCode(t)
      /\ decoders.literal = Tree(l) /\ decoders.distance = Tree(t) /\ b.kind # "stored"
      /\ block.literals = FlatTo(TokenBytes(b.tokens), instructions)
  BY SymbolsAt
<1>2. Reading /\ Position(reader) \in Nat /\ Len(data) \in Nat /\ instructions \in Nat
  BY HereIs
<1>3. /\ n \in 1..Len(b.tokens) /\ IsToken(k, l, t) /\ q \in Seq(Bit)
      /\ Lies(data, Position(reader), q) /\ (data = s.bits => Position(reader) + Len(q) <= Len(data))
      /\ Position(reader) + Len(q) = BehindTokens(s, n)
  BY TokenAt
<1>4. k = b.tokens[n] /\ n - 1 = instructions /\ "lit" \notin DOMAIN k
  BY <1>2 DEF NextToken
<1> HIDE DEF b, l, t, n, k
<1>5. /\ \A m \in SkippedMatch : Along(m.reader, Len(q))
      /\ LiteralSymbol = {} /\ LastSymbol = {}
      /\ /\ Position(reader) + Len(q) <= Len(data) /\ instructions \in Nat /\ instructions < MaxInstructions
         => SkippedMatch # {}
  BY <1>1, <1>2, <1>3, <1>4, MatchIs
<1>6. FlatTo(TokenBytes(b.tokens), n) = block.literals
  BY <1>1, <1>3, <1>4, BytesOf
<1>7. DOMAIN k = {"match", "extra", "dist", "dextra"}
  BY <1>3, <1>4 DEF IsToken
<1>8. "match" \in DOMAIN k
  BY <1>7
<1>9. \A m \in SkippedMatch : ReaderOK(data, m.reader) /\ Position(m.reader) = BehindTokens(s, n)
  BY <1>3, <1>5 DEF Along
<1>10. ASSUME data = s.bits, SkippedMatch = {} PROVE ExceedsLimits(s)
  <2>1. ~(instructions < MaxInstructions)
    BY <1>2, <1>3, <1>5, <1>10
  <2>2. QED
    BY <2>1, TooManyTokens
<1>11. QED
  BY <1>5, <1>6, <1>8, <1>9, <1>10 DEF b, n, k

\* The end of the block is read behind all of its tokens.
LEMMA EndHere ==
    ASSUME NEW s, Here(s), phase = "symbols", ~(instructions < Len(Now(s).tokens))
    PROVE  /\ instructions = Len(Now(s).tokens) /\ block.literals = LiteralBytes(Now(s))
           /\ \A w \in LastSymbol : ReaderOK(data, w.reader) /\ Position(w.reader) = Start(s) + Len(Coded(s))
           /\ SkippedMatch = {} /\ LiteralSymbol = {}
           /\ data = s.bits /\ LastSymbol = {} => ExceedsLimits(s)
PROOF
<1> DEFINE b == Now(s)
           l == LiteralLengths(b)
           t == DistanceLengths(b)
           at == Start(s) + TokensStart(b)
           n == Len(b.tokens)
           q == Code(l, EndOfBlock)
           p == Position(reader)
<1>1. /\ AreTokens(b.tokens, l, t) /\ l \in Lengths /\ IsCode(l) /\ EndOfBlock \in Used(l)
      /\ decoders.literal = Tree(l) /\ b.kind # "stored" /\ Entered(s)
      /\ n \in Nat /\ instructions \in 0..n
      /\ block.literals = FlatTo(TokenBytes(b.tokens), instructions)
      /\ p = Start(s) + (TokensStart(b) + TokenBits(b.tokens, l, t, instructions))
      /\ Holds(s.bits, at, EncodeTokens(b.tokens, l, t)) /\ Start(s) \in Nat /\ TokensStart(b) \in Nat
  BY SymbolsAt
<1>2. Reading /\ Begins(data, s.bits) /\ Len(s.bits) \in Nat /\ p \in Nat /\ Len(data) \in Nat /\ instructions \in Nat
  BY HereIs
<1>3. instructions = n
  BY <1>1
<1>4. Len(Coded(s)) = TokensStart(b) + Len(EncodeTokens(b.tokens, l, t))
  BY <1>1, HuffmanIs
<1>5. at \in Nat
  BY <1>1
<1> HIDE DEF b, l, t, at, p
<1>6. q \in Seq(Bit)
  BY <1>1, TokensType
<1>7. /\ Holds(s.bits, at + TokenBits(b.tokens, l, t, n), q)
      /\ Len(EncodeTokens(b.tokens, l, t)) = TokenBits(b.tokens, l, t, n) + Len(q)
      /\ TokenBits(b.tokens, l, t, n) \in Nat
  <2>1. /\ AreTokens(b.tokens, l, t) /\ Len(s.bits) \in Nat /\ at \in Nat /\ Holds(s.bits, at, EncodeTokens(b.tokens, l, t))
        /\ n \in 0..Len(b.tokens)
    BY <1>1, <1>2, <1>5
  <2>2. TokenBits(b.tokens, l, t, n) \in Nat
    <3> HIDE DEF n
    <3>1. QED
      BY <2>1, TokensLie
  <2>3. /\ Holds(s.bits, at + TokenBits(b.tokens, l, t, n), q)
        /\ Len(EncodeTokens(b.tokens, l, t)) = TokenBits(b.tokens, l, t, n) + Len(q)
    BY <2>1, TokensLie
  <2>4. QED
    BY <2>2, <2>3
<1>8. Holds(s.bits, p, q) /\ p + Len(q) = Start(s) + Len(Coded(s))
  <2> DEFINE x == TokenBits(b.tokens, l, t, n)
             y == Len(Coded(s))
             z == Len(q)
  <2>1. /\ x \in Nat /\ y = TokensStart(b) + (x + z) /\ z \in Nat /\ Holds(s.bits, at + x, q)
        /\ p = Start(s) + (TokensStart(b) + x)
    BY <1>1, <1>3, <1>4, <1>6, <1>7
  <2> HIDE DEF x, y, z, q
  <2>2. at + x = p /\ p + z = Start(s) + y
    BY <1>1, <2>1 DEF at
  <2>3. QED
    BY <2>1, <2>2 DEF y, z
<1>9. Lies(data, p, q) /\ (data = s.bits => p + Len(q) <= Len(data))
  BY <1>2, <1>6, <1>8, BeginningLies
<1>10. /\ \A w \in LastSymbol : Along(w.reader, Len(q))
       /\ SkippedMatch = {} /\ LiteralSymbol = {}
       /\ /\ Position(reader) + Len(q) <= Len(data) /\ instructions \in Nat /\ instructions < MaxInstructions
          => LastSymbol # {}
  <2>1. Lies(data, Position(reader), Code(l, EndOfBlock))
    BY <1>9 DEF p
  <2>2. QED
    BY <1>1, <1>2, <2>1, EndIs
<1>11. block.literals = LiteralBytes(b)
  BY <1>1, <1>3, BytesOf
<1>12. \A w \in LastSymbol : ReaderOK(data, w.reader) /\ Position(w.reader) = Start(s) + Len(Coded(s))
  BY <1>8, <1>10 DEF Along, p
<1>13. ASSUME data = s.bits, LastSymbol = {} PROVE ExceedsLimits(s)
  <2>1. ~(instructions < MaxInstructions)
    BY <1>2, <1>9, <1>10, <1>13 DEF p
  <2>2. QED
    BY <2>1, TooManyTokens
<1>14. QED
  BY <1>3, <1>10, <1>11, <1>12, <1>13 DEF b

-----------------------------------------------------------------------------
(* The trailer.                                                            *)

\* The trailer is read as it was written, at the end of the member.
LEMMA TrailerHere ==
    ASSUME NEW s, Here(s), phase = "trailer"
    PROVE  /\ Len(blocks) = Len(s.blocks)
           /\ \A t \in Trailer : /\ t.crc = s.crc /\ t.isize = s.isize /\ ReaderOK(data, t.reader)
                                 /\ Position(t.reader) = Len(s.bits)
           /\ data = s.bits => Trailer # {}
PROOF
<1> DEFINE p == Position(reader)
           at == p + Pad(p)
           c1 == LowFirst(s.crc[1], 16)
           c2 == LowFirst(s.crc[2], 16)
           i1 == LowFirst(s.isize[1], 16)
           i2 == LowFirst(s.isize[2], 16)
           len == Len(s.bits)
<1>1. Len(blocks) = Len(s.blocks) /\ p = BlocksEnd(s)
  BY DEF Here, Follows, Place, AtTrailer
<1>2. Reading /\ Begins(data, s.bits) /\ len \in Nat /\ p \in Nat /\ Len(data) \in Nat
  BY HereIs
<1>3. at = TrailerStart(s)
  BY <1>1, Zenon DEF TrailerStart
<1>4. /\ len = at + 64 /\ Holds(s.bits, at, c1) /\ Holds(s.bits, at + 16, c2)
      /\ Holds(s.bits, at + 32, i1) /\ Holds(s.bits, at + 48, i2)
  BY <1>3, MemberIs DEF Here
<1>5. AreHalves(s.crc) /\ AreHalves(s.isize)
  BY DEF Here, IsMember
<1>6. at \in Nat
  <2>1. Pad(p) \in 0..7
    BY <1>2, PadIs
  <2>2. QED
    BY <1>2, <2>1
<1>7. c1 \in Seq(Bit) /\ c2 \in Seq(Bit) /\ i1 \in Seq(Bit) /\ i2 \in Seq(Bit)
  <2>1. s.crc[1] \in Nat /\ s.crc[2] \in Nat /\ s.isize[1] \in Nat /\ s.isize[2] \in Nat
    BY <1>5, Halves
  <2>2. QED
    BY <2>1, LowFirstType
<1> HIDE DEF at, p, c1, c2, i1, i2, len
<1>8. at + 16 \in Nat /\ at + 32 \in Nat /\ at + 48 \in Nat
  BY <1>6
<1>9. Lies(data, at, c1) /\ Lies(data, at + 16, c2) /\ Lies(data, at + 32, i1) /\ Lies(data, at + 48, i2)
  BY <1>2, <1>4, <1>6, <1>7, <1>8, BeginningLies
<1>10. /\ \A t \in Trailer : t.crc = s.crc /\ t.isize = s.isize /\ ReaderOK(data, t.reader) /\ Position(t.reader) = at + 64
       /\ at + 64 <= Len(data) => Trailer # {}
  <2>1. at = Position(reader) + Pad(Position(reader))
    BY DEF at, p
  <2>2. /\ Lies(data, at, LowFirst(s.crc[1], 16)) /\ Lies(data, at + 16, LowFirst(s.crc[2], 16))
        /\ Lies(data, at + 32, LowFirst(s.isize[1], 16)) /\ Lies(data, at + 48, LowFirst(s.isize[2], 16))
    BY <1>9 DEF c1, c2, i1, i2
  <2> DEFINE crc == s.crc
             isize == s.isize
  <2>3. /\ Lies(data, at, LowFirst(crc[1], 16)) /\ Lies(data, at + 16, LowFirst(crc[2], 16))
        /\ Lies(data, at + 32, LowFirst(isize[1], 16)) /\ Lies(data, at + 48, LowFirst(isize[2], 16))
        /\ AreHalves(crc) /\ AreHalves(isize)
    BY <1>5, <2>2
  <2> HIDE DEF crc, isize
  <2>4. /\ \A t \in Trailer : t.crc = crc /\ t.isize = isize /\ ReaderOK(data, t.reader) /\ Position(t.reader) = at + 64
        /\ at + 64 <= Len(data) => Trailer # {}
    BY <1>2, <2>1, <2>3, TrailerIs
  <2>5. QED
    BY <2>4 DEF crc, isize
<1>11. at + 64 = Len(s.bits)
  BY <1>4 DEF len
<1>12. data = s.bits => at + 64 <= Len(data)
  BY <1>2, <1>11 DEF len
<1>13. QED
  BY <1>1, <1>10, <1>11, <1>12

-----------------------------------------------------------------------------
(* The steps: each leads from where the member says to where it says.      *)

\* A step between blocks or inside of one leaves what is finished.
LEMMA InsideFollows ==
    ASSUME NEW s, Here(s), UNCHANGED <<data, status, blocks>>, Place(s)', Matches(s)'
    PROVE  Follows(s)'
PROOF
<1>1. Finished(s)'
  BY DEF Here, Follows, Finished
<1>2. status' = "running"
  BY DEF Here
<1>3. Ends(s)'
  BY <1>2 DEF Ends
<1>4. QED
  BY <1>1, <1>3 DEF Follows

\* No match is counted outside of the tokens.
LEMMA MatchesKept ==
    ASSUME NEW s, Here(s), UNCHANGED <<blocks, had_matches>>, phase # "symbols", phase' = "symbols" => instructions' = 0
    PROVE  Matches(s)'
PROOF
<1>1. had_matches <=> MatchBefore(s)
  BY DEF Here, Follows, Matches
<1>2. MatchBefore(s)' <=> MatchBefore(s)
  BY DEF MatchBefore
<1>3. ~(phase' = "symbols" /\ MatchIn(Now(s)', instructions'))
  BY DEF MatchIn
<1>4. QED
  BY <1>1, <1>2, <1>3 DEF Matches

\* Where the block in progress is does not change within it.
LEMMA SameNow ==
    ASSUME NEW s, UNCHANGED blocks
    PROVE  Now(s)' = Now(s) /\ Start(s)' = Start(s) /\ IsLastBlock(s)' = IsLastBlock(s)
PROOF
  BY DEF Now, Start, IsLastBlock

\* A head leads to what its block is coded as.
LEMMA BlockHeaderFollows == ASSUME NEW s, Here(s), BlockHeader PROVE Follows(s)'
PROOF
<1> DEFINE b == Now(s)
<1>1. PICK h \in Header :
        /\ reader' = h.reader
        /\ block' = [start |-> Position(reader), final |-> h.final, literals |-> <<>>]
        /\ phase' = CASE h.type = 0 -> "stored" [] h.type = 1 -> "symbols" [] h.type = 2 -> "sizes"
        /\ decoders' \in IF h.type = 1 THEN FixedDecoders ELSE {decoders}
  BY DEF BlockHeader
<1>2. phase = "block" /\ instructions' = 0 /\ UNCHANGED <<data, status, blocks, had_matches>>
  BY DEF BlockHeader, At
<1>3. /\ Len(blocks) < Len(s.blocks) /\ Position(reader) = Start(s)
      /\ h.final = IsLastBlock(s) /\ h.type = TypeOf(b) /\ Along(h.reader, 3)
  BY <1>2, HeaderHere
<1>4. IsBlock(b) /\ Start(s) \in Nat /\ Holds(s.bits, Start(s), Coded(s)) /\ Len(s.bits) \in Nat
  BY <1>3, NowIs, HereIs
<1>5. Now(s)' = b /\ Start(s)' = Start(s) /\ IsLastBlock(s)' = IsLastBlock(s)
  BY <1>2, SameNow
<1>6. Entered(s)' /\ block'.literals = <<>>
  BY <1>1, <1>2, <1>3, <1>5 DEF Entered
<1>7. Position(reader') = Start(s) + 3
  BY <1>1, <1>3 DEF Along
<1>8. Stands(s, 3)'
  BY <1>5, <1>7 DEF Stands
<1> HIDE DEF b
<1>9. Place(s)'
  <2>1. CASE b.kind = "stored"
    <3>1. phase' = "stored"
      BY <1>1, <1>3, <2>1 DEF TypeOf
    <3>2. AtStored(s)'
      BY <1>5, <1>6, <1>8, <2>1 DEF AtStored
    <3>3. QED
      BY <3>1, <3>2 DEF Place
  <2>2. CASE b.kind = "dynamic"
    <3>1. phase' = "sizes"
      BY <1>1, <1>3, <2>2 DEF TypeOf
    <3>2. AtSizes(s)'
      BY <1>5, <1>6, <1>8, <2>2 DEF AtSizes
    <3>3. QED
      BY <3>1, <3>2 DEF Place
  <2>3. CASE b.kind = "fixed" /\ AreTokens(b.tokens, FixedLiterals, FixedDistances)
    <3> DEFINE l == LiteralLengths(b)
               t == DistanceLengths(b)
    <3>1. h.type = 1 /\ phase' = "symbols" /\ b.kind # "stored"
      BY <1>1, <1>3, <2>3 DEF TypeOf
    <3>2. l = FixedLiterals /\ t = FixedDistances /\ TokensStart(b) = 3
      BY <2>3 DEF LiteralLengths, DistanceLengths, TokensStart
    <3>3. decoders' \in {[code_length |-> NoDecoder, literal |-> Tree(l), distance |-> Tree(t)]}
      BY <1>1, <2>3, <3>1, <3>2, FixedIs
    <3>4. decoders'.literal = Tree(l) /\ decoders'.distance = Tree(t)
      BY <3>3
    <3>5. Len(b.tokens) \in Nat /\ FlatTo(TokenBytes(b.tokens), 0) = <<>>
      BY <2>3, TokensType, <3>1, BytesOf
    <3>6. TokenBits(b.tokens, l, t, 0) = 0
      <4> HIDE DEF l, t
      <4>1. AreTokens(b.tokens, l, t)
        BY <2>3, <3>2
      <4>2. TokenCodes(b.tokens, l, t) \in Seq(Seq(Bit))
        BY <4>1, TokensType
      <4>3. FlatTo(TokenCodes(b.tokens, l, t), 0) = <<>>
        BY <4>2, FlatToSteps
      <4>4. QED
        BY <4>3 DEF TokenBits
    <3> HIDE DEF l, t
    <3>7. Position(reader') = Start(s)' + (TokensStart(b) + TokenBits(b.tokens, l, t, instructions'))
      <4>1. TokensStart(b) + TokenBits(b.tokens, l, t, 0) = 3
        BY <3>2, <3>6
      <4>2. QED
        BY <1>2, <1>5, <1>7, <4>1
    <3>8. AtSymbols(s)'
      <4>1. instructions' <= Len(b.tokens) /\ block'.literals = FlatTo(TokenBytes(b.tokens), instructions')
        BY <1>2, <1>6, <3>5
      <4>2. QED
        BY <1>5, <1>6, <3>1, <3>4, <3>7, <4>1 DEF AtSymbols, Stands, l, t
    <3>9. QED
      BY <3>1, <3>8 DEF Place
  <2>4. QED
    BY <1>4, <2>1, <2>2, <2>3 DEF IsBlock
<1>10. Matches(s)'
  BY <1>2, MatchesKept
<1>11. QED
  BY <1>2, <1>9, <1>10, InsideFollows

\* All of a block's tokens, and whether a match is among them.
MatchInNow(s) == MatchIn(Now(s), Len(Now(s).tokens))

\* A block that ends is the next one of the member.
LEMMA EndBlockFollows ==
    ASSUME NEW s, Here(s), Entered(s), NEW r, NEW x, x.start = Start(s), x.final = IsLastBlock(s),
           x.literals = LiteralBytes(Now(s)), Position(r) = Start(s) + Len(Coded(s)), EndBlock(r, x),
           UNCHANGED <<data, status, had_matches>>, had_matches <=> (MatchBefore(s) \/ MatchInNow(s))
    PROVE  Follows(s)' /\ total' = LiteralsOf(blocks')
PROOF
<1> DEFINE k == Len(blocks)
           e == [start |-> x.start, end |-> Position(r), literals |-> x.literals]
           n == Len(s.blocks)
<1>1. /\ total' = total + Len(x.literals) /\ blocks' = Append(blocks, e)
      /\ phase' = (IF x.final THEN "trailer" ELSE "block") /\ reader' = r
  BY DEF EndBlock
<1>2. /\ blocks \in Seq(BlockType) /\ k \in Nat /\ n \in Nat /\ s.extents \in Seq(BlockType) /\ Len(s.extents) = n
      /\ total = LiteralsOf(blocks) /\ Begins(data, s.bits) /\ \A i \in 1..k : blocks[i] = s.extents[i]
  BY HereIs
<1>3. k < n /\ k + 1 \in 1..n
  BY <1>2 DEF Entered
<1>4. e = s.extents[k + 1] /\ e.literals = x.literals
  BY <1>3, NowIs
<1>5. e \in BlockType
  BY <1>2, <1>3, <1>4, ElementOfSeq
<1> HIDE DEF e
<1>6. /\ blocks' \in Seq(BlockType) /\ Len(blocks') = k + 1 /\ blocks'[k + 1] = e /\ \A i \in 1..k : blocks'[i] = blocks[i]
  BY <1>1, <1>2, <1>5, Appended
<1>7. total' = LiteralsOf(blocks')
  BY <1>1, <1>2, <1>4, <1>5, LiteralsOfMore
<1>8. Position(r) = s.extents[k + 1].end
  BY <1>4 DEF e
<1> HIDE DEF k, n
<1>9. Finished(s)'
  <2>1. ASSUME NEW i \in 1..(k + 1) PROVE blocks'[i] = s.extents[i]
    <3>1. i = k + 1 \/ i \in 1..k
      BY <1>2
    <3>2. QED
      BY <1>2, <1>4, <1>6, <3>1
  <2>2. Len(blocks') <= Len(s.blocks)
    BY <1>2, <1>3, <1>6 DEF n
  <2>3. \A i \in 1..Len(blocks') : blocks'[i] = s.extents[i]
    BY <1>6, <2>1
  <2>4. Begins(data', s.bits)
    BY <1>2
  <2>5. QED
    BY <2>2, <2>3, <2>4 DEF Finished
<1>10. x.final <=> k + 1 = n
  BY DEF IsLastBlock, k, n
<1>11. Place(s)'
  <2>1. CASE k + 1 = n
    <3>1. phase' = "trailer" /\ Len(blocks') = n
      BY <1>1, <1>6, <1>10, <2>1
    <3>2. Position(reader') = BlocksEnd(s)
      BY <1>1, <1>8, <2>1 DEF BlocksEnd, n
    <3>3. QED
      BY <3>1, <3>2 DEF Place, AtTrailer, n
  <2>2. CASE k + 1 # n
    <3>1. phase' = "block" /\ Len(blocks') < n
      BY <1>1, <1>2, <1>3, <1>6, <1>10, <2>2
    <3>2. s.extents[k + 1 + 1].start = s.extents[k + 1].end /\ s.extents[k + 1 + 1].start \in Nat
      <4> DEFINE j == k + 1 + 1
      <4>1. j \in 1..n /\ j # 1 /\ j - 1 = k + 1
        BY <1>2, <1>3, <2>2
      <4> HIDE DEF j
      <4>2. InPlace(s, s.blocks, j)
        BY <4>1, MemberIs DEF Here, Laid, n
      <4>3. QED
        BY <4>1, <4>2 DEF InPlace, j
    <3>3. Start(s)' = s.extents[k + 1 + 1].start
      BY <1>6 DEF Start
    <3>4. Position(reader') = Start(s)' + 0
      BY <1>1, <1>8, <3>2, <3>3
    <3>5. QED
      BY <3>1, <3>4 DEF Place, AtBlock, Stands, n
  <2>3. QED
    BY <2>1, <2>2
<1>12. Matches(s)'
  <2>1. MatchBefore(s)' <=> (MatchBefore(s) \/ MatchInNow(s))
    <3>1. \A i : i \in 1..(k + 1) <=> (i \in 1..k \/ i = k + 1)
      BY <1>2
    <3>2. MatchInNow(s) <=> MatchIn(s.blocks[k + 1], Len(s.blocks[k + 1].tokens))
      BY DEF MatchInNow, Now, k
    <3>3. MatchBefore(s)' <=> \E i \in 1..(k + 1) : MatchIn(s.blocks[i], Len(s.blocks[i].tokens))
      BY <1>6 DEF MatchBefore
    <3>4. MatchBefore(s) <=> \E i \in 1..k : MatchIn(s.blocks[i], Len(s.blocks[i].tokens))
      BY DEF MatchBefore, k
    <3>5. QED
      BY <3>1, <3>2, <3>3, <3>4, Zenon
  <2>2. phase' # "symbols"
    BY <1>1
  <2>3. QED
    BY <2>1, <2>2 DEF Matches
<1>13. Ends(s)'
  <2>1. status' = "running"
    BY DEF Here
  <2>2. QED
    BY <2>1 DEF Ends
<1>14. QED
  BY <1>7, <1>9, <1>11, <1>12, <1>13 DEF Follows

\* A stored block is the next one of the member.
LEMMA StoredBlockFollows == ASSUME NEW s, Here(s), StoredBlock PROVE Follows(s)' /\ total' = LiteralsOf(blocks')
PROOF
<1>1. PICK v \in Stored : EndBlock(v.reader, [block EXCEPT !.literals = v.bytes])
  BY DEF StoredBlock
<1> DEFINE x == [block EXCEPT !.literals = v.bytes]
<1>2. phase = "stored" /\ UNCHANGED <<data, status, had_matches>>
  BY DEF StoredBlock, At
<1>3. /\ Entered(s) /\ Now(s).kind = "stored" /\ v.bytes = LiteralBytes(Now(s))
      /\ Position(v.reader) = Start(s) + Len(Coded(s))
  BY <1>2, StoredHere
<1>4. block \in BlockInProgress
  BY DEF Here, IInv, TypeOK, BlockInProgress
<1>5. x.start = block.start /\ x.final = block.final /\ x.literals = v.bytes
  BY <1>4 DEF BlockInProgress
<1>6. block.start = Start(s) /\ block.final = IsLastBlock(s)
  BY <1>3 DEF Entered
<1>7. had_matches <=> (MatchBefore(s) \/ MatchInNow(s))
  <2>1. had_matches <=> MatchBefore(s)
    BY <1>2 DEF Here, Follows, Matches
  <2>2. ~MatchInNow(s)
    BY <1>3 DEF MatchInNow, MatchIn
  <2>3. QED
    BY <2>1, <2>2
<1> HIDE DEF x
<1>8. EndBlock(v.reader, x)
  BY <1>1 DEF x
<1>9. QED
  BY <1>2, <1>3, <1>5, <1>6, <1>7, <1>8, EndBlockFollows

\* So is a block of which the end is read: none of its tokens is left.
LEMMA EndOfSymbolsFollows == ASSUME NEW s, Here(s), EndOfSymbols PROVE Follows(s)' /\ total' = LiteralsOf(blocks')
PROOF
<1>1. PICK w \in LastSymbol : EndBlock(w.reader, block)
  BY DEF EndOfSymbols
<1>2. phase = "symbols" /\ UNCHANGED <<data, status, had_matches>>
  BY DEF EndOfSymbols, At
<1>3. Entered(s) /\ Len(Now(s).tokens) \in Nat /\ instructions \in 0..Len(Now(s).tokens)
  BY <1>2, SymbolsAt
<1>4. ~(instructions < Len(Now(s).tokens))
  <2> SUFFICES ASSUME instructions < Len(Now(s).tokens) PROVE FALSE
    OBVIOUS
  <2>1. LastSymbol = {}
    BY <1>2, LiteralHere, MatchHere
  <2>2. QED
    BY <2>1
<1>5. /\ instructions = Len(Now(s).tokens) /\ block.literals = LiteralBytes(Now(s))
      /\ Position(w.reader) = Start(s) + Len(Coded(s))
  BY <1>2, <1>4, EndHere
<1>6. block.start = Start(s) /\ block.final = IsLastBlock(s)
  BY <1>3 DEF Entered
<1>7. had_matches <=> (MatchBefore(s) \/ MatchInNow(s))
  BY <1>2, <1>5 DEF Here, Follows, Matches, MatchInNow
<1>8. QED
  BY <1>1, <1>2, <1>3, <1>5, <1>6, <1>7, EndBlockFollows

\* A pass inside of a block leaves where the block is.
LEMMA EnteredKept ==
    ASSUME NEW s, Entered(s), UNCHANGED <<blocks, block>>
    PROVE  Entered(s)' /\ Now(s)' = Now(s) /\ Start(s)' = Start(s)
PROOF
<1>1. Now(s)' = Now(s) /\ Start(s)' = Start(s) /\ IsLastBlock(s)' = IsLastBlock(s)
  BY SameNow
<1>2. QED
  BY <1>1 DEF Entered

\* HLIT, HDIST and HCLEN are read: the lengths of the code-length code are next.
LEMMA DynamicSizesFollows == ASSUME NEW s, Here(s), DynamicSizes PROVE Follows(s)'
PROOF
<1> DEFINE b == Now(s)
<1>1. PICK h \in Sizes : reader' = h.reader /\ sizes' = [hlit |-> h.hlit, hdist |-> h.hdist, hclen |-> h.hclen]
  BY DEF DynamicSizes
<1>2. /\ phase = "sizes" /\ phase' = "codelens" /\ codelens' = <<>>
      /\ UNCHANGED <<data, status, blocks, block, had_matches>>
  BY DEF DynamicSizes, At
<1>3. /\ Entered(s) /\ b.kind = "dynamic" /\ block.literals = <<>> /\ Position(reader) = Start(s) + 3 /\ SizesHead \in Nat
      /\ h.hlit = b.hlit /\ h.hdist = b.hdist /\ h.hclen = b.hclen /\ Along(h.reader, SizesHead)
  BY <1>2, SizesHere
<1>4. Entered(s)' /\ Now(s)' = b /\ Start(s)' = Start(s) /\ Start(s) \in Nat
  BY <1>2, <1>3, EnteredKept, EnteredIs
<1>5. Position(reader') = Start(s)' + (3 + (SizesHead + CodeLenBits * Len(codelens')))
  <2>1. CodeLenBits * 0 = 0 /\ Len(codelens') = 0
    BY <1>2, Widths
  <2>2. Position(reader') = Start(s) + 3 + SizesHead
    BY <1>1, <1>3 DEF Along
  <2>3. QED
    BY <1>3, <1>4, <2>1, <2>2
<1> HIDE DEF b
<1>6. sizes' = [hlit |-> b.hlit, hdist |-> b.hdist, hclen |-> b.hclen]
  BY <1>1, <1>3
<1>7. AtCodelens(s)'
  BY <1>2, <1>3, <1>4, <1>5, <1>6 DEF AtCodelens, SizesOf, Stands
<1>8. Place(s)'
  BY <1>2, <1>7 DEF Place
<1>9. Matches(s)'
  BY <1>2, MatchesKept
<1>10. QED
  BY <1>2, <1>8, <1>9, InsideFollows

\* The length of one more code-length code is the one that was sent.
LEMMA ReadCodeLengthLengthFollows == ASSUME NEW s, Here(s), ReadCodeLengthLength PROVE Follows(s)'
PROOF
<1> DEFINE b == Now(s)
           k == Len(codelens)
<1>1. PICK a \in ReadBits(data, reader, CodeLenBits) : reader' = a.reader /\ codelens' = Append(codelens, Number(a.bits))
  BY DEF ReadCodeLengthLength
<1>2. /\ phase = "codelens" /\ phase' = "codelens" /\ k < sizes.hclen
      /\ UNCHANGED <<data, status, blocks, block, had_matches, sizes>>
  BY DEF ReadCodeLengthLength, At
<1>3. /\ AtCodelens(s) /\ Number(a.bits) = b.codelens[HclenOrder[k + 1] + 1] /\ Along(a.reader, CodeLenBits)
  BY <1>2, CodelenHere
<1>4. Entered(s) /\ b.kind = "dynamic" /\ block.literals = <<>> /\ SizesOf(b)
      /\ \A i \in 1..k : codelens[i] = b.codelens[HclenOrder[i] + 1]
  BY <1>3 DEF AtCodelens
<1>5. Entered(s)' /\ Now(s)' = b /\ Start(s)' = Start(s) /\ Start(s) \in Nat
  BY <1>2, <1>4, EnteredKept, EnteredIs
<1>6. /\ codelens \in Seq(Nat) /\ k \in Nat
  BY DEF Here, IInv, TypeOK
<1>7. Number(a.bits) \in Nat
  <2>1. a.bits \in Seq(Bit)
    BY <1>1, InvReads, ReadBitsOK, Parameters DEF Reads, Here
  <2>2. QED
    BY <2>1, NumberNat
<1>8. Len(codelens') = k + 1 /\ codelens'[k + 1] = Number(a.bits) /\ \A i \in 1..k : codelens'[i] = codelens[i]
  BY <1>1, <1>6, <1>7, Appended
<1>9. Position(reader') = Start(s)' + (3 + (SizesHead + CodeLenBits * Len(codelens')))
  <2>1. CodeLenBits \in Nat /\ SizesHead \in Nat
    <3>1. SizeBits[1] \in Nat /\ SizeBits[2] \in Nat /\ SizeBits[3] \in Nat /\ CodeLenBits \in Nat
      BY Widths
    <3>2. QED
      BY <3>1 DEF SizesHead
  <2>2. CodeLenBits * (k + 1) = CodeLenBits * k + CodeLenBits /\ CodeLenBits * k \in Nat
    BY <1>6, <2>1
  <2>3. Position(reader) = Start(s) + (3 + (SizesHead + CodeLenBits * k))
    BY <1>3 DEF AtCodelens, Stands
  <2>4. Position(reader') = Position(reader) + CodeLenBits
    BY <1>1, <1>3 DEF Along
  <2> DEFINE m == CodeLenBits * k
  <2> HIDE DEF m
  <2>5. Position(reader') = Start(s) + (3 + (SizesHead + (m + CodeLenBits)))
    BY <1>5, <2>1, <2>2, <2>3, <2>4 DEF m
  <2>6. QED
    BY <1>5, <1>8, <2>2, <2>5 DEF m
<1> HIDE DEF b, k
<1>10. \A i \in 1..Len(codelens') : codelens'[i] = b.codelens[HclenOrder[i] + 1]
  <2>1. ASSUME NEW i \in 1..(k + 1) PROVE codelens'[i] = b.codelens[HclenOrder[i] + 1]
    <3>1. i = k + 1 \/ i \in 1..k
      BY <1>6 DEF k
    <3>2. QED
      BY <1>3, <1>4, <1>8, <3>1
  <2>2. QED
    BY <1>8, <2>1
<1>11. sizes' = [hlit |-> b.hlit, hdist |-> b.hdist, hclen |-> b.hclen]
  BY <1>2, <1>4 DEF SizesOf
<1>12. AtCodelens(s)'
  BY <1>2, <1>4, <1>5, <1>9, <1>10, <1>11 DEF AtCodelens, SizesOf, Stands
<1>13. Place(s)'
  BY <1>2, <1>12 DEF Place
<1>14. Matches(s)'
  BY <1>2, MatchesKept
<1>15. QED
  BY <1>2, <1>13, <1>14, InsideFollows

\* The code-length code is the encoder's, and no run is read of it yet.
LEMMA CodeLengthTreeFollows == ASSUME NEW s, Here(s), CodeLengthTree PROVE Follows(s)'
PROOF
<1> DEFINE b == Now(s)
<1>1. PICK t \in FromLengths(CodeLengthLengths) : decoders' = [decoders EXCEPT !.code_length = t]
  BY DEF CodeLengthTree
<1>2. /\ phase = "codelens" /\ phase' = "lengths" /\ lengths' = <<>> /\ instructions' = 0 /\ Len(codelens) = sizes.hclen
      /\ UNCHANGED <<data, reader, status, blocks, block, had_matches, sizes>>
  BY DEF CodeLengthTree, At
<1>3. /\ AtCodelens(s) /\ RunsStart(b) = 3 + (SizesHead + CodeLenBits * Len(codelens)) /\ t = Tree(b.codelens)
  BY <1>2, TreeHere
<1>4. /\ Entered(s) /\ b.kind = "dynamic" /\ block.literals = <<>> /\ SizesOf(b)
      /\ Position(reader) = Start(s) + RunsStart(b)
  BY <1>3 DEF AtCodelens, Stands
<1>5. Entered(s)' /\ Now(s)' = b /\ Start(s)' = Start(s) /\ Start(s) \in Nat
  BY <1>2, <1>4, EnteredKept, EnteredIs
<1>6. AreTrees(b) /\ RunsStart(b) \in Nat
  BY <1>4, DynamicIs
<1>7. AreRuns(b.runs, b.codelens) /\ b.codelens \in Lengths /\ Len(b.runs) \in Nat
  <2>1. AreRuns(b.runs, b.codelens) /\ b.codelens \in Lengths
    BY <1>6, TreesType
  <2>2. QED
    BY <2>1, RunCodesType
<1> HIDE DEF b
<1>8. UpToRun(b.runs)[0] = <<>>
  BY <1>7, UpToRunIs
<1>9. RunBits(b.runs, b.codelens, 0) = 0
  <2>1. RunCodes(b.runs, b.codelens) \in Seq(Seq(Bit))
    BY <1>7, RunCodesType
  <2>2. FlatTo(RunCodes(b.runs, b.codelens), 0) = <<>>
    BY <2>1, FlatToSteps
  <2>3. QED
    BY <2>2 DEF RunBits
<1>10. decoders'.code_length = Tree(b.codelens)
  <2>1. "code_length" \in DOMAIN decoders
    BY DEF Here, Formed
  <2>2. QED
    BY <1>1, <1>3, <2>1
<1>11. Position(reader') = Start(s)' + (RunsStart(b) + RunBits(b.runs, b.codelens, instructions'))
  BY <1>2, <1>4, <1>5, <1>6, <1>9
<1>12. AtLengths(s)'
  <2>1. sizes' = [hlit |-> b.hlit, hdist |-> b.hdist, hclen |-> b.hclen]
    BY <1>2, <1>4 DEF SizesOf
  <2>2. /\ instructions' <= Len(b.runs) /\ lengths' = UpToRun(b.runs)[instructions'] /\ ~(instructions' >= 1)
    BY <1>2, <1>7, <1>8
  <2>3. QED
    BY <1>2, <1>4, <1>5, <1>10, <1>11, <2>1, <2>2 DEF AtLengths, SizesOf, Stands
<1>13. Place(s)'
  BY <1>2, <1>12 DEF Place
<1>14. Matches(s)'
  BY <1>2, MatchesKept
<1>15. QED
  BY <1>2, <1>13, <1>14, InsideFollows

\* One more run of the code lengths is what it expands to.
LEMMA DecodeCodeLengthFollows == ASSUME NEW s, Here(s), DecodeCodeLength PROVE Follows(s)'
PROOF
<1> DEFINE b == Now(s)
           n == instructions + 1
<1>1. PICK x \in CodeLength : reader' = x.reader /\ lengths' = x.lengths /\ prev' = x.prev
  BY DEF DecodeCodeLength
<1>2. /\ phase = "lengths" /\ phase' = "lengths" /\ Len(lengths) < Wanted /\ instructions' = n
      /\ UNCHANGED <<data, status, blocks, block, had_matches, sizes, decoders>>
  BY DEF DecodeCodeLength, At
<1>3. /\ n \in 1..Len(b.runs) /\ x.lengths = UpToRun(b.runs)[n]
      /\ Position(x.reader) = Start(s) + (RunsStart(b) + RunBits(b.runs, b.codelens, n))
      /\ b.runs[n].symbol <= MaxCodeBits + 1 => x.prev = Last(x.lengths)
  BY <1>2, LengthsHere
<1>4. AtLengths(s) /\ Len(b.runs) \in Nat
  BY <1>2, LengthsAt
<1>5. /\ Entered(s) /\ b.kind = "dynamic" /\ block.literals = <<>> /\ SizesOf(b) /\ decoders.code_length = Tree(b.codelens)
  BY <1>4 DEF AtLengths
<1>6. Entered(s)' /\ Now(s)' = b /\ Start(s)' = Start(s)
  BY <1>2, <1>5, EnteredKept
<1>7. n <= Len(b.runs)
  BY <1>3, <1>4
<1> HIDE DEF b, n
<1>8. Position(reader') = Start(s)' + (RunsStart(b) + RunBits(b.runs, b.codelens, instructions'))
  BY <1>1, <1>2, <1>3, <1>6
<1>9. AtLengths(s)'
  <2>1. sizes' = [hlit |-> b.hlit, hdist |-> b.hdist, hclen |-> b.hclen]
    BY <1>2, <1>5 DEF SizesOf
  <2>2. /\ instructions' <= Len(b.runs) /\ lengths' = UpToRun(b.runs)[instructions']
        /\ b.runs[instructions'].symbol <= MaxCodeBits + 1 => prev' = Last(lengths')
    BY <1>1, <1>2, <1>3, <1>7
  <2>3. QED
    BY <1>2, <1>5, <1>6, <1>8, <2>1, <2>2 DEF AtLengths, SizesOf, Stands
<1>10. Place(s)'
  BY <1>2, <1>9 DEF Place
<1>11. Matches(s)'
  BY <1>2, MatchesKept
<1>12. QED
  BY <1>2, <1>10, <1>11, InsideFollows

\* No token takes a bit before the first.
LEMMA NoTokenBits ==
    ASSUME NEW tokens, NEW l, NEW t, AreTokens(tokens, l, t)
    PROVE  TokenBits(tokens, l, t, 0) = 0
PROOF
<1>1. TokenCodes(tokens, l, t) \in Seq(Seq(Bit))
  BY TokensType
<1>2. FlatTo(TokenCodes(tokens, l, t), 0) = <<>>
  BY <1>1, FlatToSteps
<1>3. QED
  BY <1>2 DEF TokenBits

\* The codes of a dynamic block are the encoder's, and no token is read yet.
LEMMA DynamicTreesFollows == ASSUME NEW s, Here(s), DynamicTrees PROVE Follows(s)'
PROOF
<1> DEFINE b == Now(s)
           l == LiteralLengths(b)
           t == DistanceLengths(b)
<1>1. /\ phase = "lengths" /\ phase' = "symbols" /\ Len(lengths) = Wanted /\ instructions' = 0
      /\ decoders' \in DynamicDecoders
      /\ UNCHANGED <<data, reader, status, blocks, block, had_matches>>
  BY DEF DynamicTrees, At
<1>2. /\ Position(reader) = Start(s) + TokensStart(b)
      /\ DynamicDecoders = {[code_length |-> NoDecoder, literal |-> Tree(l), distance |-> Tree(t)]}
  BY <1>1, TreesHere
<1>3. AtLengths(s)
  BY <1>1, LengthsAt
<1>4. Entered(s) /\ b.kind = "dynamic" /\ block.literals = <<>>
  BY <1>3 DEF AtLengths
<1>5. Entered(s)' /\ Now(s)' = b /\ Start(s)' = Start(s) /\ Start(s) \in Nat
  BY <1>1, <1>4, EnteredKept, EnteredIs
<1>6. AreTokens(b.tokens, l, t) /\ TokensStart(b) \in Nat
  BY <1>4, HuffmanIs
<1>7. decoders'.literal = Tree(l) /\ decoders'.distance = Tree(t)
  BY <1>1, <1>2
<1> HIDE DEF b
<1> HIDE DEF l, t
<1>8. Len(b.tokens) \in Nat /\ FlatTo(TokenBytes(b.tokens), 0) = <<>>
  BY <1>4, <1>6, TokensType, BytesOf
<1>9. TokenBits(b.tokens, l, t, 0) = 0
  BY <1>6, NoTokenBits
<1>10. Position(reader') = Start(s)' + (TokensStart(b) + TokenBits(b.tokens, l, t, instructions'))
  BY <1>1, <1>2, <1>5, <1>6, <1>9
<1>11. AtSymbols(s)'
  <2>1. instructions' <= Len(b.tokens) /\ block'.literals = FlatTo(TokenBytes(b.tokens), instructions')
    BY <1>1, <1>4, <1>8
  <2>2. QED
    BY <1>4, <1>5, <1>7, <1>10, <2>1 DEF AtSymbols, Stands, l, t
<1>12. Place(s)'
  BY <1>1, <1>11 DEF Place
<1>13. Matches(s)'
  BY <1>1, MatchesKept
<1>14. QED
  BY <1>1, <1>12, <1>13, InsideFollows

\* Within the tokens of a block: one more is behind.
LEMMA TokenFollows ==
    ASSUME NEW s, Here(s), phase = "symbols", phase' = "symbols", instructions < Len(Now(s).tokens), instructions' = instructions + 1,
           UNCHANGED <<data, status, blocks, decoders>>, block'.start = block.start, block'.final = block.final,
           block'.literals = FlatTo(TokenBytes(Now(s).tokens), instructions + 1),
           Position(reader') = BehindTokens(s, instructions + 1),
           had_matches' <=> (had_matches \/ "match" \in DOMAIN NextToken(s))
    PROVE  Follows(s)'
PROOF
<1> DEFINE b == Now(s)
           l == LiteralLengths(b)
           t == DistanceLengths(b)
           n == instructions + 1
<1>1. /\ Entered(s) /\ b.kind # "stored" /\ Len(b.tokens) \in Nat /\ instructions \in Nat
      /\ decoders.literal = Tree(l) /\ decoders.distance = Tree(t)
  BY SymbolsAt
<1>2. Now(s)' = b /\ Start(s)' = Start(s) /\ IsLastBlock(s)' = IsLastBlock(s)
  BY SameNow
<1>3. Entered(s)'
  BY <1>1, <1>2 DEF Entered
<1>4. Position(reader') = Start(s)' + (TokensStart(b) + TokenBits(b.tokens, l, t, instructions'))
  BY <1>2 DEF BehindTokens
<1>5. instructions' <= Len(b.tokens) /\ block'.literals = FlatTo(TokenBytes(b.tokens), instructions')
  BY <1>1
<1>6. AtSymbols(s)'
  <2> HIDE DEF b
  <2>1. l = LiteralLengths(b) /\ t = DistanceLengths(b)
    OBVIOUS
  <2> HIDE DEF l, t
  <2>2. QED
    BY <1>1, <1>2, <1>3, <1>4, <1>5, <2>1 DEF AtSymbols, Stands
<1>7. Place(s)'
  BY <1>6 DEF Place
<1>8. Matches(s)'
  <2>1. had_matches <=> (MatchBefore(s) \/ MatchIn(b, instructions))
    BY DEF Here, Follows, Matches
  <2>2. MatchIn(b, n) <=> (MatchIn(b, instructions) \/ "match" \in DOMAIN NextToken(s))
    <3>1. \A i : i \in 1..n <=> (i \in 1..instructions \/ i = n)
      BY <1>1
    <3>2. NextToken(s) = b.tokens[n]
      BY DEF NextToken
    <3> HIDE DEF b, n
    <3>3. QED
      BY <1>1, <3>1, <3>2, Zenon DEF MatchIn
  <2>3. MatchBefore(s)' <=> MatchBefore(s)
    BY DEF MatchBefore
  <2>4. MatchIn(Now(s)', instructions') <=> MatchIn(b, n)
    BY <1>2
  <2> HIDE DEF b, n
  <2>5. Matches(s)' <=> (had_matches' <=> (MatchBefore(s)' \/ (phase' = "symbols" /\ MatchIn(Now(s)', instructions'))))
    BY DEF Matches
  <2>6. QED
    BY <2>1, <2>2, <2>3, <2>4, <2>5
<1>9. QED
  BY <1>7, <1>8, InsideFollows

\* A literal is the next byte of the block.
LEMMA LiteralFollows == ASSUME NEW s, Here(s), Literal PROVE Follows(s)'
PROOF
<1>1. PICK w \in LiteralSymbol : reader' = w.reader /\ block' = [block EXCEPT !.literals = Append(block.literals, w.symbol)]
  BY DEF Literal
<1>2. /\ phase = "symbols" /\ phase' = "symbols" /\ instructions' = instructions + 1
      /\ UNCHANGED <<data, status, blocks, decoders, had_matches>>
  BY DEF Literal, At
<1>3. instructions < Len(Now(s).tokens) /\ "lit" \in DOMAIN NextToken(s)
  <2> SUFFICES ASSUME ~(instructions < Len(Now(s).tokens) /\ "lit" \in DOMAIN NextToken(s)) PROVE FALSE
    OBVIOUS
  <2>1. LiteralSymbol = {}
    BY <1>2, MatchHere, EndHere
  <2>2. QED
    BY <2>1
<1>4. /\ Append(block.literals, w.symbol) = FlatTo(TokenBytes(Now(s).tokens), instructions + 1)
      /\ Position(w.reader) = BehindTokens(s, instructions + 1)
  BY <1>2, <1>3, LiteralHere
<1>5. block \in BlockInProgress
  BY DEF Here, IInv, TypeOK, BlockInProgress
<1>6. /\ block'.start = block.start /\ block'.final = block.final
      /\ block'.literals = FlatTo(TokenBytes(Now(s).tokens), instructions + 1)
  BY <1>1, <1>4, <1>5 DEF BlockInProgress
<1>7. "match" \notin DOMAIN NextToken(s)
  <2>1. IsToken(NextToken(s), LiteralLengths(Now(s)), DistanceLengths(Now(s)))
    BY <1>2, <1>3, TokenAt
  <2>2. DOMAIN NextToken(s) = {"lit"}
    BY <1>3, <2>1 DEF IsToken
  <2>3. QED
    BY <2>2
<1>8. QED
  BY <1>1, <1>2, <1>3, <1>4, <1>6, <1>7, TokenFollows

\* A match is skipped, and remembered.
LEMMA SkipMatchFollows == ASSUME NEW s, Here(s), SkipMatch PROVE Follows(s)'
PROOF
<1>1. PICK m \in SkippedMatch : reader' = m.reader
  BY DEF SkipMatch
<1>2. /\ phase = "symbols" /\ phase' = "symbols" /\ instructions' = instructions + 1 /\ had_matches' = TRUE
      /\ UNCHANGED <<data, status, blocks, block, decoders>>
  BY DEF SkipMatch, At
<1>3. instructions < Len(Now(s).tokens) /\ "lit" \notin DOMAIN NextToken(s)
  <2> SUFFICES ASSUME ~(instructions < Len(Now(s).tokens) /\ "lit" \notin DOMAIN NextToken(s)) PROVE FALSE
    OBVIOUS
  <2>1. SkippedMatch = {}
    BY <1>2, LiteralHere, EndHere
  <2>2. QED
    BY <2>1
<1>4. /\ Position(m.reader) = BehindTokens(s, instructions + 1) /\ "match" \in DOMAIN NextToken(s)
      /\ block.literals = FlatTo(TokenBytes(Now(s).tokens), instructions + 1)
  BY <1>2, <1>3, MatchHere
<1>5. QED
  BY <1>1, <1>2, <1>3, <1>4, TokenFollows

\* The trailer is the one written, and the stream is read to its end.
LEMMA ReadTrailerFollows == ASSUME NEW s, Here(s), ReadTrailer PROVE Follows(s)'
PROOF
<1>1. PICK t \in Trailer : reader' = t.reader /\ trailer' = {[crc |-> t.crc, isize |-> t.isize]}
  BY DEF ReadTrailer
<1>2. phase = "trailer" /\ status' = "ok" /\ UNCHANGED <<data, phase, blocks, had_matches>>
  BY DEF ReadTrailer, At
<1>3. Len(blocks) = Len(s.blocks) /\ t.crc = s.crc /\ t.isize = s.isize /\ Position(t.reader) = Len(s.bits)
  BY <1>2, TrailerHere
<1>4. Finished(s)'
  BY <1>2 DEF Here, Follows, Finished
<1>5. Place(s)'
  BY <1>2 DEF Place
<1>6. Matches(s)'
  BY <1>2, MatchesKept
<1>7. Ends(s)'
  BY <1>1, <1>2, <1>3 DEF Ends
<1>8. QED
  BY <1>4, <1>5, <1>6, <1>7 DEF Follows

\* What is refused is what exceeds the limits.
LEMMA RefuseExceeds == ASSUME NEW s, Here(s), Refuse, data = s.bits PROVE ExceedsLimits(s)
PROOF
<1>1. CASE phase = "block" /\ \A h \in Header : h.type \notin {0, 1, 2}
  <2>1. Header = {}
    BY <1>1, HeaderHere
  <2>2. QED
    BY <1>1, <2>1, HeaderHere
<1>2. CASE phase = "stored" /\ \A b \in Stored : OverTotal(b.bytes)
  <2>1. CASE Stored = {}
    BY <1>2, <2>1, StoredHere
  <2>2. CASE Stored # {}
    <3>1. PICK b \in Stored : OverTotal(b.bytes)
      BY <1>2, <2>2
    <3>2. b.bytes = LiteralBytes(Now(s)) /\ Entered(s)
      BY <1>2, StoredHere
    <3>3. QED
      BY <3>1, <3>2, TooMuchInAll DEF OverTotal, Entered
  <2>3. QED
    BY <2>1, <2>2
<1>3. CASE phase = "sizes" /\ Sizes = {}
  BY <1>3, SizesHere
<1>4. CASE phase = "codelens" /\ Len(codelens) < sizes.hclen /\ ReadBits(data, reader, CodeLenBits) = {}
  BY <1>4, CodelenHere
<1>5. CASE phase = "codelens" /\ Len(codelens) = sizes.hclen /\ FromLengths(CodeLengthLengths) = {}
  BY <1>5, TreeHere
<1>6. CASE phase = "lengths" /\ Len(lengths) < Wanted /\ CodeLength = {}
  BY <1>6, LengthsHere
<1>7. CASE phase = "lengths" /\ Len(lengths) = Wanted /\ DynamicDecoders = {}
  BY <1>7, TreesHere
<1>8. CASE phase = "symbols" /\ LiteralSymbol = {} /\ SkippedMatch = {} /\ \A w \in LastSymbol : OverTotal(block.literals)
  <2>1. CASE instructions < Len(Now(s).tokens) /\ "lit" \in DOMAIN NextToken(s)
    BY <1>8, <2>1, LiteralHere
  <2>2. CASE instructions < Len(Now(s).tokens) /\ "lit" \notin DOMAIN NextToken(s)
    BY <1>8, <2>2, MatchHere
  <2>3. CASE ~(instructions < Len(Now(s).tokens)) /\ LastSymbol = {}
    BY <1>8, <2>3, EndHere
  <2>4. CASE ~(instructions < Len(Now(s).tokens)) /\ LastSymbol # {}
    <3>1. OverTotal(block.literals)
      BY <1>8, <2>4
    <3>2. block.literals = LiteralBytes(Now(s)) /\ Entered(s)
      BY <1>8, <2>4, EndHere, SymbolsAt
    <3>3. QED
      BY <3>1, <3>2, TooMuchInAll DEF OverTotal, Entered
  <2>5. QED
    BY <2>1, <2>2, <2>3, <2>4
<1>9. CASE phase = "trailer" /\ Trailer = {}
  BY <1>9, TrailerHere
<1>10. QED
  BY <1>1, <1>2, <1>3, <1>4, <1>5, <1>6, <1>7, <1>8, <1>9 DEF Refuse, At

\* A state that has the same place in the member.
LEMMA PlaceKept ==
    ASSUME NEW s, Place(s), status' # "ok" => status # "ok",
           UNCHANGED <<data, reader, phase, blocks, block, sizes, codelens, lengths, prev, decoders, instructions>>
    PROVE  Place(s)'
PROOF
<1>1. Now(s)' = Now(s) /\ Start(s)' = Start(s) /\ IsLastBlock(s)' = IsLastBlock(s)
  BY SameNow
<1>2. (Entered(s) => Entered(s)') /\ (AtBlock(s) => AtBlock(s)') /\ (AtTrailer(s) => AtTrailer(s)')
  BY <1>1 DEF Entered, AtBlock, AtTrailer, Stands
<1>3. AtStored(s) => AtStored(s)'
  BY <1>1, <1>2 DEF AtStored, Stands
<1>4. AtSizes(s) => AtSizes(s)'
  BY <1>1, <1>2 DEF AtSizes, Stands
<1>5. AtCodelens(s) => AtCodelens(s)'
  BY <1>1, <1>2 DEF AtCodelens, Stands, SizesOf
<1>6. AtLengths(s) => AtLengths(s)'
  BY <1>1, <1>2 DEF AtLengths, Stands, SizesOf
<1>7. AtSymbols(s) => AtSymbols(s)'
  BY <1>1, <1>2 DEF AtSymbols, Stands
<1>8. QED
  BY <1>2, <1>3, <1>4, <1>5, <1>6, <1>7 DEF Place

\* So is one that has the same blocks and matches.
LEMMA SameFollows ==
    ASSUME NEW s, Follows(s), Place(s)', Ends(s)', UNCHANGED <<data, phase, blocks, had_matches, instructions>>
    PROVE  Follows(s)'
PROOF
<1>1. Now(s)' = Now(s)
  BY SameNow
<1>2. Matches(s)'
  BY <1>1 DEF Follows, Matches, MatchBefore
<1>3. Finished(s)'
  BY DEF Follows, Finished
<1>4. QED
  BY <1>2, <1>3 DEF Follows

\* Who gives up has read nothing else.
LEMMA RefuseFollows == ASSUME NEW s, Here(s), Refuse PROVE Follows(s)'
PROOF
<1>1. /\ status' = "error"
      /\ UNCHANGED <<data, reader, phase, blocks, had_matches, block, sizes, codelens, lengths, prev, decoders, instructions>>
  BY DEF Refuse
<1>2. Follows(s) /\ Place(s) /\ status = "running"
  BY DEF Here, Follows
<1>3. Place(s)'
  BY <1>1, <1>2, PlaceKept
<1>4. Ends(s)'
  BY <1>1, RefuseExceeds DEF Ends
<1>5. QED
  BY <1>1, <1>2, <1>3, <1>4, SameFollows

\* Nothing happens, nothing changes.
LEMMA StutterFollows == ASSUME NEW s, Follows(s), UNCHANGED vars PROVE Follows(s)'
PROOF
<1>1. UNCHANGED <<data, reader, status, phase, blocks, had_matches, block, sizes, codelens, lengths, prev, decoders, instructions, trailer>>
  BY DEF vars
<1>2. Place(s)'
  BY <1>1, PlaceKept DEF Follows
<1>3. Ends(s)'
  BY <1>1 DEF Follows, Ends
<1>4. QED
  BY <1>1, <1>2, <1>3, SameFollows

\* The decoders stay a record, and what is counted stays what is there.
LEMMA FormedKept == ASSUME Formed, [Next]_vars PROVE Formed'
PROOF
<1>1. CASE BlockHeader
  <2>1. decoders' = decoders \/ decoders' \in FixedDecoders
    BY <1>1 DEF BlockHeader
  <2>2. \A d \in FixedDecoders : "code_length" \in DOMAIN d
    BY DEF FixedDecoders, Then
  <2>3. QED
    BY <2>1, <2>2 DEF Formed
<1>2. CASE DynamicTrees
  <2>1. decoders' \in DynamicDecoders
    BY <1>2 DEF DynamicTrees
  <2>2. \A d \in DynamicDecoders : "code_length" \in DOMAIN d
    BY DEF DynamicDecoders, Then
  <2>3. QED
    BY <2>1, <2>2 DEF Formed
<1>3. CASE CodeLengthTree
  <2>1. \E t : decoders' = [decoders EXCEPT !.code_length = t]
    BY <1>3 DEF CodeLengthTree
  <2>2. QED
    BY <2>1 DEF Formed
<1>4. CASE decoders' = decoders
  BY <1>4 DEF Formed
<1>5. QED
  BY <1>1, <1>2, <1>3, <1>4
     DEF Next, vars, StoredBlock, DynamicSizes, ReadCodeLengthLength, DecodeCodeLength, Literal, SkipMatch,
         EndOfSymbols, ReadTrailer, Refuse, Returned

\* What is not touched is counted as before.
LEMMA TotalKept == ASSUME UNCHANGED <<blocks, total>>, total = LiteralsOf(blocks) PROVE total' = LiteralsOf(blocks')
PROOF
  OBVIOUS

\* Every step leads to where the member says.
LEMMA StepFollows ==
    ASSUME NEW s, IInv, Formed, total = LiteralsOf(blocks), IsMember(s), Regular(s), Follows(s), [Next]_vars
    PROVE  Follows(s)'
PROOF
<1>1. CASE UNCHANGED vars
  BY <1>1, StutterFollows
<1>2. CASE status = "running" /\ Next /\ ~UNCHANGED vars
  <2>1. Here(s)
    BY <1>2 DEF Here
  <2>2. ~Returned
    BY <1>2 DEF Returned
  <2>3. QED
    BY <1>2, <2>1, <2>2, BlockHeaderFollows, StoredBlockFollows, DynamicSizesFollows, ReadCodeLengthLengthFollows,
       CodeLengthTreeFollows, DecodeCodeLengthFollows, DynamicTreesFollows, LiteralFollows, SkipMatchFollows,
       EndOfSymbolsFollows, ReadTrailerFollows, RefuseFollows DEF Next
<1>3. CASE status # "running" /\ Next
  <2>1. Returned
    BY <1>3 DEF Next, At, BlockHeader, StoredBlock, DynamicSizes, ReadCodeLengthLength, CodeLengthTree, DecodeCodeLength,
       DynamicTrees, Literal, SkipMatch, EndOfSymbols, ReadTrailer, Refuse
  <2>2. UNCHANGED vars
    BY <2>1 DEF Returned
  <2>3. QED
    BY <2>2, StutterFollows
<1>4. QED
  BY <1>1, <1>2, <1>3

\* What ends counts what it adds.
LEMMA EndBlockCounts ==
    ASSUME IInv, IInv', total = LiteralsOf(blocks), NEW r, NEW b, EndBlock(r, b)
    PROVE  total' = LiteralsOf(blocks')
PROOF
<1> DEFINE e == [start |-> b.start, end |-> Position(r), literals |-> b.literals]
<1>1. total' = total + Len(b.literals) /\ blocks' = Append(blocks, e) /\ e.literals = b.literals
  BY DEF EndBlock
<1> HIDE DEF e
<1>2. blocks \in Seq(BlockType) /\ Append(blocks, e) \in Seq(BlockType)
  BY <1>1 DEF IInv, TypeOK
<1>3. e \in BlockType
  <2> DEFINE q == Append(blocks, e)
  <2>1. Len(q) = Len(blocks) + 1 /\ q[Len(blocks) + 1] = e /\ Len(blocks) + 1 \in 1..Len(q)
    BY <1>2
  <2> HIDE DEF q
  <2>2. q \in Seq(BlockType)
    BY <1>2 DEF q
  <2>3. q[Len(blocks) + 1] \in BlockType
    BY <2>1, <2>2, ElementOfSeq
  <2>4. QED
    BY <2>1, <2>3
<1>4. LiteralsOf(Append(blocks, e)) = LiteralsOf(blocks) + Len(e.literals)
  BY <1>2, <1>3, LiteralsOfMore
<1>5. QED
  BY <1>1, <1>4

\* Whatever is read, the literals counted are those of the finished blocks.
LEMMA CountKept ==
    ASSUME IInv, IInv', total = LiteralsOf(blocks), [Next]_vars
    PROVE  total' = LiteralsOf(blocks')
PROOF
<1>1. CASE StoredBlock
  BY <1>1, EndBlockCounts DEF StoredBlock
<1>2. CASE EndOfSymbols
  BY <1>2, EndBlockCounts DEF EndOfSymbols
<1>3. CASE UNCHANGED <<blocks, total>>
  BY <1>3, TotalKept
<1>4. QED
  BY <1>1, <1>2, <1>3
     DEF Next, vars, BlockHeader, DynamicSizes, ReadCodeLengthLength, CodeLengthTree, DecodeCodeLength, DynamicTrees,
         Literal, SkipMatch, ReadTrailer, Refuse, Returned

\* Every step leads from a state of the invariant to one.
LEMMA NextFollows == ASSUME DInv, [Next]_vars PROVE DInv'
PROOF
<1>1. IInv /\ Formed /\ total = LiteralsOf(blocks) /\ \A s \in source : IsMember(s) /\ (Regular(s) => Follows(s))
  BY DEF DInv
<1>2. IInv'
  BY <1>1, NextStep
<1>3. Formed'
  BY <1>1, FormedKept
<1>4. total' = LiteralsOf(blocks')
  BY <1>1, <1>2, CountKept
<1>5. source' = source
  BY DEF Next, vars, BlockHeader, StoredBlock, DynamicSizes, ReadCodeLengthLength, CodeLengthTree, DecodeCodeLength,
         DynamicTrees, Literal, SkipMatch, EndOfSymbols, ReadTrailer, Refuse, Returned
<1>6. ASSUME NEW s \in source, Regular(s) PROVE Follows(s)'
  BY <1>1, <1>6, StepFollows
<1>7. ASSUME NEW s \in source' PROVE IsMember(s) /\ (Regular(s) => Follows(s)')
  BY <1>1, <1>5, <1>6
<1>8. QED
  BY <1>2, <1>3, <1>4, <1>7 DEF DInv

-----------------------------------------------------------------------------
(* Where it begins.                                                        *)

\* A member, cut anywhere, is read from its first block on.
LEMMA StartFollows == ASSUME Init PROVE \A s \in source : IsMember(s) /\ Follows(s)
PROOF
<1> SUFFICES ASSUME NEW s \in source PROVE IsMember(s) /\ Follows(s)
  OBVIOUS
<1>1. s \in Sources /\ \E n \in 0..(Len(s.bits) \div 8) : data = SubSeq(s.bits, 1, 8 * n)
  BY DEF Init
<1>2. IsMember(s)
  BY <1>1, DecoderConstants
<1>3. /\ reader = NewReader(0) /\ status = "running" /\ phase = "block" /\ blocks = <<>> /\ had_matches = FALSE
  BY DEF Init
<1>4. Laid(s) /\ Len(s.blocks) \in Nat /\ Len(s.blocks) >= 1
  BY <1>2, MemberIs
<1>5. Finished(s)
  <2>1. s.bits \in Seq(Bit)
    BY <1>4 DEF Laid
  <2>2. PICK n \in 0..(Len(s.bits) \div 8) : data = SubSeq(s.bits, 1, 8 * n)
    BY <1>1
  <2>3. Begins(data, s.bits)
    BY <2>1, <2>2, CutBegins
  <2>4. QED
    BY <1>3, <1>4, <2>3 DEF Finished
<1>6. Start(s) = 0
  <2>1. 1 \in 1..Len(s.blocks)
    BY <1>4
  <2>2. InPlace(s, s.blocks, 1)
    BY <1>4, <2>1 DEF Laid
  <2>3. Len(blocks) + 1 = 1
    BY <1>3
  <2>4. QED
    BY <2>2, <2>3 DEF InPlace, Start
<1>7. Position(reader) = 0
  BY <1>3 DEF NewReader, Position
<1>8. AtBlock(s)
  BY <1>3, <1>4, <1>6, <1>7 DEF AtBlock, Stands
<1>9. Place(s)
  BY <1>3, <1>8 DEF Place
<1>10. Matches(s)
  BY <1>3 DEF Matches, MatchBefore
<1>11. Ends(s)
  BY <1>3 DEF Ends
<1>12. QED
  BY <1>2, <1>5, <1>9, <1>10, <1>11 DEF Follows

\* The invariant holds in the beginning.
LEMMA InitFollows == Init => DInv
PROOF
<1> SUFFICES ASSUME Init PROVE DInv
  OBVIOUS
<1>1. IInv
  BY InitInv
<1>2. Formed
  BY DEF Init, Formed
<1>3. total = LiteralsOf(blocks)
  <2>1. total = 0 /\ blocks = <<>>
    BY DEF Init
  <2> DEFINE q == [i \in DOMAIN blocks |-> Len(blocks[i].literals)]
  <2>2. DOMAIN q = {}
    BY <2>1
  <2>3. LiteralsOf(blocks) = SumFunction(q)
    BY DEF LiteralsOf
  <2> HIDE DEF q
  <2>4. QED
    BY <2>1, <2>2, <2>3, SumSeqEmpty
<1>4. QED
  BY <1>1, <1>2, <1>3, StartFollows DEF DInv

-----------------------------------------------------------------------------
(* What the invariant says of what was decoded.                            *)

\* A sequence of which each entry is the other's begins it.
LEMMA PrefixOf ==
    ASSUME NEW S, NEW x \in Seq(S), NEW y \in Seq(S), Len(x) <= Len(y), \A i \in 1..Len(x) : x[i] = y[i]
    PROVE  IsPrefix(x, y)
PROOF
<1> DEFINE n == Len(x)
<1>1. n \in Nat /\ Len(y) \in Nat
  OBVIOUS
<1>2. SubSeq(x, 1, n) = x
  OBVIOUS
<1> DEFINE z == SubSeq(y, 1, n)
<1>3. z \in Seq(S) /\ Len(z) = n /\ \A i \in 1..n : z[i] = y[i]
  BY <1>1, SubSeqProperties
<1> HIDE DEF z
<1>4. x = z
  BY <1>3
<1>5. QED
  BY <1>2, <1>4 DEF IsPrefix, z

\* Within a block the literals are the first of it.
LEMMA BlockBegins ==
    ASSUME NEW s, IInv, IsMember(s), Follows(s), phase = "symbols"
    PROVE  IsPrefix(block.literals, s.extents[Len(blocks) + 1].literals)
PROOF
<1> DEFINE b == Now(s)
           n == Len(blocks) + 1
           l == LiteralLengths(b)
           t == DistanceLengths(b)
<1>1. AtSymbols(s)
  BY DEF Follows, Place
<1>2. b.kind # "stored" /\ instructions <= Len(b.tokens) /\ block.literals = FlatTo(TokenBytes(b.tokens), instructions)
      /\ Len(blocks) < Len(s.blocks)
  BY <1>1 DEF AtSymbols, Entered
<1>3. Laid(s) /\ Len(s.blocks) \in Nat
  BY MemberIs
<1>4. instructions \in Nat /\ blocks \in Seq(BlockType)
  <2>1. instructions \in 0..MaxInstructions /\ blocks \in Seq(BlockType)
    BY DEF IInv, TypeOK
  <2>2. QED
    BY <2>1, Parameters
<1>5. n \in 1..Len(s.blocks)
  BY <1>2, <1>3, <1>4
<1>6. InPlace(s, s.blocks, n)
  BY <1>3, <1>5 DEF Laid
<1>7. IsBlock(b) /\ s.extents[n].literals = LiteralBytes(b)
  BY <1>6 DEF InPlace, Now
<1> HIDE DEF b
<1>8. AreTokens(b.tokens, l, t)
  BY <1>2, <1>7 DEF IsBlock, LiteralLengths, DistanceLengths
<1> HIDE DEF l, t
<1>9. Len(b.tokens) \in Nat
  BY <1>8, TokensType
<1>10. instructions \in 0..Len(b.tokens)
  BY <1>2, <1>4, <1>9
<1>11. /\ block.literals \in Seq(Nat) /\ LiteralBytes(b) \in Seq(Nat) /\ Len(block.literals) <= Len(LiteralBytes(b))
       /\ \A j \in 1..Len(block.literals) : LiteralBytes(b)[j] = block.literals[j]
  BY <1>2, <1>8, <1>10, BytesOf
<1>12. IsPrefix(block.literals, LiteralBytes(b))
  BY <1>11, PrefixOf
<1>13. QED
  BY <1>7, <1>12

\* At the end a match was seen if one was encoded.
LEMMA MatchesSeen ==
    ASSUME NEW s, IsMember(s), Len(blocks) = Len(s.blocks)
    PROVE  MatchBefore(s) <=> \E i \in DOMAIN s.blocks :
              /\ s.blocks[i].kind # "stored"
              /\ \E t \in DOMAIN s.blocks[i].tokens : "match" \in DOMAIN s.blocks[i].tokens[t]
PROOF
<1> DEFINE has(i) == s.blocks[i].kind # "stored"
                     /\ \E t \in DOMAIN s.blocks[i].tokens : "match" \in DOMAIN s.blocks[i].tokens[t]
<1>1. AreBlocks(s.blocks)
  BY DEF IsMember
<1>2. DOMAIN s.blocks = 1..Len(s.blocks)
  <2> DEFINE bs == s.blocks
  <2>1. bs = [i \in 1..Len(bs) |-> bs[i]]
    BY <1>1 DEF AreBlocks
  <2> HIDE DEF bs
  <2>2. DOMAIN bs = 1..Len(bs)
    BY <2>1
  <2>3. QED
    BY <2>2 DEF bs
<1>3. ASSUME NEW i \in 1..Len(s.blocks) PROVE MatchIn(s.blocks[i], Len(s.blocks[i].tokens)) <=> has(i)
  <2> DEFINE b == s.blocks[i]
  <2>1. IsBlock(b)
    BY <1>1, <1>2 DEF AreBlocks
  <2> HIDE DEF b
  <2>2. b.kind # "stored" => DOMAIN b.tokens = 1..Len(b.tokens)
    BY <2>1, TokensType DEF IsBlock
  <2>3. MatchIn(b, Len(b.tokens)) <=> b.kind # "stored" /\ \E t \in DOMAIN b.tokens : "match" \in DOMAIN b.tokens[t]
    BY <2>2 DEF MatchIn
  <2>4. QED
    BY <2>3 DEF b
<1>4. MatchBefore(s) <=> \E i \in 1..Len(s.blocks) : MatchIn(s.blocks[i], Len(s.blocks[i].tokens))
  BY DEF MatchBefore
<1> HIDE DEF has
<1>5. MatchBefore(s) <=> \E i \in DOMAIN s.blocks : has(i)
  BY <1>2, <1>3, <1>4
<1>6. QED
  BY <1>5 DEF has

\* Who follows a member decodes it.
LEMMA FollowsDecodes ==
    ASSUME NEW s, IInv, total = LiteralsOf(blocks), IsMember(s), Follows(s)
    PROVE  Decodes(s)
PROOF
<1>1. Finished(s) /\ Matches(s) /\ Ends(s)
  BY DEF Follows
<1>2. Laid(s) /\ Len(s.bits) % 8 = 0
  BY MemberIs
<1>3. blocks \in Seq(BlockType) /\ data \in Seq(Bit) /\ ReaderOK(data, reader)
  BY InvReads DEF IInv, TypeOK, Reads
<1>4. IsPrefix(blocks, s.extents)
  BY <1>1, <1>2, <1>3, PrefixOf DEF Finished, Laid
<1>5. phase = "symbols" => IsPrefix(block.literals, s.extents[Len(blocks) + 1].literals)
  BY BlockBegins
<1>6. ASSUME status = "ok"
      PROVE  /\ Len(blocks) = Len(s.blocks)
             /\ trailer = {[crc |-> s.crc, isize |-> s.isize]}
             /\ 8 * reader.byte_pos = Len(s.bits) /\ reader.bit_pos = 0
             /\ had_matches <=> MatchBefore(s)
  <2>1. phase = "trailer" /\ Len(blocks) = Len(s.blocks) /\ Position(reader) = Len(s.bits)
        /\ trailer = {[crc |-> s.crc, isize |-> s.isize]}
    BY <1>1, <1>6 DEF Ends
  <2>2. had_matches <=> MatchBefore(s)
    BY <1>1, <2>1 DEF Matches
  <2>3. reader.bit_pos = 0
    BY <1>2, <1>3, <2>1, OnByte
  <2>4. 8 * reader.byte_pos = Len(s.bits)
    <3>1. reader.byte_pos \in Nat
      BY <1>3, ReaderNumbers
    <3>2. QED
      BY <2>1, <2>3, <3>1 DEF Position
  <2>5. QED
    BY <2>1, <2>2, <2>3, <2>4
<1>7. status = "error" /\ data = s.bits => ExceedsLimits(s)
  BY <1>1 DEF Ends
<1>8. QED
  BY <1>4, <1>5, <1>6, <1>7, MatchesSeen DEF Decodes

-----------------------------------------------------------------------------

\* The decoder follows the member it reads, in every state.
THEOREM FollowsAlways == Spec => []DInv
PROOF
<1>1. Init => DInv
  BY InitFollows
<1>2. DInv /\ [Next]_vars => DInv'
  BY NextFollows
<1>3. QED
  BY <1>1, <1>2, PTL DEF Spec

\* What is decoded is what was encoded, for every alphabet, every code and every
\* limit, cut anywhere (parse_deflate_stream and the trailer behind it).
THEOREM AlwaysDecodes == Spec => []DecodesRegular
PROOF
<1>1. DInv => DecodesRegular
  BY FollowsDecodes DEF DInv, DecodesRegular
<1>2. QED
  BY <1>1, FollowsAlways, PTL

=============================================================================
