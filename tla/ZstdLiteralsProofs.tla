------------------------- MODULE ZstdLiteralsProofs --------------------------
(***************************************************************************)
(* The decoder of literals, for every section, every bound on its tables   *)
(* and every width of the word it reads by.                                *)
(*                                                                         *)
(* First the reader, which returns a string from its end, bit for bit, and *)
(* zeroes behind the first.  Then the two tables: the spread gives every   *)
(* cell to one symbol, the cells of a symbol share out what a state can    *)
(* reach, and a code that fills its table is known by its own bits.  Last  *)
(* the decoder, whose phases hand on to each other what these need; the    *)
(* inductive invariant says what that is, variable by variable.            *)
(***************************************************************************)
EXTENDS ZstdLiterals, DataLemmas

\* A word is whole bytes, two at the least.
LEMMA Word8 == WordBits \in Nat /\ WordBits % 8 = 0 /\ WordBits >= 16
PROOF
  BY ReaderConstants

\* Whole bytes, and bits over.
LEMMA DivideBy8 == ASSUME NEW a \in Nat
                   PROVE  a \div 8 \in Nat /\ a % 8 \in 0..7 /\ a = 8 * (a \div 8) + (a % 8)
PROOF
  OBVIOUS

\* A word out of a string of bits, and a word moved up, are words.
LEMMA WordType == ASSUME NEW s \in Seq(Bit), NEW i \in Nat
                  PROVE  /\ Word(s, i) \in [1..WordBits -> Bit]
                         /\ \A k \in 1..WordBits : Word(s, i)[k] = IF 8 * i + k <= Len(s) THEN s[8 * i + k] ELSE 0
PROOF
<1>1. ASSUME NEW k \in 1..WordBits PROVE (IF 8 * i + k <= Len(s) THEN s[8 * i + k] ELSE 0) \in Bit
  BY <1>1, Word8 DEF Bit
<1>2. QED
  BY <1>1 DEF Word

\* A word moved up is a word.
LEMMA ShiftType == ASSUME NEW w \in [1..WordBits -> Bit], NEW n \in 0..WordBits
                   PROVE  /\ ShiftUp(w, n) \in [1..WordBits -> Bit]
                          /\ \A k \in 1..WordBits : ShiftUp(w, n)[k] = IF k <= n THEN 0 ELSE w[k - n]
PROOF
<1>1. ASSUME NEW k \in 1..WordBits PROVE (IF k <= n THEN 0 ELSE w[k - n]) \in Bit
  BY <1>1, Word8 DEF Bit
<1>2. QED
  BY <1>1 DEF ShiftUp

\* The numbers of a reader that is in step.
LEMMA AheadNumbers ==
    ASSUME NEW s \in ByteStrings, NEW r, AheadAgrees(s, r)
    PROVE  /\ r.index \in Nat /\ 8 * r.index <= Len(s)
           /\ r.bits_consumed \in Nat /\ r.bits_consumed <= WordBits
           /\ r.extra_bits \in Nat /\ r.bit_container \in [1..WordBits -> Bit]
           /\ Len(s) \in Nat /\ Len(s) % 8 = 0 /\ s \in Seq(Bit)
           /\ BitsRemaining(r) = 8 * r.index + (WordBits - r.bits_consumed) - r.extra_bits
           /\ BitsRemaining(r) \in Int
PROOF
<1>1. s \in Seq(Bit) /\ Len(s) \in Nat /\ Len(s) % 8 = 0
  BY DEF ByteStrings
<1>2. /\ r.index \in 0..(Len(s) \div 8) /\ r.bits_consumed \in 0..WordBits /\ r.extra_bits \in Nat
      /\ r.bit_container \in [1..WordBits -> Bit]
  BY DEF AheadAgrees
<1>3. Len(s) \div 8 \in Nat /\ 8 * (Len(s) \div 8) <= Len(s)
  BY <1>1, DivideBy8
<1>4. r.index \in Nat /\ 8 * r.index <= Len(s) /\ r.bits_consumed \in Nat /\ r.bits_consumed <= WordBits
  BY <1>2, <1>3, Word8
<1>5. BitsRemaining(r) = 8 * r.index + (WordBits - r.bits_consumed) - r.extra_bits /\ BitsRemaining(r) \in Int
  BY <1>2, <1>4, Word8, SMTT(30) DEF BitsRemaining
<1>6. QED
  BY <1>1, <1>2, <1>4, <1>5

THEOREM NewAgrees ==
    ASSUME NEW s \in ByteStrings
    PROVE  AheadAgrees(s, NewReversed(s)) /\ BitsRemaining(NewReversed(s)) = Len(s)
PROOF
<1>1. Len(s) \in Nat /\ Len(s) = 8 * (Len(s) \div 8) /\ Len(s) \div 8 \in Nat
  BY DivideBy8 DEF ByteStrings
<1>2. Zeros(WordBits) \in [1..WordBits -> Bit]
  BY Word8 DEF Zeros, Bit
<1> DEFINE r == NewReversed(s)
<1>3. /\ r.index = Len(s) \div 8 /\ r.bits_consumed = WordBits /\ r.extra_bits = 0
      /\ r \in [index : 0..(Len(s) \div 8), bits_consumed : 0..WordBits, extra_bits : Nat,
                bit_container : [1..WordBits -> Bit]]
  BY <1>1, <1>2, Word8 DEF NewReversed
<1> HIDE DEF r
<1>4. BitsRemaining(r) = Len(s)
  BY <1>1, <1>3, Word8 DEF BitsRemaining
<1>5. 0..(WordBits - r.bits_consumed - 1) = {}
  BY <1>3, Word8
<1>6. AheadAgrees(s, r)
  BY <1>1, <1>3, <1>5 DEF AheadAgrees
<1>7. QED
  BY <1>4, <1>6 DEF r

-----------------------------------------------------------------------------
(* A refill changes neither what was read nor what comes next.  Three      *)
(* cases: the word moves down within the string, it moves to its first     *)
(* byte, or it is there already and room is made below.                    *)

\* The bits ahead as facts about the string.
LEMMA Ahead ==
    ASSUME NEW s \in ByteStrings, NEW r, AheadAgrees(s, r),
           NEW k \in 0..(WordBits - r.bits_consumed - 1)
    PROVE  r.bit_container[WordBits - r.bits_consumed - k] = Backwards(s, Len(s) - BitsRemaining(r) + k)
PROOF
  BY DEF AheadAgrees

\* Bit number k of a string read backwards, by its place.
LEMMA BackwardsAt ==
    ASSUME NEW s \in ByteStrings, NEW p \in Int, p <= Len(s)
    PROVE  Backwards(s, Len(s) - p) = IF p > 0 THEN s[p] ELSE 0
PROOF
<1>1. Len(s) \in Nat
  BY DEF ByteStrings
<1>2. Len(s) - (Len(s) - p) = p /\ (Len(s) - p < Len(s) <=> p > 0)
  BY <1>1
<1>3. QED
  BY <1>2 DEF Backwards

\* Distances of a position, what is left of the word, and a distance.
LEMMA Distances ==
    ASSUME NEW a \in Nat, NEW o \in Nat, NEW x \in Nat, NEW n \in Nat
    PROVE  /\ a + (n - (a + o)) - x = n - x - o
           /\ \A k \in Nat : x - (a + (n - o)) + k = x - (a + (n - o - k))
OBVIOUS

LEMMA RefillWithin ==
    ASSUME NEW s \in ByteStrings, NEW r, AheadAgrees(s, r),
           NEW bytes \in Nat, NEW low \in 0..7, r.bits_consumed = 8 * bytes + low,
           bytes > 0, bytes <= r.index
    PROVE  LET f == [index |-> r.index - bytes, bits_consumed |-> low,
                     extra_bits |-> r.extra_bits, bit_container |-> Word(s, r.index - bytes)]
           IN  AheadAgrees(s, f) /\ BitsRemaining(f) = BitsRemaining(r)
PROOF
<1> DEFINE f == [index |-> r.index - bytes, bits_consumed |-> low,
                 extra_bits |-> r.extra_bits, bit_container |-> Word(s, r.index - bytes)]
<1>1. /\ r.index \in Nat /\ 8 * r.index <= Len(s) /\ Len(s) \in Nat
      /\ WordBits \in Nat /\ WordBits >= 16 /\ WordBits % 8 = 0
      /\ BitsRemaining(r) = 8 * r.index + (WordBits - r.bits_consumed) - r.extra_bits
  BY AheadNumbers, Word8
<1>2. r.extra_bits = 0 /\ 8 * (r.index - bytes) + WordBits <= Len(s)
  <2>1. r.index # 0
    BY <1>1
  <2>2. r.extra_bits = 0 /\ ((8 * r.index = Len(s) /\ r.bits_consumed = WordBits) \/ 8 * r.index + WordBits <= Len(s))
    BY <2>1 DEF AheadAgrees
  <2>3. CASE 8 * r.index = Len(s) /\ r.bits_consumed = WordBits
    <3>1. WordBits = 8 * bytes + low
      BY <2>3
    <3>2. low = 0
      BY <3>1, <1>1
    <3>3. QED
      BY <1>1, <2>2, <2>3, <3>1, <3>2
  <2>4. CASE 8 * r.index + WordBits <= Len(s)
    BY <1>1, <2>2, <2>4, SMTT(30)
  <2>5. QED
    BY <2>2, <2>3, <2>4
<1>3. /\ f.index = r.index - bytes /\ f.bits_consumed = low /\ f.extra_bits = 0
      /\ f.bit_container = Word(s, r.index - bytes)
      /\ f = [index |-> f.index, bits_consumed |-> f.bits_consumed, extra_bits |-> f.extra_bits,
              bit_container |-> f.bit_container]
  BY <1>2
<1>4. f.index \in Nat /\ f.index <= r.index /\ f.bits_consumed \in 0..WordBits
  BY <1>1, <1>3
<1>5. f.index \in 0..(Len(s) \div 8)
  <2>1. Len(s) \div 8 \in Nat /\ r.index \in 0..(Len(s) \div 8)
    BY <1>1, DivideBy8 DEF AheadAgrees
  <2>2. QED
    BY <2>1, <1>4
<1>6. /\ f.bit_container \in [1..WordBits -> Bit]
      /\ \A k \in 1..WordBits : f.bit_container[k] = IF 8 * f.index + k <= Len(s) THEN s[8 * f.index + k] ELSE 0
  <2> DEFINE word == Word(s, f.index)
  <2>1. s \in Seq(Bit) /\ f.index \in Nat
    BY <1>1, <1>4, AheadNumbers
  <2> HIDE DEF f
  <2>2. /\ word \in [1..WordBits -> Bit]
        /\ \A k \in 1..WordBits : word[k] = IF 8 * f.index + k <= Len(s) THEN s[8 * f.index + k] ELSE 0
    BY <2>1, WordType
  <2>3. f.bit_container = word
    BY <1>3
  <2> HIDE DEF word
  <2>4. QED
    BY <2>2, <2>3
<1>7. f \in [index : 0..(Len(s) \div 8), bits_consumed : 0..WordBits, extra_bits : Nat,
             bit_container : [1..WordBits -> Bit]]
  BY <1>3, <1>4, <1>5, <1>6
<1>8. 8 * f.index + WordBits <= Len(s)
  BY <1>2, <1>3
<1> HIDE DEF f
<1>9. BitsRemaining(f) = 8 * f.index + (WordBits - low) /\ BitsRemaining(f) \in Int
  BY <1>1, <1>3, <1>4, SMTT(30) DEF BitsRemaining
<1>10. BitsRemaining(f) = BitsRemaining(r)
  <2>1. r.index \in Nat /\ f.index \in Nat /\ f.index = r.index - bytes /\ r.extra_bits = 0
    BY <1>1, <1>2, <1>3, <1>4
  <2>2. BitsRemaining(r) = 8 * r.index + (WordBits - (8 * bytes + low)) - 0
    BY <1>1, <2>1
  <2>3. QED
    BY <1>1, <1>9, <2>1, <2>2
<1>11. ASSUME NEW k \in 0..(WordBits - f.bits_consumed - 1)
       PROVE  f.bit_container[WordBits - f.bits_consumed - k] = Backwards(s, Len(s) - BitsRemaining(f) + k)
  <2> DEFINE p == 8 * f.index + (WordBits - f.bits_consumed - k)
  <2>0. f.bits_consumed = low /\ k \in 0..(WordBits - low - 1) /\ k \in Nat
    BY <1>3
  <2>1. WordBits - f.bits_consumed - k \in 1..WordBits
    BY <1>1, <2>0
  <2>2. p \in Int /\ p > 0 /\ p <= Len(s)
    BY <1>1, <1>4, <1>8, <2>0, SMTT(30)
  <2>3. Len(s) - BitsRemaining(f) + k = Len(s) - p
    <3>1. 8 * f.index \in Nat /\ low \in Nat /\ Len(s) \in Nat /\ WordBits \in Nat
      BY <1>1, <1>4
    <3>2. Len(s) - (8 * f.index + (WordBits - low)) + k = Len(s) - (8 * f.index + (WordBits - low - k))
      BY <2>0, <3>1, Distances
    <3>3. QED
      BY <1>9, <2>0, <3>2
  <2>4. f.bit_container[WordBits - f.bits_consumed - k] = s[p]
    BY <1>6, <2>1, <2>2
  <2>5. Backwards(s, Len(s) - p) = s[p]
    BY <2>2, BackwardsAt
  <2>6. QED
    BY <2>3, <2>4, <2>5
<1>12. AheadAgrees(s, f)
  BY <1>3, <1>7, <1>8, <1>11 DEF AheadAgrees
<1>13. QED
  BY <1>10, <1>12 DEF f

LEMMA RefillAtStart ==
    ASSUME NEW s \in ByteStrings, NEW r, AheadAgrees(s, r),
           NEW over \in Nat, r.bits_consumed = 8 * r.index + over, NEW w,
           w = ShiftUp(IF r.index > 0 THEN Word(s, 0) ELSE r.bit_container, over)
    PROVE  LET f == [index |-> 0, bits_consumed |-> 0, extra_bits |-> Extra(r, over), bit_container |-> w]
           IN  AheadAgrees(s, f) /\ BitsRemaining(f) = BitsRemaining(r)
PROOF
<1> DEFINE f == [index |-> 0, bits_consumed |-> 0, extra_bits |-> Extra(r, over), bit_container |-> w]
           old == IF r.index > 0 THEN Word(s, 0) ELSE r.bit_container
<1>1. /\ r.index \in Nat /\ 8 * r.index <= Len(s) /\ Len(s) \in Nat /\ s \in Seq(Bit)
      /\ r.bits_consumed \in Nat /\ r.bits_consumed <= WordBits /\ r.extra_bits \in Nat
      /\ WordBits \in Nat /\ WordBits >= 16
      /\ BitsRemaining(r) = 8 * r.index + (WordBits - r.bits_consumed) - r.extra_bits
  BY AheadNumbers, Word8
<1>2. over \in 0..WordBits
  BY <1>1
<1>3. old \in [1..WordBits -> Bit]
  BY WordType, AheadNumbers
<1>4. w \in [1..WordBits -> Bit] /\ \A k \in 1..WordBits : w[k] = IF k <= over THEN 0 ELSE old[k - over]
  BY <1>2, <1>3, ShiftType
<1>5. /\ f.index = 0 /\ f.bits_consumed = 0 /\ f.extra_bits = r.extra_bits + over /\ f.bit_container = w
      /\ f = [index |-> f.index, bits_consumed |-> f.bits_consumed, extra_bits |-> f.extra_bits,
              bit_container |-> f.bit_container]
  BY DEF Extra
<1> HIDE DEF f
<1>6. f \in [index : 0..(Len(s) \div 8), bits_consumed : 0..WordBits, extra_bits : Nat,
             bit_container : [1..WordBits -> Bit]]
  <2>1. f.index \in 0..(Len(s) \div 8)
    BY <1>1, <1>5, DivideBy8
  <2>2. 0 \in 0..WordBits /\ r.extra_bits + over \in Nat
    BY <1>1, SMTT(30)
  <2>3. QED
    BY <1>4, <1>5, <2>1, <2>2
<1>7. BitsRemaining(f) = WordBits - r.extra_bits - over
  BY <1>1, <1>5 DEF BitsRemaining
<1>8. BitsRemaining(f) = BitsRemaining(r)
  <2>1. 8 * r.index \in Nat /\ r.extra_bits \in Nat /\ WordBits \in Nat
    BY <1>1, SMTT(30)
  <2>2. BitsRemaining(r) = 8 * r.index + (WordBits - (8 * r.index + over)) - r.extra_bits
    BY <1>1
  <2>3. QED
    BY <1>7, <2>1, <2>2, Distances
<1> HIDE DEF old
<1>9. ASSUME NEW k \in 0..(WordBits - 1)
      PROVE  w[WordBits - k] = Backwards(s, Len(s) - BitsRemaining(f) + k)
  <2> DEFINE p == WordBits - over - k
  <2>1. /\ WordBits - k \in 1..WordBits /\ p \in Int /\ p <= WordBits
        /\ (WordBits - k <= over <=> ~(p > 0)) /\ WordBits - k - over = p
    BY <1>1
  <2>2. w[WordBits - k] = IF p > 0 THEN old[p] ELSE 0
    BY <1>4, <2>1
  <2>3. CASE r.index > 0
    <3>1. r.extra_bits = 0 /\ ((8 * r.index = Len(s) /\ r.bits_consumed = WordBits) \/ 8 * r.index + WordBits <= Len(s))
      BY <2>3, <1>1 DEF AheadAgrees
    <3>2. p <= Len(s)
      BY <1>1, <3>1, SMTT(30)
    <3>3. Len(s) - BitsRemaining(f) + k = Len(s) - p
      BY <1>1, <1>7, <3>1
    <3>4. Backwards(s, Len(s) - p) = IF p > 0 THEN s[p] ELSE 0
      BY <2>1, <3>2, BackwardsAt
    <3>5. ASSUME p > 0 PROVE old[p] = s[p]
      <4>1. p \in 1..WordBits /\ 8 * 0 + p = p
        BY <2>1, <3>5, <1>1
      <4>2. Word(s, 0)[p] = IF 8 * 0 + p <= Len(s) THEN s[8 * 0 + p] ELSE 0
        BY <4>1, <1>1, WordType
      <4>3. QED
        BY <2>3, <3>2, <4>1, <4>2 DEF old
    <3>6. QED
      BY <2>2, <3>3, <3>4, <3>5
  <2>4. CASE r.index = 0
    <3>1. over = r.bits_consumed /\ BitsRemaining(r) = p + k - r.extra_bits
      BY <1>1, <2>4
    <3>2. CASE ~(p > 0)
      <4> DEFINE q == p - r.extra_bits
      <4>1. q \in Int /\ ~(q > 0) /\ q <= Len(s) /\ Len(s) - BitsRemaining(f) + k = Len(s) - q
        <5>1. p \in Int /\ q = p - r.extra_bits /\ r.extra_bits \in Nat /\ Len(s) \in Nat /\ ~(p > 0) /\ k \in Nat
          BY <1>1, <2>1, <3>2
        <5>2. BitsRemaining(f) = q + k
          BY <1>1, <1>7, <5>1
        <5> HIDE DEF p, q
        <5>3. q \in Int /\ ~(q > 0) /\ q <= Len(s)
          BY <5>1
        <5>4. QED
          BY <5>1, <5>2, <5>3
      <4>2. Backwards(s, Len(s) - q) = 0
        BY <4>1, BackwardsAt
      <4>3. QED
        BY <2>2, <3>2, <4>1, <4>2
    <3>3. CASE p > 0
      <4>1. k \in 0..(WordBits - r.bits_consumed - 1) /\ WordBits - r.bits_consumed - k = p
        <5>1. r.bits_consumed \in Nat /\ r.bits_consumed <= WordBits /\ k \in Nat /\ p = WordBits - r.bits_consumed - k
          BY <1>1, <3>1
        <5>2. WordBits - r.bits_consumed - k > 0
          BY <3>3, <5>1
        <5> HIDE DEF p
        <5>3. QED
          BY <1>1, <5>1, <5>2, SMTT(30)
      <4>2. r.bit_container[WordBits - r.bits_consumed - k] = Backwards(s, Len(s) - BitsRemaining(r) + k)
        BY <4>1, Ahead
      <4>3. old = r.bit_container
        BY <2>4 DEF old
      <4>4. QED
        BY <1>8, <2>2, <3>3, <4>1, <4>2, <4>3
    <3>4. QED
      BY <3>2, <3>3
  <2>5. QED
    BY <1>1, <2>3, <2>4
<1>10. AheadAgrees(s, f)
  <2>1. ASSUME NEW k \in 0..(WordBits - f.bits_consumed - 1)
        PROVE  f.bit_container[WordBits - f.bits_consumed - k] = Backwards(s, Len(s) - BitsRemaining(f) + k)
    <3>1. k \in 0..(WordBits - 1) /\ WordBits - f.bits_consumed - k = WordBits - k
      BY <1>1, <1>5
    <3>2. QED
      BY <1>5, <1>9, <3>1
  <2>2. QED
    BY <1>5, <1>6, <2>1 DEF AheadAgrees
<1>11. QED
  BY <1>8, <1>10 DEF f

LEMMA RefillAgrees ==
    ASSUME NEW s \in ByteStrings, NEW r, AheadAgrees(s, r)
    PROVE  /\ AheadAgrees(s, Refill(s, r)) /\ BitsRemaining(Refill(s, r)) = BitsRemaining(r)
           /\ Refill(s, r).bits_consumed <= 7
PROOF
<1> DEFINE bytes == r.bits_consumed \div 8
           low == r.bits_consumed % 8
           over == r.bits_consumed - 8 * r.index
<1>1. r.bits_consumed \in Nat /\ r.index \in Nat
  BY AheadNumbers
<1>2. bytes \in Nat /\ low \in 0..7 /\ r.bits_consumed = 8 * bytes + low
  BY <1>1, DivideBy8
<1>3. Refill(s, r) = IF bytes = 0 THEN r
                     ELSE IF bytes <= r.index
                     THEN [index |-> r.index - bytes, bits_consumed |-> low,
                           extra_bits |-> r.extra_bits, bit_container |-> Word(s, r.index - bytes)]
                     ELSE [index |-> 0, bits_consumed |-> 0, extra_bits |-> Extra(r, over),
                           bit_container |-> ShiftUp(IF r.index > 0 THEN Word(s, 0) ELSE r.bit_container, over)]
  BY DEF Refill
<1> HIDE DEF bytes, low, over
<1>4. CASE bytes = 0
  <2>1. r.bits_consumed <= 7
    BY <1>2, <1>4
  <2>2. QED
    BY <1>3, <1>4, <2>1
<1>5. CASE bytes # 0 /\ bytes <= r.index
  <2>1. bytes > 0
    BY <1>2, <1>5
  <2> DEFINE f == [index |-> r.index - bytes, bits_consumed |-> low,
                   extra_bits |-> r.extra_bits, bit_container |-> Word(s, r.index - bytes)]
  <2>2. AheadAgrees(s, f) /\ BitsRemaining(f) = BitsRemaining(r)
    BY <1>2, <1>5, <2>1, RefillWithin, ZenonT(60)
  <2>3. Refill(s, r) = f /\ f.bits_consumed = low
    BY <1>3, <1>5
  <2> HIDE DEF f
  <2>4. QED
    BY <1>2, <2>2, <2>3
<1>6. CASE bytes # 0 /\ ~(bytes <= r.index)
  <2>1. over \in Nat /\ r.bits_consumed = 8 * r.index + over
    BY <1>1, <1>2, <1>6 DEF over
  <2> DEFINE f == [index |-> 0, bits_consumed |-> 0, extra_bits |-> Extra(r, over),
                   bit_container |-> ShiftUp(IF r.index > 0 THEN Word(s, 0) ELSE r.bit_container, over)]
  <2>2. AheadAgrees(s, f) /\ BitsRemaining(f) = BitsRemaining(r)
    BY <2>1, RefillAtStart
  <2>3. Refill(s, r) = f /\ f.bits_consumed = 0
    BY <1>3, <1>6
  <2> HIDE DEF f
  <2>4. QED
    BY <2>2, <2>3
<1>7. QED
  BY <1>4, <1>5, <1>6

\* How many bits one read may take: what a refill leaves room for.
MaxRead == WordBits - 7

\* get_bits makes room for a read and is in step behind it.
THEOREM ConsumeAgrees ==
    ASSUME NEW s \in ByteStrings, NEW r, AheadAgrees(s, r), NEW n \in 0..MaxRead
    PROVE  /\ AheadAgrees(s, Consume(s, r, n)) /\ BitsRemaining(Consume(s, r, n)) = BitsRemaining(r) - n
           /\ AheadAgrees(s, Room(s, r, n)) /\ BitsRemaining(Room(s, r, n)) = BitsRemaining(r)
           /\ Room(s, r, n).bits_consumed + n <= WordBits
PROOF
<1> DEFINE f == Room(s, r, n)
           c == Consume(s, r, n)
<1>0. n \in Nat /\ n + 7 <= WordBits /\ WordBits \in Nat
  BY Word8 DEF MaxRead
<1>1. AheadAgrees(s, f) /\ BitsRemaining(f) = BitsRemaining(r) /\ f.bits_consumed + n <= WordBits
  <2>1. CASE r.bits_consumed + n > WordBits
    <3>1. f = Refill(s, r)
      BY <2>1 DEF Room
    <3>2. AheadAgrees(s, f) /\ BitsRemaining(f) = BitsRemaining(r) /\ f.bits_consumed <= 7
      BY <3>1, RefillAgrees
    <3>3. f.bits_consumed \in Nat
      BY <3>2, AheadNumbers
    <3> HIDE DEF f
    <3>4. QED
      BY <1>0, <3>2, <3>3
  <2>2. CASE ~(r.bits_consumed + n > WordBits)
    <3>1. f = r
      BY <2>2 DEF Room
    <3>2. r.bits_consumed \in Nat
      BY AheadNumbers
    <3>3. r.bits_consumed + n <= WordBits
      BY <1>0, <2>2, <3>2
    <3>4. QED
      BY <3>1, <3>3
  <2>3. QED
    BY <2>1, <2>2
<1>2. c = [f EXCEPT !.bits_consumed = @ + n]
  BY DEF Consume
<1> HIDE DEF f, c
<1>3. /\ f.index \in Nat /\ f.bits_consumed \in Nat /\ f.extra_bits \in Nat /\ Len(s) \in Nat
      /\ BitsRemaining(f) = 8 * f.index + (WordBits - f.bits_consumed) - f.extra_bits /\ BitsRemaining(f) \in Int
  BY <1>1, AheadNumbers
<1>4. f \in [index : 0..(Len(s) \div 8), bits_consumed : 0..WordBits, extra_bits : Nat,
             bit_container : [1..WordBits -> Bit]]
  BY <1>1 DEF AheadAgrees
<1>5. f.bits_consumed + n \in 0..WordBits
  BY <1>0, <1>1, <1>3, SMTT(30)
<1>6. /\ c.index = f.index /\ c.bits_consumed = f.bits_consumed + n /\ c.extra_bits = f.extra_bits
      /\ c.bit_container = f.bit_container
      /\ c \in [index : 0..(Len(s) \div 8), bits_consumed : 0..WordBits, extra_bits : Nat,
                bit_container : [1..WordBits -> Bit]]
  BY <1>2, <1>4, <1>5
<1>7. BitsRemaining(c) = 8 * f.index + (WordBits - (f.bits_consumed + n)) - f.extra_bits
  BY <1>6 DEF BitsRemaining
<1>8. BitsRemaining(c) = BitsRemaining(f) - n
  <2>1. /\ f.index \in Int /\ f.bits_consumed \in Int /\ f.extra_bits \in Int /\ n \in Int /\ WordBits \in Int
        /\ BitsRemaining(f) = 8 * f.index + (WordBits - f.bits_consumed) - f.extra_bits
    BY <1>0, <1>3
  <2>2. 8 * f.index + (WordBits - (f.bits_consumed + n)) - f.extra_bits
        = (8 * f.index + (WordBits - f.bits_consumed) - f.extra_bits) - n
    BY <2>1
  <2>3. QED
    BY <1>7, <2>1, <2>2
<1>9. \/ c.index = 0
      \/ /\ c.extra_bits = 0
         /\ \/ 8 * c.index = Len(s) /\ c.bits_consumed = WordBits
            \/ 8 * c.index + WordBits <= Len(s)
  <2>1. \/ f.index = 0
        \/ /\ f.extra_bits = 0
           /\ \/ 8 * f.index = Len(s) /\ f.bits_consumed = WordBits
              \/ 8 * f.index + WordBits <= Len(s)
    BY <1>1 DEF AheadAgrees
  <2>2. f.bits_consumed = WordBits => f.bits_consumed + n = WordBits
    BY <1>0, <1>1, <1>3
  <2>3. QED
    BY <1>6, <2>1, <2>2
<1>10. ASSUME NEW k \in 0..(WordBits - c.bits_consumed - 1)
       PROVE  c.bit_container[WordBits - c.bits_consumed - k] = Backwards(s, Len(s) - BitsRemaining(c) + k)
  <2>0. c.bits_consumed = f.bits_consumed + n /\ k \in 0..(WordBits - (f.bits_consumed + n) - 1) /\ k \in Nat
    BY <1>6
  <2>1. n + k \in 0..(WordBits - f.bits_consumed - 1)
    BY <1>0, <1>3, <2>0
  <2>2. WordBits - f.bits_consumed - (n + k) = WordBits - (f.bits_consumed + n) - k
    BY <1>0, <1>3, <2>0
  <2>3. Len(s) - BitsRemaining(f) + (n + k) = Len(s) - BitsRemaining(c) + k
    BY <1>0, <1>3, <1>8, <2>0
  <2>4. f.bit_container[WordBits - f.bits_consumed - (n + k)] = Backwards(s, Len(s) - BitsRemaining(f) + (n + k))
    BY <1>1, <2>1, Ahead
  <2>5. QED
    BY <1>6, <2>0, <2>2, <2>3, <2>4
<1>11. AheadAgrees(s, c)
  BY <1>6, <1>9, <1>10 DEF AheadAgrees
<1>12. QED
  BY <1>1, <1>8, <1>11 DEF f, c

\* What get_bits returns, the lowest bit first: the next n bits of the string
\* read backwards, the first of them highest, and zeroes behind the first byte.
THEOREM PeekReads ==
    ASSUME NEW s \in ByteStrings, NEW r, AheadAgrees(s, r), NEW n \in 0..MaxRead
    PROVE  /\ Peek(s, r, n) \in Seq(Bit) /\ Len(Peek(s, r, n)) = n
           /\ \A i \in 1..n : Peek(s, r, n)[i] = Backwards(s, Len(s) - BitsRemaining(r) + (n - i))
PROOF
<1> DEFINE f == Room(s, r, n)
           w == f.bit_container
           first == WordBits - f.bits_consumed - n + 1
           last == WordBits - f.bits_consumed
<1>1. AheadAgrees(s, f) /\ BitsRemaining(f) = BitsRemaining(r) /\ f.bits_consumed + n <= WordBits
  BY ConsumeAgrees
<1>2. Peek(s, r, n) = SubSeq(w, first, last)
  BY DEF Peek
<1> HIDE DEF f
<1>3. f.bits_consumed \in Nat /\ w \in [1..WordBits -> Bit] /\ n \in Nat /\ WordBits \in Nat
  BY <1>1, AheadNumbers, Word8 DEF MaxRead
<1>4. first \in 1..(WordBits + 1) /\ last \in (first - 1)..WordBits /\ last - first + 1 = n
  BY <1>1, <1>3, SMTT(30)
<1>5. \A i \in first..last : w[i] \in Bit
  <2> HIDE DEF w, first, last
  <2>1. \A i \in first..last : i \in 1..WordBits
    BY <1>3, <1>4
  <2>2. QED
    BY <1>3, <2>1
<1>6. /\ SubSeq(w, first, last) \in Seq(Bit) /\ Len(SubSeq(w, first, last)) = n
      /\ \A i \in 1..n : SubSeq(w, first, last)[i] = w[first + i - 1]
  <2> HIDE DEF w, first, last
  <2>1. first \in Int /\ last \in Int /\ (first <= last <=> n > 0) /\ n \in Nat
    BY <1>3, <1>4
  <2>2. QED
    BY <1>4, <1>5, <2>1, SubSeqProperties
<1>7. ASSUME NEW i \in 1..n
      PROVE  w[first + i - 1] = Backwards(s, Len(s) - BitsRemaining(r) + (n - i))
  <2>1. /\ n - i \in 0..(WordBits - f.bits_consumed - 1)
        /\ first + i - 1 = WordBits - f.bits_consumed - (n - i)
    BY <1>1, <1>3, SMTT(30)
  <2> HIDE DEF first
  <2>2. QED
    BY <1>1, <2>1, Ahead
<1>8. QED
  BY <1>2, <1>6, <1>7

-----------------------------------------------------------------------------
(* Numbers and their bits.                                                 *)

\* f computes the value of bits from the last to the first.
Values(f, bits) == f = [n \in 0..Len(bits) |-> IF n = 0 THEN 0 ELSE bits[Len(bits) - n + 1] + 2 * f[n - 1]]

\* n bits give a number below 2^n.
LEMMA ValueBelow ==
    ASSUME NEW bits \in Seq(Bit)
    PROVE  ValueOf(bits) \in Nat /\ ValueOf(bits) < 2^Len(bits)
<1> DEFINE n == Len(bits)
           g == [i \in 1..n |-> [v \in Nat |-> bits[n - i + 1] + 2 * v]]
<1>1. n \in Nat
  OBVIOUS
<1>2. \A i \in 1..n : bits[n - i + 1] \in Bit
  <2>1. \A i \in 1..n : n - i + 1 \in 1..n
    BY <1>1
  <2>2. QED
    BY <2>1
<1>3. g \in [1..n -> [Nat -> Nat]]
  <2>1. ASSUME NEW i \in 1..n, NEW v \in Nat PROVE bits[n - i + 1] + 2 * v \in Nat
    BY <1>2 DEF Bit
  <2> HIDE DEF n
  <2>2. QED
    BY <2>1
<1>4. \E f : Values(f, bits)
  <2> HIDE DEF g, n
  <2>0. PICK f : Iterates(f, Nat, 0, n, g)
    BY <1>1, <1>3, Recursive
  <2>1. f \in [0..n -> Nat] /\ f[0] = 0 /\ \A i \in 1..n : f[i] = g[i][f[i - 1]]
    BY <2>0, Zenon DEF Iterates
  <2>2. ASSUME NEW i \in 0..n PROVE f[i] = IF i = 0 THEN 0 ELSE bits[n - i + 1] + 2 * f[i - 1]
    <3>1. CASE i = 0
      BY <2>1, <3>1
    <3>2. CASE i # 0
      <4>1. i \in 1..n /\ i - 1 \in 0..n /\ f[i - 1] \in Nat
        BY <1>1, <2>1, <3>2
      <4>2. g[i][f[i - 1]] = bits[n - i + 1] + 2 * f[i - 1]
        BY <4>1 DEF g
      <4>3. QED
        BY <2>1, <3>2, <4>1, <4>2
    <3>3. QED
      BY <3>1, <3>2
  <2>3. f = [i \in 0..n |-> f[i]]
    BY <2>1
  <2>4. Values(f, bits)
    BY <2>2, <2>3, Zenon DEF Values, n
  <2>5. QED
    BY <2>4
<1> DEFINE from == CHOOSE f : Values(f, bits)
<1>5. Values(from, bits)
  BY <1>4, Zenon
<1>6. ValueOf(bits) = from[n]
  BY Zenon DEF ValueOf, Values
<1> HIDE DEF from
<1> DEFINE P == {i \in 0..n : from[i] \in Nat /\ from[i] < 2^i}
<1>7. \A i \in 0..n : from[i] = IF i = 0 THEN 0 ELSE bits[n - i + 1] + 2 * from[i - 1]
  BY <1>5, Zenon DEF Values
<1>8. 0 \in P
  <2>1. from[0] = 0 /\ 2^0 = 1 /\ 0 \in 0..n
    BY <1>1, <1>7
  <2>2. QED
    BY <2>1
<1>9. ASSUME NEW i \in 0..(n - 1), i \in P PROVE i + 1 \in P
  <2>1. i \in Nat /\ i + 1 \in 0..n /\ i + 1 \in 1..n /\ i + 1 # 0 /\ (i + 1) - 1 = i
    BY <1>1
  <2>2. from[i] \in Nat /\ from[i] < 2^i
    BY <1>9
  <2>3. 2^(i + 1) = 2 * 2^i /\ 2^i \in Nat
    BY <2>1, PowNext, PowType
  <2>4. from[i + 1] = bits[n - (i + 1) + 1] + 2 * from[i]
    BY <1>7, <2>1
  <2> DEFINE b == bits[n - (i + 1) + 1]
  <2>5. b \in {0, 1}
    BY <1>2, <2>1 DEF Bit
  <2> HIDE DEF b, n
  <2>6. from[i + 1] \in Nat /\ from[i + 1] < 2^(i + 1)
    BY <2>2, <2>3, <2>4, <2>5 DEF b
  <2>7. QED
    BY <2>1, <2>6
<1> HIDE DEF P
<1>10. \A i \in 0..n : i \in P
  BY <1>1, <1>8, <1>9, UpTo
<1>11. QED
  BY <1>1, <1>6, <1>10 DEF P

\* The bits of a positive number: one more than the exponent of the largest power of
\* two that is not above it.
LEMMA HighestBit ==
    ASSUME NEW x \in Nat
    PROVE  LET h == HighestBitSet(x)
           IN  /\ h \in Nat /\ x < 2^h /\ (x > 0 => h > 0)
               /\ h > 0 => 2^(h - 1) <= x
<1> DEFINE T == {n \in Nat : x < 2^n}
<1>1. x \in T
  <2> DEFINE P == {n \in 0..x : n < 2^n}
  <2>1. 0 \in P
    <3>1. 2^0 = 1
      OBVIOUS
    <3>2. QED
      BY <3>1
  <2>2. ASSUME NEW n \in 0..(x - 1), n \in P PROVE n + 1 \in P
    <3>1. n \in Nat /\ n < 2^n /\ 2^(n + 1) = 2 * 2^n /\ 2^n \in Nat /\ n + 1 \in 0..x
      BY <2>2, PowNext, PowType
    <3>2. n + 1 < 2^(n + 1)
      BY <3>1
    <3>3. QED
      BY <3>1, <3>2
  <2> HIDE DEF P
  <2>3. \A n \in 0..x : n \in P
    BY <2>1, <2>2, UpTo
  <2>4. QED
    BY <2>3 DEF P
<1>2. PICK n \in T : \A m \in T : n <= m
  <2>1. T \subseteq Nat
    OBVIOUS
  <2> HIDE DEF T
  <2>2. QED
    BY <1>1, <2>1, LeastNat
<1>3. n \in 0..x /\ x < 2^n
  BY <1>1, <1>2
<1>4. n # 0 => 2^(n - 1) <= x
  <2>1. SUFFICES ASSUME n # 0 PROVE 2^(n - 1) <= x
    OBVIOUS
  <2>2. n - 1 \in Nat /\ n - 1 \notin T
    BY <1>2, <2>1
  <2>3. 2^(n - 1) \in Nat
    BY <2>2, PowType
  <2>4. QED
    BY <2>2, <2>3
<1> HIDE DEF T
<1> DEFINE h == HighestBitSet(x)
<1>5. h \in 0..x /\ x < 2^h /\ (h = 0 \/ 2^(h - 1) <= x)
  BY <1>3, <1>4, Zenon DEF HighestBitSet
<1>6. x > 0 => h > 0
  <2>1. 2^0 = 1
    OBVIOUS
  <2>2. h # 0 \/ x < 1
    BY <1>5, <2>1
  <2>3. QED
    BY <1>5, <2>2
<1> HIDE DEF h
<1>7. h \in Nat /\ x < 2^h /\ (x > 0 => h > 0) /\ (h > 0 => 2^(h - 1) <= x)
  BY <1>5, <1>6
<1>8. QED
  BY <1>7 DEF h

-----------------------------------------------------------------------------
(* The spread of the symbols over the table.                               *)

\* What a step of the walk over the table adds to a position.
Stride(size) == size \div 2 + size \div 8 + 3

\* The j-th position from the first.
Pos(j, size) == (j * Stride(size)) % size

\* From 16 cells on the step is odd.
LEMMA StrideOdd ==
    ASSUME NEW n \in Nat, n >= 4
    PROVE  /\ 2^n \in Nat /\ 2^n >= 16 /\ Stride(2^n) \in Nat /\ Stride(2^n) % 2 = 1
<1> DEFINE m == 2^(n - 4)
<1>1. m \in Nat /\ m > 0
  BY PowType
<1>2. 2^n = 16 * m
  <2>1. 2^4 = 16
    OBVIOUS
  <2>2. 2^n = 2^4 * m
    BY PowOrder
  <2>3. QED
    BY <2>1, <2>2
<1> DEFINE size == 2^n
<1>3. size = 16 * m
  BY <1>2
<1> HIDE DEF m, size
<1>4. size \div 2 = 8 * m /\ size \div 8 = 2 * m
  BY <1>1, <1>3
<1>5. Stride(size) = 2 * (5 * m + 1) + 1
  BY <1>1, <1>4 DEF Stride
<1>6. size \in Nat /\ size >= 16 /\ Stride(size) \in Nat /\ Stride(size) % 2 = 1
  BY <1>1, <1>3, <1>5
<1>7. QED
  BY <1>6 DEF size

\* Positions are cells, and as many steps as there are cells lead back to the first.
LEMMA PosType ==
    ASSUME NEW n \in Nat, n >= 4, NEW j \in Nat
    PROVE  Pos(j, 2^n) \in 0..(2^n - 1) /\ Pos(0, 2^n) = 0 /\ Pos(2^n, 2^n) = 0
<1> DEFINE size == 2^n
           s == Stride(size)
<1>1. size \in Nat /\ size > 0 /\ s \in Nat
  BY StrideOdd
<1> HIDE DEF size, s
<1>2. j * s \in Nat /\ 0 * s = 0 /\ 0 % size = 0
  BY <1>1
<1>3. (size * s) % size = 0
  <2>1. s * size + 0 = size * s
    BY <1>1
  <2>2. (s * size + 0) % size = 0
    BY <1>1, DivMod
  <2>3. QED
    BY <2>1, <2>2
<1>4. QED
  BY <1>1, <1>2, <1>3, Euclid DEF Pos, size, s

\* The position behind the j-th one.
LEMMA PosNext ==
    ASSUME NEW n \in Nat, n >= 4, NEW j \in Nat
    PROVE  NextPosition(Pos(j, 2^n), 2^n) = Pos(j + 1, 2^n)
<1> DEFINE size == 2^n
           s == Stride(size)
           a == j * s
           r == a % size
<1>1. size \in Nat /\ size > 0 /\ s \in Nat
  BY StrideOdd
<1>2. a \in Nat
  BY <1>1
<1>3. NextPosition(Pos(j, size), size) = (r + s) % size
  <2>1. r \in Nat /\ size \div 2 \in Nat /\ size \div 8 \in Nat
    <3> HIDE DEF a, size
    <3>1. QED
      BY <1>1, <1>2
  <2>2. r + size \div 2 + size \div 8 + 3 = r + s
    <3> HIDE DEF r, size
    <3>1. QED
      BY <2>1 DEF Stride
  <2>3. QED
    BY <2>2 DEF NextPosition, Pos
<1> HIDE DEF size, a
<1>4. r \in Nat /\ a \div size \in Nat /\ a = (a \div size) * size + r
  BY <1>1, <1>2, Euclid
<1> HIDE DEF r, s
<1> DEFINE b == r + s
           q == a \div size
           u == b \div size
           v == b % size
<1>5. b \in Nat
  BY <1>1, <1>4
<1> HIDE DEF b
<1>6. u \in Nat /\ v \in 0..(size - 1) /\ b = u * size + v
  BY <1>1, <1>5, Euclid
<1>7. a + s = q * size + b /\ q \in Nat
  BY <1>1, <1>4 DEF b
<1> HIDE DEF q, u, v
<1>8. a + s = (q + u) * size + v
  BY <1>1, <1>6, <1>7
<1>9. ((q + u) * size + v) % size = v
  <2>1. q + u \in Nat /\ v \in Nat /\ v < size
    BY <1>1, <1>6, <1>7
  <2>2. QED
    BY <1>1, <2>1, DivMod
<1>10. (j + 1) * s = a + s
  <2>1. (j + 1) * s = j * s + s
    BY <1>1
  <2>2. QED
    BY <2>1 DEF a
<1>11. Pos(j + 1, size) = v
  BY <1>8, <1>9, <1>10 DEF Pos, s
<1>12. QED
  BY <1>3, <1>11 DEF v, b, size

\* As many steps as there are cells lead to each cell once.
LEMMA PosOnce ==
    ASSUME NEW n \in Nat, n >= 4, NEW i \in 0..(2^n - 1), NEW j \in 0..(2^n - 1), Pos(i, 2^n) = Pos(j, 2^n)
    PROVE  i = j
<1>1. ASSUME NEW a \in 0..(2^n - 1), NEW b \in 0..(2^n - 1), a < b, Pos(a, 2^n) = Pos(b, 2^n)
      PROVE  FALSE
  <2> DEFINE size == 2^n
             s == Stride(size)
             r == (a * s) % size
             x == (a * s) \div size
             y == (b * s) \div size
  <2>1. size \in Nat /\ size > 0 /\ s \in Nat /\ s % 2 = 1
    BY StrideOdd
  <2>2. a \in Nat /\ b \in Nat /\ b - a \in Nat /\ b - a > 0 /\ b - a < size
    BY <1>1, <2>1
  <2>3. r = (b * s) % size
    BY <1>1 DEF Pos
  <2> HIDE DEF size, s
  <2>4. a * s \in Nat /\ b * s \in Nat
    BY <2>1, <2>2
  <2>5. x \in Nat /\ y \in Nat /\ r \in Nat /\ a * s = x * size + r /\ b * s = y * size + r
    BY <2>1, <2>3, <2>4, Euclid
  <2> HIDE DEF x, y, r
  <2>6. (b - a) * s = size * (y - x)
    <3>1. (b - a) * s = b * s - a * s
      BY <2>1, <2>2, SMTT(30)
    <3>2. size * (y - x) = y * size - x * size
      BY <2>1, <2>5
    <3>3. QED
      BY <2>1, <2>4, <2>5, <3>1, <3>2
  <2>7. y - x \in Nat
    <3>1. (b - a) * s \in Nat
      BY <2>1, <2>2
    <3>2. ASSUME NEW z \in Int, z < 0 PROVE size * z < 0
      BY <2>1, <3>2
    <3>3. y - x \in Int
      BY <2>5
    <3>4. QED
      BY <2>6, <3>1, <3>2, <3>3
  <2>8. PICK e \in Nat : b - a = size * e
    <3>1. \A d \in Nat, m \in Nat : d * s = size * m => \E e \in Nat : d = size * e
      BY <2>1, OddFactor DEF size
    <3>2. QED
      BY <2>2, <2>6, <2>7, <3>1
  <2>9. e # 0
    <3>1. size * 0 = 0
      BY <2>1
    <3>2. QED
      BY <2>2, <2>8, <3>1
  <2>10. size * e >= size
    <3>1. size * e = size + size * (e - 1) /\ size * (e - 1) \in Nat
      BY <2>1, <2>9
    <3>2. QED
      BY <2>1, <3>1
  <2>11. QED
    BY <2>1, <2>2, <2>8, <2>10
<1>2. i \in Int /\ j \in Int
  BY StrideOdd
<1>3. QED
  BY <1>1, <1>2

\* So every cell is a position.
LEMMA PosEach ==
    ASSUME NEW n \in Nat, n >= 4, NEW c \in 0..(2^n - 1)
    PROVE  \E j \in 0..(2^n - 1) : Pos(j, 2^n) = c
<1> DEFINE S == 0..(2^n - 1)
           f == [j \in S |-> Pos(j, 2^n)]
<1>1. 2^n \in Nat
  BY PowType
<1>2. f \in [S -> S]
  <2>1. \A j \in S : j \in Nat
    BY <1>1
  <2>2. \A j \in S : Pos(j, 2^n) \in S
    BY <2>1, PosType
  <2> HIDE DEF S
  <2>3. QED
    BY <2>2
<1>3. \A i \in S, j \in S : f[i] = f[j] => i = j
  BY PosOnce
<1>4. IsFiniteSet(S)
  BY <1>1, FS_Interval
<1> HIDE DEF f, S
<1>5. f \in Injection(S, S)
  BY <1>2, <1>3 DEF Injection, IsInjective
<1>6. f \in Surjection(S, S)
  BY <1>4, <1>5, FS_Injection
<1>7. \E j \in S : f[j] = c
  BY <1>6 DEF Surjection, S
<1>8. QED
  BY <1>7 DEF f, S

\* f lists the positions behind p.
Walks(f, p, size) == f = [j \in 0..size |-> IF j = 0 THEN p ELSE NextPosition(f[j - 1], size)]

\* NextFree goes on to the next position that is below top, and finds one before it
\* has come round.
LEMMA NextFreeIs ==
    ASSUME NEW n \in Nat, n >= 4, NEW top \in 1..2^n, NEW i \in 0..(2^n - 1)
    PROVE  \E k \in (i + 1)..2^n : /\ NextFree(Pos(i, 2^n), 2^n, top) = Pos(k, 2^n) /\ Pos(k, 2^n) < top
                                   /\ \A m \in (i + 1)..(k - 1) : Pos(m, 2^n) >= top
<1> DEFINE size == 2^n
           p == Pos(i, size)
           f == CHOOSE f : Walks(f, p, size)
           Found(j) == f[j] < top /\ \A m \in 1..(j - 1) : f[m] >= top
           w == [j \in 0..size |-> Pos(i + j, size)]
<1>1. size \in Nat /\ size >= 16 /\ top \in Nat /\ top > 0 /\ i \in Nat /\ i < size
  BY StrideOdd
<1>2. Walks(w, p, size)
  <2>1. ASSUME NEW j \in 0..size
        PROVE  w[j] = IF j = 0 THEN p ELSE NextPosition(w[j - 1], size)
    <3>1. CASE j = 0
      BY <1>1, <3>1
    <3>2. CASE j # 0
      <4>1. j - 1 \in 0..size /\ i + (j - 1) \in Nat /\ (i + (j - 1)) + 1 = i + j
        BY <1>1, <3>2
      <4>2. NextPosition(Pos(i + (j - 1), size), size) = Pos(i + j, size)
        BY <4>1, PosNext
      <4>3. QED
        BY <3>2, <4>1, <4>2
    <3>3. QED
      BY <3>1, <3>2
  <2>2. w = [j \in 0..size |-> w[j]]
    OBVIOUS
  <2> HIDE DEF w, p, size
  <2>3. QED
    BY <2>1, <2>2, Zenon DEF Walks
<1>3. Walks(f, p, size)
  BY <1>2, Zenon
<1>4. NextFree(p, size, top) = f[CHOOSE j \in 1..size : Found(j)]
  <2> HIDE DEF p, size
  <2>1. QED
    BY Zenon DEF NextFree, Walks
<1> HIDE DEF f, w
<1>5. \A j \in 0..size : f[j] = Pos(i + j, size)
  <2> DEFINE P == {j \in 0..size : f[j] = Pos(i + j, size)}
  <2>1. \A j \in 0..size : f[j] = IF j = 0 THEN p ELSE NextPosition(f[j - 1], size)
    <3> HIDE DEF p, size
    <3>1. QED
      BY <1>3, Zenon DEF Walks
  <2>2. 0 \in P
    BY <1>1, <2>1
  <2>3. ASSUME NEW j \in 0..(size - 1), j \in P PROVE j + 1 \in P
    <3>1. j \in Nat /\ j + 1 \in 0..size /\ j + 1 # 0 /\ (j + 1) - 1 = j /\ i + j \in Nat /\ (i + j) + 1 = i + (j + 1)
      BY <1>1
    <3>2. f[j + 1] = NextPosition(f[j], size) /\ f[j] = Pos(i + j, size)
      BY <2>1, <2>3, <3>1
    <3>3. NextPosition(Pos(i + j, size), size) = Pos(i + (j + 1), size)
      BY <3>1, PosNext
    <3>4. QED
      BY <3>1, <3>2, <3>3
  <2> HIDE DEF P, size
  <2>4. \A j \in 0..(size - 1) : j \in P => j + 1 \in P
    BY <2>3
  <2>5. \A j \in 0..size : j \in P
    BY <1>1, <2>2, <2>4, UpTo
  <2>6. QED
    BY <2>5 DEF P
<1> DEFINE T == {j \in 1..size : f[j] < top}
<1>6. size - i \in T
  <2>1. size - i \in 1..size /\ i + (size - i) = size /\ size - i \in 0..size
    BY <1>1
  <2>2. Pos(size, size) = 0
    BY PosType
  <2>3. f[size - i] = 0
    BY <1>5, <2>1, <2>2
  <2>4. QED
    BY <1>1, <2>1, <2>3
<1>7. PICK j \in T : \A m \in T : j <= m
  <2>1. T \subseteq Nat
    BY <1>1
  <2> HIDE DEF T
  <2>2. QED
    BY <1>6, <2>1, LeastNat
<1>8. \A m \in 0..size : f[m] \in Nat
  <2>1. ASSUME NEW m \in 0..size PROVE f[m] \in Nat
    <3>1. i + m \in Nat
      BY <1>1
    <3>2. Pos(i + m, size) \in 0..(size - 1)
      BY <3>1, PosType
    <3>3. QED
      BY <1>1, <1>5, <3>2
  <2>2. QED
    BY <2>1
<1>9. j \in 1..size /\ Found(j)
  <2>1. j \in 1..size /\ f[j] < top
    BY <1>7
  <2>2. ASSUME NEW m \in 1..(j - 1) PROVE f[m] >= top
    <3>1. m \in 1..size /\ m \in 0..size /\ ~(j <= m)
      BY <1>1, <2>1
    <3>2. m \notin T
      BY <1>7, <3>1
    <3>3. QED
      BY <1>1, <1>8, <3>1, <3>2
  <2>3. QED
    BY <2>1, <2>2
<1> DEFINE k == CHOOSE x \in 1..size : Found(x)
<1>10. k \in 1..size /\ Found(k)
  <2> HIDE DEF Found, size
  <2>1. QED
    BY <1>9, Zenon
<1>11. NextFree(p, size, top) = f[k]
  BY <1>4
<1> HIDE DEF k, p
<1>12. f[k] = Pos(i + k, size) /\ f[k] < top /\ \A m \in 1..(k - 1) : Pos(i + m, size) >= top
  <2>1. k \in 0..size /\ \A m \in 1..(k - 1) : m \in 0..size
    BY <1>1, <1>10
  <2>2. QED
    BY <1>5, <1>10, <2>1
<1>13. i + k <= size
  <2>1. ASSUME i + k > size PROVE FALSE
    <3>1. size - i \in 1..(k - 1) /\ i + (size - i) = size
      BY <1>1, <1>10, <2>1
    <3>2. Pos(size, size) >= top
      BY <1>12, <3>1
    <3>3. Pos(size, size) = 0
      BY PosType
    <3>4. QED
      BY <1>1, <3>2, <3>3
  <2>2. QED
    BY <1>1, <1>10, <2>1
<1> DEFINE K == i + k
<1>14. K \in (i + 1)..size
  BY <1>1, <1>10, <1>13
<1>15. ASSUME NEW m \in (i + 1)..(K - 1) PROVE Pos(m, size) >= top
  <2>1. m - i \in 1..(k - 1) /\ i + (m - i) = m
    BY <1>1, <1>10
  <2>2. QED
    BY <1>12, <2>1
<1>16. NextFree(p, size, top) = Pos(K, size) /\ Pos(K, size) < top
  BY <1>11, <1>12
<1> HIDE DEF K
<1>17. \E x \in (i + 1)..size : /\ NextFree(p, size, top) = Pos(x, size) /\ Pos(x, size) < top
                               /\ \A m \in (i + 1)..(x - 1) : Pos(m, size) >= top
  BY <1>14, <1>15, <1>16
<1>18. QED
  BY <1>17 DEF p

\* f puts the symbols one by one into the cells that are free.
Lays(f, size, top, symbols) ==
    f = [k \in 0..Len(symbols) |-> IF k = 0 THEN [position |-> 0, cells |-> [idx \in 0..(top - 1) |-> 0]]
                                   ELSE Put(f[k - 1], size, top, symbols[k])]

\* A position that is a cell, and the symbols of the cells below top.
LayStates(size, top) == [position : 0..(size - 1), cells : [0..(top - 1) -> Nat]]

\* A symbol is put into a cell below top.
LEMMA PutType ==
    ASSUME NEW n \in Nat, n >= 4, NEW top \in 1..2^n, NEW s \in LayStates(2^n, top), NEW symbol \in Nat
    PROVE  Put(s, 2^n, top, symbol) \in LayStates(2^n, top)
<1> DEFINE size == 2^n
<1>1. size \in Nat /\ s.position \in 0..(size - 1) /\ s.cells \in [0..(top - 1) -> Nat]
  BY PowType DEF LayStates
<1>2. PICK i \in 0..(size - 1) : Pos(i, size) = s.position
  BY <1>1, PosEach
<1>3. PICK k \in (i + 1)..size : NextFree(Pos(i, size), size, top) = Pos(k, size)
  BY NextFreeIs
<1>4. k \in Nat
  BY <1>1, <1>2, <1>3
<1>5. NextFree(s.position, size, top) \in 0..(size - 1)
  BY <1>2, <1>3, <1>4, PosType
<1>6. [s.cells EXCEPT ![s.position] = symbol] \in [0..(top - 1) -> Nat]
  BY <1>1
<1> HIDE DEF size
<1>7. Put(s, size, top, symbol) \in LayStates(size, top)
  BY <1>5, <1>6, Zenon DEF Put, LayStates
<1>8. QED
  BY <1>7 DEF size

\* The symbols can be put one by one.
LEMMA LayExists ==
    ASSUME NEW n \in Nat, n >= 4, NEW top \in 0..2^n, NEW symbols \in Seq(Nat), Len(symbols) <= top
    PROVE  \E f : Lays(f, 2^n, top, symbols)
<1> DEFINE size == 2^n
           S == LayStates(size, top)
           x == [position |-> 0, cells |-> [idx \in 0..(top - 1) |-> 0]]
           g == [k \in 1..Len(symbols) |-> [s \in S |-> Put(s, size, top, symbols[k])]]
<1>1. size \in Nat /\ size > 0 /\ top \in Nat /\ Len(symbols) \in Nat
  BY PowType
<1>2. x \in S
  <2> HIDE DEF size
  <2>1. 0 \in 0..(size - 1) /\ [idx \in 0..(top - 1) |-> 0] \in [0..(top - 1) -> Nat]
    BY <1>1
  <2>2. QED
    BY <2>1 DEF LayStates
<1>3. g \in [1..Len(symbols) -> [S -> S]]
  <2>1. ASSUME NEW k \in 1..Len(symbols), NEW s \in S PROVE Put(s, size, top, symbols[k]) \in S
    <3>1. top \in 1..size /\ symbols[k] \in Nat
      BY <1>1
    <3>2. QED
      BY <3>1, PutType
  <2> HIDE DEF S, size
  <2>2. QED
    BY <2>1
<1> HIDE DEF g, x, S, size
<1>4. PICK f : Iterates(f, S, x, Len(symbols), g)
  BY <1>1, <1>2, <1>3, Recursive
<1>5. f \in [0..Len(symbols) -> S] /\ f[0] = x /\ \A k \in 1..Len(symbols) : f[k] = g[k][f[k - 1]]
  BY <1>4, Zenon DEF Iterates
<1>6. ASSUME NEW k \in 0..Len(symbols)
      PROVE  f[k] = IF k = 0 THEN x ELSE Put(f[k - 1], size, top, symbols[k])
  <2>1. CASE k = 0
    BY <1>5, <2>1
  <2>2. CASE k # 0
    <3>1. k \in 1..Len(symbols) /\ k - 1 \in 0..Len(symbols)
      BY <1>1, <2>2
    <3>2. f[k - 1] \in S
      BY <1>5, <3>1
    <3>3. g[k][f[k - 1]] = Put(f[k - 1], size, top, symbols[k])
      BY <3>1, <3>2 DEF g
    <3>4. QED
      BY <1>5, <2>2, <3>1, <3>3
  <2>3. QED
    BY <2>1, <2>2
<1>7. f = [k \in 0..Len(symbols) |-> f[k]]
  BY <1>5
<1>8. Lays(f, size, top, symbols)
  BY <1>6, <1>7, Zenon DEF Lays, x
<1>9. QED
  BY <1>8 DEF size

\* The cells that were written, one for each symbol, are those the walk has passed.
Placed(s, k, i, h, size, top, symbols) ==
    /\ i \in 0..size /\ s.position = Pos(i, size) /\ Pos(i, size) < top
    /\ s.cells \in [0..(top - 1) -> Nat]
    /\ h \in Injection(1..k, 0..(top - 1))
    /\ \A m \in 1..k : s.cells[h[m]] = symbols[m] /\ \E j \in 0..(i - 1) : h[m] = Pos(j, size)
    /\ \A j \in 0..(i - 1) : Pos(j, size) < top => \E m \in 1..k : h[m] = Pos(j, size)

\* Before all cells are written the walk has not come round.
LEMMA NotRound ==
    ASSUME NEW n \in Nat, n >= 4, NEW top \in 1..2^n, NEW symbols \in Seq(Nat),
           NEW k \in 0..(top - 1), NEW s, NEW i, NEW h, Placed(s, k, i, h, 2^n, top, symbols)
    PROVE  i \in 0..(2^n - 1)
<1> DEFINE size == 2^n
<1>1. size \in Nat /\ top \in Nat /\ top <= size /\ k \in Nat /\ k < top
  BY PowType
<1>2. i \in 0..size
  BY DEF Placed
<1>3. SUFFICES ASSUME i = size PROVE FALSE
  BY <1>1, <1>2
<1>4. h \in Injection(1..k, 0..(top - 1))
  BY DEF Placed
<1>5. ASSUME NEW c \in 0..(top - 1) PROVE \E m \in 1..k : h[m] = c
  <2>1. c \in 0..(size - 1) /\ c < top
    BY <1>1
  <2>2. PICK j \in 0..(size - 1) : Pos(j, size) = c
    BY <2>1, PosEach
  <2>3. \E m \in 1..k : h[m] = Pos(j, size)
    BY <1>3, <2>1, <2>2 DEF Placed
  <2>4. QED
    BY <2>2, <2>3
<1> HIDE DEF size
<1>6. h \in Surjection(1..k, 0..(top - 1))
  BY <1>4, <1>5 DEF Injection, Surjection
<1>7. IsFiniteSet(1..k) /\ Cardinality(1..k) = k /\ Cardinality(0..(top - 1)) = top
  <2>1. 1 \in Int /\ k \in Int /\ 0 \in Int /\ top - 1 \in Int
    BY <1>1
  <2>2. Cardinality(1..k) = IF 1 > k THEN 0 ELSE k - 1 + 1
    BY <2>1, FS_Interval
  <2>3. Cardinality(0..(top - 1)) = IF 0 > top - 1 THEN 0 ELSE (top - 1) - 0 + 1
    BY <2>1, FS_Interval
  <2>4. QED
    BY <1>1, <2>1, <2>2, <2>3, FS_Interval
<1>8. top <= k
  <2>1. Cardinality(0..(top - 1)) <= Cardinality(1..k)
    BY <1>6, <1>7, FS_Surjection
  <2>2. QED
    BY <1>7, <2>1
<1>9. QED
  BY <1>1, <1>8

\* One more symbol takes one more cell, the next that is free.
LEMMA PlacedNext ==
    ASSUME NEW n \in Nat, n >= 4, NEW top \in 1..2^n, NEW symbols \in Seq(Nat), Len(symbols) = top,
           NEW k \in 0..(top - 1), NEW s, NEW i, NEW h, Placed(s, k, i, h, 2^n, top, symbols)
    PROVE  \E j, g : Placed(Put(s, 2^n, top, symbols[k + 1]), k + 1, j, g, 2^n, top, symbols)
<1> DEFINE size == 2^n
           c == Pos(i, size)
           b == symbols[k + 1]
           t == Put(s, size, top, b)
           g == [m \in 1..(k + 1) |-> IF m = k + 1 THEN c ELSE h[m]]
<1>1. size \in Nat /\ top \in Nat /\ top > 0 /\ k \in Nat /\ k + 1 \in 1..top
  BY PowType
<1>2. i \in 0..(size - 1) /\ i \in Nat
  BY <1>1, NotRound
<1>3. /\ s.position = c /\ c < top /\ s.cells \in [0..(top - 1) -> Nat]
      /\ h \in [1..k -> 0..(top - 1)] /\ (\A x, y \in 1..k : h[x] = h[y] => x = y)
      /\ \A m \in 1..k : s.cells[h[m]] = symbols[m] /\ \E j \in 0..(i - 1) : h[m] = Pos(j, size)
      /\ \A j \in 0..(i - 1) : Pos(j, size) < top => \E m \in 1..k : h[m] = Pos(j, size)
  BY DEF Placed, Injection, IsInjective
<1>4. PICK j \in (i + 1)..size : /\ NextFree(c, size, top) = Pos(j, size) /\ Pos(j, size) < top
                                /\ \A m \in (i + 1)..(j - 1) : Pos(m, size) >= top
  BY <1>2, NextFreeIs
<1>5. c \in 0..(top - 1) /\ b \in Nat
  <2>1. c \in 0..(size - 1)
    BY <1>2, PosType
  <2> HIDE DEF c, size
  <2>2. QED
    BY <1>1, <1>3, <2>1
<1>6. t.position = Pos(j, size) /\ t.cells = [s.cells EXCEPT ![c] = b]
  <2>1. t = [position |-> NextFree(s.position, size, top), cells |-> [s.cells EXCEPT ![s.position] = b]]
    BY DEF Put
  <2>2. s.position = c /\ NextFree(c, size, top) = Pos(j, size)
    BY <1>3, <1>4
  <2> HIDE DEF c, size, b, t
  <2>3. QED
    BY <2>1, <2>2
<1>7. \A m \in 1..k : h[m] # c
  <2>1. ASSUME NEW m \in 1..k, h[m] = c PROVE FALSE
    <3>1. PICK a \in 0..(i - 1) : h[m] = Pos(a, size)
      BY <1>3
    <3>2. a \in 0..(size - 1) /\ a # i
      BY <1>1, <1>2
    <3>3. QED
      BY <1>2, <2>1, <3>1, <3>2, PosOnce
  <2>2. QED
    BY <2>1
<1> HIDE DEF t, c, b
<1>8. \A m \in 1..(k + 1) : (m = k + 1 /\ g[m] = c) \/ (m \in 1..k /\ g[m] = h[m])
  BY <1>1
<1>9. g \in [1..(k + 1) -> 0..(top - 1)]
  <2>1. \A m \in 1..k : h[m] \in 0..(top - 1)
    BY <1>3
  <2>2. QED
    BY <1>1, <1>5, <2>1
<1> HIDE DEF g, size
<1>10. g \in Injection(1..(k + 1), 0..(top - 1))
  <2>1. ASSUME NEW x \in 1..(k + 1), NEW y \in 1..(k + 1), g[x] = g[y] PROVE x = y
    BY <1>3, <1>7, <1>8, <2>1, ZenonT(60)
  <2>2. QED
    BY <1>9, <2>1 DEF Injection, IsInjective
<1>11. t.cells \in [0..(top - 1) -> Nat]
  BY <1>3, <1>5, <1>6, SMTT(30)
<1>12. ASSUME NEW m \in 1..(k + 1)
       PROVE  t.cells[g[m]] = symbols[m] /\ \E a \in 0..(j - 1) : g[m] = Pos(a, size)
  <2>1. CASE m = k + 1
    <3>1. g[m] = c /\ t.cells[c] = b
      BY <1>1, <1>3, <1>5, <1>6, <1>8, <2>1
    <3>2. i \in 0..(j - 1)
      BY <1>1, <1>2, <1>4
    <3>3. QED
      BY <2>1, <3>1, <3>2 DEF b, c
  <2>2. CASE m # k + 1
    <3>1. m \in 1..k /\ g[m] = h[m] /\ h[m] # c /\ h[m] \in 0..(top - 1)
      BY <1>3, <1>7, <1>8, <2>2
    <3>2. t.cells[h[m]] = s.cells[h[m]]
      BY <1>3, <1>6, <3>1
    <3>3. PICK a \in 0..(i - 1) : h[m] = Pos(a, size)
      BY <1>3, <3>1
    <3>4. a \in 0..(j - 1)
      BY <1>1, <1>2, <1>4
    <3>5. QED
      BY <1>3, <3>1, <3>2, <3>3, <3>4
  <2>3. QED
    BY <2>1, <2>2
<1>13. ASSUME NEW a \in 0..(j - 1), Pos(a, size) < top
       PROVE  \E m \in 1..(k + 1) : g[m] = Pos(a, size)
  <2>1. CASE a \in 0..(i - 1)
    <3>1. PICK m \in 1..k : h[m] = Pos(a, size)
      BY <1>3, <1>13, <2>1
    <3>2. m \in 1..(k + 1) /\ m # k + 1
      BY <1>1
    <3>3. QED
      BY <1>8, <3>1, <3>2
  <2>2. CASE a = i
    <3>1. k + 1 \in 1..(k + 1) /\ k + 1 \notin 1..k
      BY <1>1
    <3>2. QED
      BY <1>8, <2>2, <3>1 DEF c
  <2>3. CASE a \in (i + 1)..(j - 1)
    <3>1. Pos(a, size) >= top
      BY <1>4, <2>3
    <3>2. a \in Nat
      BY <1>1, <1>4
    <3>3. Pos(a, size) \in 0..(size - 1)
      BY <3>2, PosType DEF size
    <3>4. Pos(a, size) \in Nat
      BY <1>1, <3>3
    <3>5. QED
      BY <1>1, <1>13, <3>1, <3>4
  <2>4. QED
    BY <1>1, <1>2, <1>4, <2>1, <2>2, <2>3
<1>14. j \in 0..size
  BY <1>1, <1>2, <1>4
<1>15. Placed(t, k + 1, j, g, size, top, symbols)
  BY <1>4, <1>6, <1>10, <1>11, <1>12, <1>13, <1>14 DEF Placed
<1>16. QED
  BY <1>15 DEF t, b, size

\* The spread gives each cell to one of the symbols, and each of the symbols a cell.
LEMMA SpreadOnce ==
    ASSUME NEW n \in Nat, n >= 4, NEW probs, Occurrences(probs) \in Seq(Nat),
           NEW top \in 0..2^n, Len(Occurrences(probs)) = top
    PROVE  /\ Spread(2^n, top, probs) \in [0..(top - 1) -> Nat]
           /\ \E h \in Bijection(1..top, 0..(top - 1)) :
                 \A m \in 1..top : Spread(2^n, top, probs)[h[m]] = Occurrences(probs)[m]
<1> DEFINE size == 2^n
           symbols == Occurrences(probs)
           f == CHOOSE f : Lays(f, size, top, symbols)
           x == [position |-> 0, cells |-> [idx \in 0..(top - 1) |-> 0]]
<1>1. size \in Nat /\ size > 0 /\ top \in Nat /\ Len(symbols) = top /\ symbols \in Seq(Nat)
  BY PowType
<1>2. Lays(f, size, top, symbols)
  <2>1. Len(symbols) <= top
    BY <1>1
  <2>2. \E g : Lays(g, size, top, symbols)
    BY <1>1, <2>1, LayExists
  <2>3. QED
    BY <2>2, Zenon
<1>3. Spread(size, top, probs) = f[Len(symbols)].cells
  <2> HIDE DEF size
  <2>1. QED
    BY Zenon DEF Spread, Lays
<1> HIDE DEF f, symbols, size
<1>4. \A k \in 0..top : f[k] = IF k = 0 THEN x ELSE Put(f[k - 1], size, top, symbols[k])
  BY <1>1, <1>2, Zenon DEF Lays
<1>5. f[0] = x /\ x.cells = [idx \in 0..(top - 1) |-> 0] /\ x.position = 0
  BY <1>1, <1>4
<1>6. CASE top = 0
  <2> DEFINE e == [m \in 1..0 |-> 0]
  <2>1. 1..0 = {} /\ 0..(0 - 1) = {}
    OBVIOUS
  <2>2. e \in [1..0 -> 0..(0 - 1)]
    BY <2>1
  <2> HIDE DEF e
  <2>3. e \in Bijection(1..0, 0..(0 - 1))
    BY <2>1, <2>2 DEF Bijection, Injection, IsInjective, Surjection
  <2>4. f[0].cells \in [0..(0 - 1) -> Nat]
    BY <1>5, <1>6
  <2>5. QED
    BY <1>1, <1>3, <1>6, <2>1, <2>3, <2>4 DEF size, symbols
<1>7. CASE top # 0
  <2> DEFINE P == {k \in 0..top : \E i, h : Placed(f[k], k, i, h, size, top, symbols)}
  <2>0. top \in 1..size /\ top > 0
    BY <1>1, <1>7 DEF size
  <2>1. 0 \in P
    <3> DEFINE e == [m \in 1..0 |-> 0]
    <3>1. 1..0 = {} /\ 0..(0 - 1) = {} /\ 0 \in 0..size /\ 0 \in 0..top
      BY <1>1
    <3>2. e \in [1..0 -> 0..(top - 1)]
      BY <3>1
    <3> HIDE DEF e
    <3>3. e \in Injection(1..0, 0..(top - 1))
      BY <3>1, <3>2 DEF Injection, IsInjective
    <3>4. Pos(0, size) = 0
      BY PosType DEF size
    <3>5. f[0].cells \in [0..(top - 1) -> Nat] /\ f[0].position = 0
      BY <1>5
    <3>6. Placed(f[0], 0, 0, e, size, top, symbols)
      BY <2>0, <3>1, <3>3, <3>4, <3>5 DEF Placed
    <3>7. QED
      BY <3>1, <3>6
  <2>2. ASSUME NEW k \in 0..(top - 1), k \in P PROVE k + 1 \in P
    <3>1. PICK i, h : Placed(f[k], k, i, h, size, top, symbols)
      BY <2>2
    <3>2. k + 1 \in 0..top /\ k + 1 # 0 /\ (k + 1) - 1 = k
      BY <1>1
    <3>3. f[k + 1] = Put(f[k], size, top, symbols[k + 1])
      BY <1>4, <3>2
    <3>4. \E j, g : Placed(Put(f[k], size, top, symbols[k + 1]), k + 1, j, g, size, top, symbols)
      BY <1>1, <2>0, <3>1, PlacedNext DEF size
    <3>5. QED
      BY <3>2, <3>3, <3>4
  <2> HIDE DEF P
  <2>3. \A k \in 0..(top - 1) : k \in P => k + 1 \in P
    BY <2>2
  <2>4. top \in P
    <3>1. \A k \in 0..top : k \in P
      BY <1>1, <2>1, <2>3, UpTo
    <3>2. QED
      BY <1>1, <3>1
  <2>5. PICK i, h : Placed(f[top], top, i, h, size, top, symbols)
    BY <2>4 DEF P
  <2>6. /\ h \in Injection(1..top, 0..(top - 1)) /\ f[top].cells \in [0..(top - 1) -> Nat]
        /\ \A m \in 1..top : f[top].cells[h[m]] = symbols[m]
    BY <2>5 DEF Placed
  <2>7. IsFiniteSet(0..(top - 1)) /\ Cardinality(1..top) = top /\ Cardinality(0..(top - 1)) = top
    BY <1>1, FS_Interval
  <2>8. h \in Bijection(1..top, 0..(top - 1))
    BY <2>6, <2>7, FS_Injection DEF Bijection
  <2>9. QED
    BY <1>1, <1>3, <2>6, <2>8, ZenonT(60) DEF size, symbols
<1>8. QED
  BY <1>6, <1>7

-----------------------------------------------------------------------------
(* The symbols in their order.                                             *)

\* What a distribution says of a symbol: how many cells it has, or -1 for one that is
\* at the end of the table.
Probabilities == Nat \cup {-1}

\* The cells below the top that a probability gives.
Count(p) == IF p > 0 THEN p ELSE 0

\* The occurrences of the symbols, symbol by symbol.
Blocks(probs) == [i \in DOMAIN probs |-> [k \in 1..Count(probs[i]) |-> i - 1]]

\* Where the block of symbol i ends.
EndOf(probs, i) == Len(FlatTo(Blocks(probs), i))

\* As many blocks as there are probabilities, each of its symbol as often as that says.
LEMMA BlocksType ==
    ASSUME NEW probs \in Seq(Probabilities)
    PROVE  /\ Len(probs) \in Nat /\ DOMAIN probs = 1..Len(probs)
           /\ Blocks(probs) \in Seq(Seq(Nat)) /\ Len(Blocks(probs)) = Len(probs)
           /\ Occurrences(probs) = FlattenSeq(Blocks(probs))
           /\ \A i \in 1..Len(probs) : /\ Count(probs[i]) \in Nat /\ Blocks(probs)[i] \in Seq(Nat)
                                       /\ Len(Blocks(probs)[i]) = Count(probs[i])
                                       /\ \A k \in 1..Count(probs[i]) : Blocks(probs)[i][k] = i - 1
<1> DEFINE n == Len(probs)
           b == Blocks(probs)
<1>1. n \in Nat /\ DOMAIN probs = 1..n
  OBVIOUS
<1>2. ASSUME NEW i \in 1..n
      PROVE  /\ Count(probs[i]) \in Nat /\ b[i] \in Seq(Nat) /\ Len(b[i]) = Count(probs[i])
             /\ \A k \in 1..Count(probs[i]) : b[i][k] = i - 1
  <2> DEFINE c == Count(probs[i])
             s == [k \in 1..c |-> i - 1]
  <2>1. c \in Nat
    BY DEF Count, Probabilities
  <2>2. b[i] = s
    BY <1>1 DEF Blocks
  <2> HIDE DEF c, b
  <2>3. s \in Seq(Nat) /\ Len(s) = c /\ \A k \in 1..c : s[k] = i - 1
    <3>1. \A k \in 1..c : s[k] \in Nat
      BY <1>1
    <3>2. s = [k \in 1..c |-> s[k]]
      OBVIOUS
    <3>3. QED
      BY <2>1, <3>1, <3>2, ASequence
  <2>4. QED
    BY <2>1, <2>2, <2>3 DEF c
<1>3. b \in Seq(Seq(Nat)) /\ Len(b) = n
  <2>1. b = [i \in 1..n |-> b[i]]
    BY <1>1 DEF Blocks
  <2>2. \A i \in 1..n : b[i] \in Seq(Nat)
    BY <1>2
  <2> HIDE DEF b, n
  <2>3. QED
    BY <1>1, <2>1, <2>2, ASequence
<1>4. Occurrences(probs) = FlattenSeq(b)
  BY Zenon DEF Occurrences, Blocks, Count
<1>5. QED
  BY <1>1, <1>2, <1>3, <1>4

\* Each block begins where the one before it ends.
LEMMA EndOfNext ==
    ASSUME NEW probs \in Seq(Probabilities)
    PROVE  /\ EndOf(probs, 0) = 0 /\ EndOf(probs, Len(probs)) = Len(Occurrences(probs))
           /\ \A i \in 0..Len(probs) : EndOf(probs, i) \in Nat
           /\ \A i \in 1..Len(probs) : EndOf(probs, i) = EndOf(probs, i - 1) + Count(probs[i])
<1> DEFINE b == Blocks(probs)
           n == Len(probs)
<1>1. /\ n \in Nat /\ b \in Seq(Seq(Nat)) /\ Len(b) = n /\ Occurrences(probs) = FlattenSeq(b)
      /\ \A i \in 1..n : b[i] \in Seq(Nat) /\ Len(b[i]) = Count(probs[i])
  BY BlocksType
<1> HIDE DEF b, n
<1>2. /\ FlatTo(b, 0) = <<>> /\ FlatTo(b, n) = FlattenSeq(b)
      /\ \A i \in 1..n : FlatTo(b, i) = FlatTo(b, i - 1) \o b[i]
  BY <1>1, FlatToSteps
<1>3. \A i \in 0..n : FlatTo(b, i) \in Seq(Nat)
  BY <1>1, FlatToType
<1>4. \A i \in 0..n : Len(FlatTo(b, i)) \in Nat
  BY <1>3
<1>5. ASSUME NEW i \in 1..n PROVE Len(FlatTo(b, i)) = Len(FlatTo(b, i - 1)) + Count(probs[i])
  <2>1. i - 1 \in 0..n
    BY <1>1
  <2>2. FlatTo(b, i - 1) \in Seq(Nat)
    BY <1>3, <2>1
  <2>3. IsJoin(FlatTo(b, i - 1) \o b[i], FlatTo(b, i - 1), b[i])
    BY <1>1, <2>2, Joined
  <2>4. QED
    BY <1>1, <1>2, <2>3 DEF IsJoin
<1>6. Len(<<>>) = 0
  OBVIOUS
<1>7. QED
  BY <1>1, <1>2, <1>4, <1>5, <1>6 DEF EndOf, b, n

\* Within its block stands the symbol, and nowhere else.
LEMMA BlockHolds ==
    ASSUME NEW probs \in Seq(Probabilities), NEW i \in 1..Len(probs)
    PROVE  /\ EndOf(probs, i) <= Len(Occurrences(probs))
           /\ \A m \in (EndOf(probs, i - 1) + 1)..EndOf(probs, i) : Occurrences(probs)[m] = i - 1
<1> DEFINE b == Blocks(probs)
           n == Len(probs)
           x == EndOf(probs, i - 1)
           y == EndOf(probs, i)
<1>1. /\ n \in Nat /\ b \in Seq(Seq(Nat)) /\ Len(b) = n /\ Occurrences(probs) = FlattenSeq(b)
      /\ b[i] \in Seq(Nat) /\ Len(b[i]) = Count(probs[i]) /\ Count(probs[i]) \in Nat
      /\ \A k \in 1..Count(probs[i]) : b[i][k] = i - 1
  BY BlocksType
<1>2. i - 1 \in 0..n /\ i \in 0..n /\ x \in Nat /\ y \in Nat /\ y = x + Count(probs[i])
      /\ x = Len(FlatTo(b, i - 1)) /\ y = Len(FlatTo(b, i))
  <2>1. i - 1 \in 0..n /\ i \in 0..n
    BY <1>1
  <2>2. QED
    BY <2>1, EndOfNext DEF EndOf
<1> HIDE DEF b, n, x, y
<1>3. FlatTo(b, i) = FlatTo(b, i - 1) \o b[i]
  BY <1>1, FlatToSteps DEF n
<1>4. FlatTo(b, i - 1) \in Seq(Nat)
  BY <1>1, <1>2, FlatToType
<1>5. IsJoin(FlatTo(b, i), FlatTo(b, i - 1), b[i])
  BY <1>1, <1>3, <1>4, Joined
<1>6. y <= Len(FlattenSeq(b)) /\ \A j \in 1..y : FlattenSeq(b)[j] = FlatTo(b, i)[j]
  BY <1>1, <1>2, FlatToPrefix
<1>7. ASSUME NEW m \in (x + 1)..y PROVE FlattenSeq(b)[m] = i - 1
  <2>1. m - x \in 1..Count(probs[i]) /\ x + (m - x) = m /\ m \in 1..y
    <3>1. x \in Nat /\ Count(probs[i]) \in Nat /\ y = x + Count(probs[i])
      BY <1>1, <1>2
    <3>2. QED
      BY <3>1
  <2>2. FlatTo(b, i)[x + (m - x)] = b[i][m - x]
    BY <1>1, <1>2, <1>5, <2>1 DEF IsJoin
  <2>3. QED
    BY <1>1, <1>6, <2>1, <2>2
<1>8. QED
  BY <1>1, <1>6, <1>7 DEF x, y

\* Every place lies in a block.
LEMMA InABlock ==
    ASSUME NEW probs \in Seq(Probabilities), NEW m \in 1..Len(Occurrences(probs))
    PROVE  \E i \in 1..Len(probs) : m \in (EndOf(probs, i - 1) + 1)..EndOf(probs, i)
<1> DEFINE n == Len(probs)
           T == {i \in 0..n : m <= EndOf(probs, i)}
<1>1. /\ n \in Nat /\ EndOf(probs, 0) = 0 /\ EndOf(probs, n) = Len(Occurrences(probs))
      /\ \A i \in 0..n : EndOf(probs, i) \in Nat
  BY BlocksType, EndOfNext
<1>2. n \in T
  BY <1>1
<1>3. PICK i \in T : \A j \in T : i <= j
  <2>1. T \subseteq Nat
    BY <1>1
  <2> HIDE DEF T
  <2>2. QED
    BY <1>2, <2>1, LeastNat
<1>4. i \in 0..n /\ m <= EndOf(probs, i) /\ m \in Nat /\ m > 0
  BY <1>1, <1>3
<1>5. i # 0
  BY <1>1, <1>4
<1>6. i - 1 \in 0..n /\ i \in 1..n /\ i - 1 \notin T
  BY <1>1, <1>3, <1>4, <1>5
<1>7. ~(m <= EndOf(probs, i - 1)) /\ EndOf(probs, i - 1) \in Nat
  BY <1>1, <1>6
<1>8. m \in (EndOf(probs, i - 1) + 1)..EndOf(probs, i)
  BY <1>1, <1>4, <1>7
<1>9. QED
  BY <1>6, <1>8

\* Only symbols of positive probability occur.
LEMMA OccurrencesType ==
    ASSUME NEW probs \in Seq(Probabilities)
    PROVE  /\ Occurrences(probs) \in Seq(Nat) /\ Len(Occurrences(probs)) \in Nat
           /\ \A m \in 1..Len(Occurrences(probs)) :
                 Occurrences(probs)[m] + 1 \in 1..Len(probs) /\ probs[Occurrences(probs)[m] + 1] > 0
<1>1. Blocks(probs) \in Seq(Seq(Nat)) /\ Len(probs) \in Nat /\ Len(Blocks(probs)) = Len(probs)
      /\ Occurrences(probs) = FlattenSeq(Blocks(probs))
  BY BlocksType
<1>2. Occurrences(probs) \in Seq(Nat)
  <2>1. Len(probs) \in 0..Len(probs)
    BY <1>1
  <2>2. FlatTo(Blocks(probs), Len(probs)) \in Seq(Nat)
    BY <1>1, <2>1, FlatToType
  <2>3. FlatTo(Blocks(probs), Len(probs)) = FlattenSeq(Blocks(probs))
    BY <1>1, FlatToSteps
  <2>4. QED
    BY <1>1, <2>2, <2>3
<1>3. ASSUME NEW m \in 1..Len(Occurrences(probs))
      PROVE  Occurrences(probs)[m] + 1 \in 1..Len(probs) /\ probs[Occurrences(probs)[m] + 1] > 0
  <2>1. PICK i \in 1..Len(probs) : m \in (EndOf(probs, i - 1) + 1)..EndOf(probs, i)
    BY InABlock
  <2>2. Occurrences(probs)[m] = i - 1
    BY <2>1, BlockHolds
  <2>3. i \in Nat /\ (i - 1) + 1 = i
    BY <1>1
  <2>4. EndOf(probs, i) = EndOf(probs, i - 1) + Count(probs[i]) /\ EndOf(probs, i - 1) \in Nat
    <3>1. i - 1 \in 0..Len(probs)
      BY <1>1
    <3>2. QED
      BY <3>1, EndOfNext
  <2>5. Count(probs[i]) \in Nat /\ Count(probs[i]) > 0
    BY <2>1, <2>4, BlocksType
  <2>6. probs[i] > 0
    BY <2>5 DEF Count
  <2>7. QED
    BY <2>2, <2>3, <2>6
<1>4. QED
  BY <1>2, <1>3

\* A symbol occurs as often as its probability says.
LEMMA OccurrencesCount ==
    ASSUME NEW probs \in Seq(Probabilities), NEW i \in 1..Len(probs)
    PROVE  /\ IsFiniteSet({m \in 1..Len(Occurrences(probs)) : Occurrences(probs)[m] = i - 1})
           /\ Cardinality({m \in 1..Len(Occurrences(probs)) : Occurrences(probs)[m] = i - 1}) = Count(probs[i])
<1> DEFINE x == EndOf(probs, i - 1)
           y == EndOf(probs, i)
           o == Occurrences(probs)
           here == {m \in 1..Len(o) : o[m] = i - 1}
<1>1. /\ i - 1 \in 0..Len(probs) /\ Len(probs) \in Nat /\ Count(probs[i]) \in Nat
      /\ x \in Nat /\ y = x + Count(probs[i]) /\ y <= Len(o) /\ Len(o) \in Nat
      /\ \A m \in (x + 1)..y : o[m] = i - 1
  <2>1. Len(probs) \in Nat /\ Count(probs[i]) \in Nat
    BY BlocksType
  <2>2. i - 1 \in 0..Len(probs)
    BY <2>1
  <2>3. QED
    BY <2>1, <2>2, EndOfNext, BlockHolds, OccurrencesType
<1>2. ASSUME NEW m \in here PROVE m \in (x + 1)..y
  <2>1. PICK j \in 1..Len(probs) : m \in (EndOf(probs, j - 1) + 1)..EndOf(probs, j)
    BY InABlock
  <2>2. o[m] = j - 1
    BY <2>1, BlockHolds
  <2>3. j = i
    BY <1>1, <2>2
  <2>4. QED
    BY <2>1, <2>3
<1>3. ASSUME NEW m \in (x + 1)..y PROVE m \in here
  <2>1. m \in 1..Len(o)
    BY <1>1
  <2>2. QED
    BY <1>1, <2>1
<1>4. here = (x + 1)..y
  BY <1>2, <1>3
<1> HIDE DEF x, y
<1>5. x + 1 \in Int /\ y \in Int
  BY <1>1
<1>6. Cardinality((x + 1)..y) = IF x + 1 > y THEN 0 ELSE y - (x + 1) + 1
  BY <1>5, FS_Interval
<1>7. IsFiniteSet((x + 1)..y) /\ Cardinality((x + 1)..y) = Count(probs[i])
  <2>1. x \in Nat /\ Count(probs[i]) \in Nat /\ y = x + Count(probs[i])
    BY <1>1
  <2>2. IsFiniteSet((x + 1)..y)
    BY <1>5, FS_Interval
  <2>3. QED
    BY <1>6, <2>1, <2>2
<1>8. QED
  BY <1>4, <1>7, Zenon

\* With a cell for each probability of -1 they are what the probabilities share.
LEMMA OccurrencesLen ==
    ASSUME NEW probs \in Seq(Probabilities)
    PROVE  /\ IsFiniteSet({i \in DOMAIN probs : probs[i] = -1})
           /\ Cardinality({i \in DOMAIN probs : probs[i] = -1}) \in Nat
           /\ Shared(probs) = Len(Occurrences(probs)) + Cardinality({i \in DOMAIN probs : probs[i] = -1})
<1> DEFINE n == Len(probs)
           h == [i \in DOMAIN probs |-> Share(probs[i])]
           rare(k) == {i \in 1..k : probs[i] = -1}
           P == {k \in 0..n : SumFunction(SubSeq(h, 1, k)) = EndOf(probs, k) + Cardinality(rare(k))}
<1>1. n \in Nat /\ DOMAIN probs = 1..n
  BY BlocksType
<1>2. h \in Seq(Nat) /\ Len(h) = n /\ \A i \in 1..n : h[i] = Share(probs[i]) /\ Share(probs[i]) \in Nat
  <2>1. \A i \in 1..n : Share(probs[i]) \in Nat
    BY DEF Share, Probabilities
  <2>2. h = [i \in 1..n |-> h[i]] /\ \A i \in 1..n : h[i] = Share(probs[i])
    BY <1>1
  <2> HIDE DEF h, n
  <2>3. \A i \in 1..n : h[i] \in Nat
    BY <2>1, <2>2
  <2>4. h \in Seq(Nat) /\ Len(h) = n
    BY <1>1, <2>2, <2>3, ASequence
  <2>5. QED
    BY <2>1, <2>2, <2>4
<1>3. ASSUME NEW k \in 0..n PROVE IsFiniteSet(rare(k)) /\ Cardinality(rare(k)) \in Nat
  <2>1. IsFiniteSet(1..k) /\ rare(k) \in SUBSET (1..k)
    BY <1>1, CardUpTo
  <2> HIDE DEF rare
  <2>2. IsFiniteSet(rare(k))
    BY <2>1, FS_Subset
  <2>3. QED
    BY <2>2, FS_CardinalityType
<1>4. 0 \in P
  <2>1. SubSeq(h, 1, 0) = <<>> /\ DOMAIN SubSeq(h, 1, 0) = {}
    BY <1>2
  <2>2. SumFunction(SubSeq(h, 1, 0)) = 0
    BY <2>1, SumSeqEmpty
  <2>3. rare(0) = {}
    OBVIOUS
  <2>4. Cardinality(rare(0)) = 0
    BY <2>3, FS_EmptySet
  <2>5. EndOf(probs, 0) = 0
    BY EndOfNext
  <2>6. 0 \in 0..n
    BY <1>1
  <2> HIDE DEF rare, h
  <2>7. QED
    BY <2>2, <2>4, <2>5, <2>6
<1>5. ASSUME NEW k \in 0..(n - 1), k \in P PROVE k + 1 \in P
  <2>1. k \in Nat /\ k + 1 \in 1..n /\ k + 1 \in 0..n /\ k \in 0..n /\ (k + 1) - 1 = k
    BY <1>1
  <2> DEFINE q == SubSeq(h, 1, k)
             p == probs[k + 1]
  <2>2. q \in Seq(Nat) /\ SubSeq(h, 1, k + 1) = Append(q, h[k + 1])
    <3> HIDE DEF h
    <3>1. QED
      BY <1>2, <2>1
  <2>3. SumFunction(SubSeq(h, 1, k + 1)) = SumFunction(q) + Share(p)
    <3>1. h[k + 1] = Share(p) /\ Share(p) \in Nat
      BY <1>2, <2>1
    <3> HIDE DEF h, q, p
    <3>2. QED
      BY <2>2, <3>1, SumAppend
  <2>4. EndOf(probs, k + 1) = EndOf(probs, k) + Count(p) /\ EndOf(probs, k) \in Nat /\ Count(p) \in Nat
    BY <2>1, EndOfNext, BlocksType
  <2>5. Cardinality(rare(k + 1)) = Cardinality(rare(k)) + IF p = -1 THEN 1 ELSE 0
    <3>1. k + 1 \notin rare(k)
      BY <2>1
    <3>2. CASE p = -1
      <4>1. rare(k + 1) = rare(k) \cup {k + 1}
        BY <2>1, <3>2
      <4> HIDE DEF rare
      <4>2. Cardinality(rare(k) \cup {k + 1}) = Cardinality(rare(k)) + 1
        BY <1>3, <2>1, <3>1, FS_AddElement
      <4>3. QED
        BY <3>2, <4>1, <4>2
    <3>3. CASE p # -1
      <4>1. rare(k + 1) = rare(k)
        BY <2>1, <3>3
      <4> HIDE DEF rare
      <4>2. Cardinality(rare(k)) \in Nat
        BY <1>3, <2>1
      <4>3. QED
        BY <3>3, <4>1, <4>2
    <3>4. QED
      BY <3>2, <3>3
  <2>6. Share(p) = Count(p) + IF p = -1 THEN 1 ELSE 0
    <3>1. p \in Probabilities
      BY <1>1, <2>1
    <3> HIDE DEF p
    <3>2. QED
      BY <3>1 DEF Share, Count, Probabilities
  <2>7. SumFunction(q) = EndOf(probs, k) + Cardinality(rare(k))
    BY <1>5
  <2>8. Cardinality(rare(k)) \in Nat
    BY <1>3, <2>1
  <2> HIDE DEF rare, h, q, p
  <2>9. SumFunction(SubSeq(h, 1, k + 1)) = EndOf(probs, k + 1) + Cardinality(rare(k + 1))
    BY <2>3, <2>4, <2>5, <2>6, <2>7, <2>8
  <2>10. QED
    BY <2>1, <2>9
<1>6. SumFunction(SubSeq(h, 1, n)) = EndOf(probs, n) + Cardinality(rare(n))
  <2> HIDE DEF P
  <2>1. \A k \in 0..(n - 1) : k \in P => k + 1 \in P
    BY <1>5
  <2>2. \A k \in 0..n : k \in P
    BY <1>1, <1>4, <2>1, UpTo
  <2>3. n \in P
    BY <1>1, <2>2
  <2>4. QED
    BY <2>3 DEF P
<1>7. SubSeq(h, 1, n) = h
  <2> HIDE DEF h
  <2>1. QED
    BY <1>2
<1>8. rare(n) = {i \in DOMAIN probs : probs[i] = -1}
  BY <1>1
<1>9. Shared(probs) = SumFunction(h)
  BY DEF Shared
<1>10. EndOf(probs, n) = Len(Occurrences(probs)) /\ n \in 0..n
  BY <1>1, EndOfNext
<1> HIDE DEF h, rare
<1>11. QED
  BY <1>3, <1>6, <1>7, <1>8, <1>9, <1>10

-----------------------------------------------------------------------------
(* What the cells of one symbol reach.                                     *)

\* A power of two has one bit more than its exponent.
LEMMA HighestOfPow == ASSUME NEW b \in Nat PROVE HighestBitSet(2^b) = b + 1
<1> DEFINE h == HighestBitSet(2^b)
<1>1. 2^b \in Nat /\ 2^b > 0
  BY PowType
<1>2. h \in Nat /\ 2^b < 2^h /\ h > 0 /\ 2^(h - 1) <= 2^b
  BY <1>1, HighestBit
<1> HIDE DEF h
<1>3. b < h
  BY <1>2, PowBack
<1>4. h - 1 <= b
  <2>1. h - 1 \in Nat
    BY <1>2
  <2>2. QED
    BY <1>2, <2>1, PowBack
<1>5. QED
  BY <1>2, <1>3, <1>4 DEF h

\* The slices of a table are as many as a power of two, and fewer than two for each state.
LEMMA SlicesAre ==
    ASSUME NEW log \in Nat, NEW prob \in 1..2^log
    PROVE  \E a \in 0..log : /\ Slices(prob) = 2^a /\ prob <= 2^a /\ 2^a < 2 * prob
                             /\ 2^log \div Slices(prob) = 2^(log - a) /\ 2^log = 2^a * 2^(log - a)
                             /\ HighestBitSet(2^log \div Slices(prob)) - 1 = log - a
<1> DEFINE h == HighestBitSet(prob)
           s == Slices(prob)
<1>1. 2^log \in Nat /\ prob \in Nat /\ prob > 0 /\ prob <= 2^log
  BY PowType
<1>2. h \in Nat /\ h > 0 /\ prob < 2^h /\ 2^(h - 1) <= prob
  BY <1>1, HighestBit
<1> HIDE DEF h
<1>3. h - 1 \in Nat /\ 2^(h - 1) \in Nat /\ 2^h \in Nat /\ 2^h = 2 * 2^(h - 1)
  <2>1. h - 1 \in Nat /\ (h - 1) + 1 = h
    BY <1>2
  <2>2. QED
    BY <1>2, <2>1, PowType, PowNext
<1>4. \E a \in 0..log : s = 2^a /\ prob <= 2^a /\ 2^a < 2 * prob
  <2>1. CASE 2^(h - 1) = prob
    <3>1. s = 2^(h - 1)
      BY <2>1 DEF Slices, h
    <3>2. h - 1 <= log
      BY <1>1, <1>3, <2>1, PowBack
    <3>3. h - 1 \in 0..log
      BY <1>3, <3>2
    <3>4. prob <= 2^(h - 1) /\ 2^(h - 1) < 2 * prob
      BY <1>1, <2>1
    <3>5. QED
      BY <3>1, <3>3, <3>4
  <2>2. CASE 2^(h - 1) # prob
    <3>1. s = 2^h
      BY <2>2 DEF Slices, h
    <3>2. 2^(h - 1) < prob
      BY <1>1, <1>2, <1>3, <2>2
    <3>3. 2^(h - 1) < 2^log
      BY <1>1, <1>3, <3>2
    <3>4. h - 1 < log
      BY <1>3, <3>3, PowBack
    <3>5. h \in 0..log
      BY <1>2, <3>4
    <3>6. prob <= 2^h /\ 2^h < 2 * prob
      BY <1>1, <1>2, <1>3, <3>2
    <3>7. QED
      BY <3>1, <3>5, <3>6
  <2>3. QED
    BY <2>1, <2>2
<1>5. PICK a \in 0..log : s = 2^a /\ prob <= 2^a /\ 2^a < 2 * prob
  BY <1>4
<1>6. a \in Nat /\ log - a \in Nat /\ 2^log = 2^a * 2^(log - a) /\ 2^a \in Nat /\ 2^(log - a) \in Nat /\ 2^a > 0
  <2>1. a \in Nat /\ log - a \in Nat /\ a <= log
    OBVIOUS
  <2>2. QED
    BY <2>1, PowOrder, PowType
<1>7. 2^log \div s = 2^(log - a)
  <2> DEFINE x == 2^a
             y == 2^(log - a)
             z == 2^log
  <2>1. x \in Nat /\ y \in Nat /\ x > 0 /\ s = x /\ z = x * y
    BY <1>5, <1>6
  <2> HIDE DEF x, y, z, s
  <2>2. z = y * x + 0
    BY <2>1
  <2>3. (y * x + 0) \div x = y
    BY <2>1, DivMod
  <2>4. z \div s = y
    BY <2>1, <2>2, <2>3
  <2>5. QED
    BY <2>4 DEF x, y, z
<1>8. HighestBitSet(2^log \div s) - 1 = log - a
  <2>1. HighestBitSet(2^(log - a)) = (log - a) + 1
    BY <1>6, HighestOfPow
  <2>2. QED
    BY <1>6, <1>7, <2>1
<1>9. QED
  BY <1>5, <1>6, <1>7, <1>8

\* The states that a state leads to, whatever its bits are.
Reaches(b) == b.base_line..(b.base_line + 2^b.num_bits - 1)

\* The p pieces of a range: base[n] and wide[n] give the n-th.
Tiled(total, p, base, wide) ==
    /\ \A n \in 0..(p - 1) : base[n] \in Nat /\ base[n] + wide[n] <= total
    /\ \A x \in 0..(total - 1) : \E n \in 0..(p - 1) : x \in base[n]..(base[n] + wide[n] - 1)
    /\ \A m, n \in 0..(p - 1) : m # n =>
          (base[m]..(base[m] + wide[m] - 1)) \cap (base[n]..(base[n] + wide[n] - 1)) = {}

\* Those of Baseline: d of two slices of width w behind p - d of one.
Slicing(p, d, w, base, wide) ==
    \A n \in 0..(p - 1) : /\ base[n] = IF n < d THEN (p - d) * w + n * w * 2 ELSE (n - d) * w
                          /\ wide[n] = IF n < d THEN 2 * w ELSE w

\* The pieces of Slicing share out the range.
LEMMA Tiles ==
    ASSUME NEW p \in Nat, NEW d \in Nat, d < p, NEW w \in Nat, w > 0,
           NEW base, NEW wide, Slicing(p, d, w, base, wide)
    PROVE  Tiled((p + d) * w, p, base, wide)
<1>0. \A n \in 0..(p - 1) : /\ base[n] = IF n < d THEN (p - d) * w + n * w * 2 ELSE (n - d) * w
                           /\ wide[n] = IF n < d THEN 2 * w ELSE w
  BY DEF Slicing
<1> DEFINE f == (p - d) * w
           e == 2 * w
<1>1. f \in Nat /\ e \in Nat /\ e > 0 /\ (p + d) * w = f + d * e /\ d * e \in Nat
  <2>1. p - d \in Nat
    OBVIOUS
  <2>2. (p + d) * w = (p - d) * w + d * (2 * w)
    OBVIOUS
  <2>3. (p - d) * w \in Nat /\ d * (2 * w) \in Nat
    BY <2>1
  <2>4. QED
    BY <2>2, <2>3
<1>2. ASSUME NEW n \in 0..(p - 1), n < d
      PROVE  /\ base[n] = f + n * e /\ wide[n] = e /\ n * e \in Nat
             /\ base[n] + wide[n] <= f + d * e
  <2>1. n \in Nat
    OBVIOUS
  <2>2. base[n] = f + n * w * 2 /\ wide[n] = e
    BY <1>0, <1>2
  <2>3. n * w * 2 = n * e
    BY <2>1
  <2>4. d * e = n * e + e + (d - n - 1) * e
    BY <2>1
  <2>5. (d - n - 1) * e \in Nat /\ n * e \in Nat
    <3>1. d - n - 1 \in Nat
      BY <1>2, <2>1
    <3> HIDE DEF e
    <3>2. QED
      BY <1>1, <2>1, <3>1
  <2> HIDE DEF f, e
  <2>6. QED
    BY <1>1, <2>2, <2>3, <2>4, <2>5
<1>3. ASSUME NEW n \in 0..(p - 1), ~(n < d)
      PROVE  /\ base[n] = (n - d) * w /\ wide[n] = w /\ (n - d) * w \in Nat /\ n - d \in Nat
             /\ base[n] + wide[n] <= f
  <2>1. n \in Nat /\ n - d \in Nat
    BY <1>3
  <2>2. base[n] = (n - d) * w /\ wide[n] = w
    BY <1>0, <1>3
  <2>3. f = (n - d) * w + w + (p - n - 1) * w
    BY <2>1
  <2>4. (p - n - 1) * w \in Nat /\ (n - d) * w \in Nat
    <3>1. p - n - 1 \in Nat
      BY <2>1
    <3>2. QED
      BY <2>1, <3>1
  <2> HIDE DEF f
  <2>5. QED
    BY <1>1, <2>1, <2>2, <2>3, <2>4
<1> HIDE DEF f, e
<1>4. ASSUME NEW n \in 0..(p - 1) PROVE base[n] \in Nat /\ base[n] + wide[n] <= (p + d) * w
  <2>1. CASE n < d
    BY <1>1, <1>2, <2>1
  <2>2. CASE ~(n < d)
    BY <1>1, <1>3, <2>2
  <2>3. QED
    BY <2>1, <2>2
<1>5. ASSUME NEW x \in 0..((p + d) * w - 1)
      PROVE  \E n \in 0..(p - 1) : x \in base[n]..(base[n] + wide[n] - 1)
  <2>0. x \in Nat /\ x < f + d * e
    BY <1>1
  <2>1. CASE x < f
    <3> DEFINE q == x \div w
               n == d + q
    <3>1. q \in Nat /\ x % w \in 0..(w - 1) /\ x = q * w + (x % w)
      BY <2>0, Euclid
    <3> HIDE DEF q
    <3>2. q < p - d
      <4>1. ASSUME q >= p - d PROVE FALSE
        <5>1. q * w = (p - d) * w + (q - (p - d)) * w /\ (q - (p - d)) * w \in Nat
          BY <3>1, <4>1
        <5>2. q * w >= f
          BY <1>1, <3>1, <5>1 DEF f
        <5>3. q * w \in Nat
          BY <3>1
        <5>4. QED
          BY <1>1, <2>0, <2>1, <3>1, <5>2, <5>3
      <4>2. QED
        BY <3>1, <4>1
    <3>3. n \in 0..(p - 1) /\ ~(n < d) /\ n - d = q
      BY <3>1, <3>2
    <3>4. base[n] = q * w /\ wide[n] = w
      BY <1>3, <3>3
    <3>5. x \in base[n]..(base[n] + wide[n] - 1)
      <4>1. q * w \in Nat
        BY <3>1
      <4>2. QED
        BY <2>0, <3>1, <3>4, <4>1
    <3>6. QED
      BY <3>3, <3>5
  <2>2. CASE ~(x < f)
    <3> DEFINE y == x - f
               n == y \div e
    <3>1. y \in Nat /\ y < d * e
      BY <1>1, <2>0, <2>2
    <3> HIDE DEF y
    <3>2. n \in Nat /\ y % e \in 0..(e - 1) /\ y = n * e + (y % e)
      BY <1>1, <3>1, Euclid
    <3> HIDE DEF n
    <3>3. n < d
      <4>1. ASSUME n >= d PROVE FALSE
        <5>1. n * e = d * e + (n - d) * e /\ (n - d) * e \in Nat
          BY <1>1, <3>2, <4>1
        <5>2. QED
          BY <1>1, <3>1, <3>2, <5>1
      <4>2. QED
        BY <3>2, <4>1
    <3>4. n \in 0..(p - 1)
      BY <3>2, <3>3
    <3>5. base[n] = f + n * e /\ wide[n] = e /\ n * e \in Nat
      BY <1>2, <3>3, <3>4
    <3>6. x = f + y
      BY <1>1, <2>0 DEF y
    <3>7. x \in base[n]..(base[n] + wide[n] - 1)
      BY <1>1, <3>1, <3>2, <3>5, <3>6
    <3>8. QED
      BY <3>4, <3>7
  <2>3. QED
    BY <2>1, <2>2
<1>6. ASSUME NEW m \in 0..(p - 1), NEW n \in 0..(p - 1), NEW x \in Int,
             x >= base[m], x < base[m] + wide[m], x >= base[n], x < base[n] + wide[n]
      PROVE  m = n
  <2>0. m \in Nat /\ n \in Nat
    OBVIOUS
  <2>1. CASE m < d /\ n < d
    <3> DEFINE y == x - f
    <3>1. /\ m * e \in Nat /\ n * e \in Nat
          /\ y - m * e \in Nat /\ y - m * e < e /\ y - n * e \in Nat /\ y - n * e < e /\ y \in Nat
      BY <1>1, <1>2, <1>6, <2>1
    <3> HIDE DEF y
    <3>2. (m * e + (y - m * e)) \div e = m /\ (n * e + (y - n * e)) \div e = n
      BY <1>1, <2>0, <3>1, DivMod
    <3>3. m * e + (y - m * e) = y /\ n * e + (y - n * e) = y
      BY <3>1
    <3>4. QED
      BY <3>2, <3>3
  <2>2. CASE ~(m < d) /\ ~(n < d)
    <3> DEFINE a == m - d
               b == n - d
    <3>1. /\ a \in Nat /\ b \in Nat /\ a * w \in Nat /\ b * w \in Nat
          /\ x - a * w \in Nat /\ x - a * w < w /\ x - b * w \in Nat /\ x - b * w < w
      BY <1>3, <1>6, <2>2
    <3>2. m = a + d /\ n = b + d
      BY <2>0
    <3> HIDE DEF a, b
    <3>3. (a * w + (x - a * w)) \div w = a /\ (b * w + (x - b * w)) \div w = b
      BY <3>1, DivMod
    <3>4. a * w + (x - a * w) = x /\ b * w + (x - b * w) = x
      BY <3>1
    <3>5. QED
      BY <3>2, <3>3, <3>4
  <2>3. CASE m < d /\ ~(n < d)
    BY <1>1, <1>2, <1>3, <1>6, <2>3
  <2>4. CASE ~(m < d) /\ n < d
    <3>1. base[m] + wide[m] <= f /\ base[m] \in Nat /\ wide[m] \in Nat
      BY <1>3, <2>4
    <3>2. base[n] >= f
      BY <1>1, <1>2, <2>4
    <3>3. QED
      BY <1>1, <1>4, <1>6, <3>1, <3>2
  <2>5. QED
    BY <2>1, <2>2, <2>3, <2>4
<1>7. ASSUME NEW m \in 0..(p - 1), NEW n \in 0..(p - 1), m # n
      PROVE  (base[m]..(base[m] + wide[m] - 1)) \cap (base[n]..(base[n] + wide[n] - 1)) = {}
  <2>1. base[m] \in Nat /\ base[n] \in Nat /\ wide[m] \in Nat /\ wide[n] \in Nat
    <3>0. 2 * w \in Nat
      OBVIOUS
    <3>1. wide[m] = IF m < d THEN 2 * w ELSE w
      BY <1>0
    <3>2. wide[n] = IF n < d THEN 2 * w ELSE w
      BY <1>0
    <3>3. QED
      BY <1>4, <3>0, <3>1, <3>2
  <2>2. ASSUME NEW x \in (base[m]..(base[m] + wide[m] - 1)) \cap (base[n]..(base[n] + wide[n] - 1)) PROVE FALSE
    <3>1. x \in Int /\ x >= base[m] /\ x < base[m] + wide[m] /\ x >= base[n] /\ x < base[n] + wide[n]
      BY <2>1
    <3>2. QED
      BY <1>6, <1>7, <3>1
  <2>3. QED
    BY <2>2
<1>8. QED
  BY <1>4, <1>5, <1>7, Zenon DEF Tiled

\* The states of a symbol share out all that a table has, none of it twice.
LEMMA BaselineTiles ==
    ASSUME NEW log \in Nat, NEW prob \in 1..2^log
    PROVE  /\ \A n \in 0..(prob - 1) : LET b == Baseline(2^log, prob, n)
                                       IN  /\ b.num_bits \in 0..log /\ b.base_line \in Nat
                                           /\ b.base_line + 2^b.num_bits <= 2^log
           /\ \A x \in 0..(2^log - 1) : \E n \in 0..(prob - 1) : x \in Reaches(Baseline(2^log, prob, n))
           /\ \A m, n \in 0..(prob - 1) : m # n =>
                 Reaches(Baseline(2^log, prob, m)) \cap Reaches(Baseline(2^log, prob, n)) = {}
<1> DEFINE size == 2^log
           b(n) == Baseline(size, prob, n)
           d == Slices(prob) - prob
           base == [n \in 0..(prob - 1) |-> b(n).base_line]
           wide == [n \in 0..(prob - 1) |-> 2^b(n).num_bits]
<1>1. PICK a \in 0..log : /\ Slices(prob) = 2^a /\ prob <= 2^a /\ 2^a < 2 * prob
                         /\ 2^log \div Slices(prob) = 2^(log - a) /\ 2^log = 2^a * 2^(log - a)
                         /\ HighestBitSet(2^log \div Slices(prob)) - 1 = log - a
  BY SlicesAre
<1> DEFINE w == 2^(log - a)
<1>2. /\ a \in Nat /\ log - a \in Nat /\ size \in Nat /\ 2^a \in Nat /\ w \in Nat /\ w > 0
      /\ 2^((log - a) + 1) = 2 * w /\ prob \in Nat /\ prob > 0
  <2>1. a \in Nat /\ log - a \in Nat
    OBVIOUS
  <2>2. 2^log \in Nat /\ 2^a \in Nat /\ w \in Nat /\ w > 0 /\ 2^((log - a) + 1) = 2 * w
    BY <2>1, PowType, PowNext
  <2>3. QED
    BY <2>1, <2>2
<1>3. d \in Nat /\ d < prob /\ prob + d = 2^a
  <2> DEFINE y == 2^a
  <2>1. Slices(prob) = y /\ prob <= y /\ y < 2 * prob /\ y \in Nat
    BY <1>1, <1>2
  <2> HIDE DEF y
  <2>2. d \in Nat /\ d < prob /\ prob + d = y
    BY <1>2, <2>1
  <2>3. QED
    BY <2>2 DEF y
<1>4. size \div Slices(prob) = w /\ HighestBitSet(w) - 1 = log - a
  BY <1>1
<1>5. ASSUME NEW n \in 0..(prob - 1)
      PROVE  b(n) = IF n < d THEN [base_line |-> (prob - d) * w + n * w * 2, num_bits |-> (log - a) + 1]
                    ELSE [base_line |-> (n - d) * w, num_bits |-> log - a]
  <2> HIDE DEF size, w
  <2>1. QED
    BY <1>4 DEF Baseline
<1> HIDE DEF b, d
<1>6. \A n \in 0..(prob - 1) : /\ base[n] = IF n < d THEN (prob - d) * w + n * w * 2 ELSE (n - d) * w
                               /\ wide[n] = IF n < d THEN 2 * w ELSE w
  <2>1. ASSUME NEW n \in 0..(prob - 1)
        PROVE  /\ base[n] = IF n < d THEN (prob - d) * w + n * w * 2 ELSE (n - d) * w
               /\ wide[n] = IF n < d THEN 2 * w ELSE w
    <3>1. base[n] = b(n).base_line /\ wide[n] = 2^b(n).num_bits
      OBVIOUS
    <3>2. CASE n < d
      BY <1>2, <1>5, <3>1, <3>2
    <3>3. CASE ~(n < d)
      BY <1>5, <3>1, <3>3
    <3>4. QED
      BY <3>2, <3>3
  <2>2. QED
    BY <2>1
<1>7. (prob + d) * w = size
  BY <1>1, <1>3
<1>8. ASSUME NEW n \in 0..(prob - 1) PROVE b(n).num_bits \in 0..log
  <2>1. CASE n < d
    <3>1. a # 0
      <4>1. 2^0 = 1
        OBVIOUS
      <4>2. QED
        BY <1>1, <1>2, <1>3, <2>1, <4>1
    <3>2. b(n).num_bits = (log - a) + 1
      BY <1>5, <2>1
    <3>3. QED
      BY <1>2, <3>1, <3>2
  <2>2. CASE ~(n < d)
    <3>1. b(n).num_bits = log - a
      BY <1>5, <2>2
    <3>2. QED
      BY <1>2, <3>1
  <2>3. QED
    BY <2>1, <2>2
<1>9. \A n \in 0..(prob - 1) : base[n] = b(n).base_line /\ wide[n] = 2^b(n).num_bits
  OBVIOUS
<1> HIDE DEF base, wide, w, size
<1>10. /\ \A n \in 0..(prob - 1) : base[n] \in Nat /\ base[n] + wide[n] <= (prob + d) * w
       /\ \A x \in 0..((prob + d) * w - 1) : \E n \in 0..(prob - 1) : x \in base[n]..(base[n] + wide[n] - 1)
       /\ \A m, n \in 0..(prob - 1) : m # n =>
             (base[m]..(base[m] + wide[m] - 1)) \cap (base[n]..(base[n] + wide[n] - 1)) = {}
  <2>1. prob \in Nat /\ d \in Nat /\ d < prob /\ w \in Nat /\ w > 0
    BY <1>2, <1>3
  <2>2. Slicing(prob, d, w, base, wide)
    BY <1>6, Zenon DEF Slicing
  <2>3. Tiled((prob + d) * w, prob, base, wide)
    BY <2>1, <2>2, Tiles
  <2>4. QED
    BY <2>3, Zenon DEF Tiled
<1>11. \A n \in 0..(prob - 1) : Reaches(b(n)) = base[n]..(base[n] + wide[n] - 1)
  BY <1>9 DEF Reaches
<1>12. /\ \A n \in 0..(prob - 1) : b(n).num_bits \in 0..log /\ b(n).base_line \in Nat
                                   /\ b(n).base_line + 2^b(n).num_bits <= size
       /\ \A x \in 0..(size - 1) : \E n \in 0..(prob - 1) : x \in Reaches(b(n))
       /\ \A m, n \in 0..(prob - 1) : m # n => Reaches(b(m)) \cap Reaches(b(n)) = {}
  <2>1. ASSUME NEW n \in 0..(prob - 1)
        PROVE  b(n).num_bits \in 0..log /\ b(n).base_line \in Nat /\ b(n).base_line + 2^b(n).num_bits <= size
    BY <1>7, <1>8, <1>9, <1>10
  <2>2. ASSUME NEW x \in 0..(size - 1) PROVE \E n \in 0..(prob - 1) : x \in Reaches(b(n))
    <3>1. PICK n \in 0..(prob - 1) : x \in base[n]..(base[n] + wide[n] - 1)
      BY <1>7, <1>10
    <3>2. QED
      BY <1>11, <3>1
  <2>3. ASSUME NEW m \in 0..(prob - 1), NEW n \in 0..(prob - 1), m # n
        PROVE  Reaches(b(m)) \cap Reaches(b(n)) = {}
    <3>1. (base[m]..(base[m] + wide[m] - 1)) \cap (base[n]..(base[n] + wide[n] - 1)) = {}
      BY <1>10, <2>3, Zenon
    <3>2. QED
      BY <1>11, <3>1
  <2>4. QED
    BY <2>1, <2>2, <2>3
<1>13. QED
  BY <1>12 DEF b, size

-----------------------------------------------------------------------------
(* The parts of a decoding table.                                          *)

\* The symbols of probability -1.
Rare(probs) == {i \in DOMAIN probs : probs[i] = -1}

\* The cell they begin at.
Top(log, probs) == 2^log - Cardinality(Rare(probs))

\* The symbols of the cells below it.
SpreadCells(log, probs) == Spread(2^log, Top(log, probs), probs)

\* The cells of a symbol.
CellsOf(log, probs, symbol) == {c \in 0..(Top(log, probs) - 1) : SpreadCells(log, probs)[c] = symbol}

\* How many cells of the same symbol there are before a cell.
Before(log, probs, idx) == Cardinality({c \in 0..(idx - 1) : SpreadCells(log, probs)[c] = SpreadCells(log, probs)[idx]})

\* The share of a cell below the top.
Share0(log, probs, idx) == Baseline(2^log, probs[SpreadCells(log, probs)[idx] + 1], Before(log, probs, idx))

\* The symbol of a cell at the end of the table.
RareAt(log, probs, idx) == CHOOSE i \in Rare(probs) : Cardinality({j \in Rare(probs) : j <= i}) = 2^log - idx

\* What stands in the cells below the top.
LowEntry(log, probs, idx) ==
    [symbol |-> SpreadCells(log, probs)[idx], base_line |-> Share0(log, probs, idx).base_line,
     num_bits |-> Share0(log, probs, idx).num_bits]

\* What stands in those from there on.
HighEntry(log, probs, idx) == [symbol |-> RareAt(log, probs, idx) - 1, base_line |-> 0, num_bits |-> log]

\* These are the entries of DecodingTable.
LEMMA TableIs ==
    ASSUME NEW log, NEW probs, NEW t \in DecodingTable(log, probs)
    PROVE  /\ Len(probs) <= MaxSymbol + 1
           /\ t = [idx \in 0..(2^log - 1) |-> IF idx < Top(log, probs) THEN LowEntry(log, probs, idx)
                                              ELSE HighEntry(log, probs, idx)]
BY Zenon DEF DecodingTable, Rare, Top, SpreadCells, Before, Share0, RareAt, LowEntry, HighEntry

\* A distribution that gives out all of a table.
Distributes(log, probs) == log \in Nat /\ log >= 4 /\ probs \in Seq(Probabilities) /\ Shared(probs) = 2^log

\* The symbols that occur have the cells up to the top, the others those from there on.
LEMMA TopIs ==
    ASSUME NEW log, NEW probs, Distributes(log, probs)
    PROVE  /\ 2^log \in Nat /\ 2^log > 0 /\ Len(probs) \in Nat /\ DOMAIN probs = 1..Len(probs)
           /\ IsFiniteSet(Rare(probs)) /\ Cardinality(Rare(probs)) \in Nat
           /\ Rare(probs) \in SUBSET (1..Len(probs))
           /\ Top(log, probs) \in 0..2^log /\ Top(log, probs) = Len(Occurrences(probs))
           /\ 2^log - Top(log, probs) = Cardinality(Rare(probs))
           /\ Occurrences(probs) \in Seq(Nat)
<1>1. log \in Nat /\ log >= 4 /\ probs \in Seq(Probabilities) /\ Shared(probs) = 2^log
  BY DEF Distributes
<1>2. /\ IsFiniteSet(Rare(probs)) /\ Cardinality(Rare(probs)) \in Nat
      /\ Shared(probs) = Len(Occurrences(probs)) + Cardinality(Rare(probs))
  BY <1>1, OccurrencesLen DEF Rare
<1>3. Occurrences(probs) \in Seq(Nat) /\ Len(Occurrences(probs)) \in Nat
  BY <1>1, OccurrencesType
<1>4. 2^log \in Nat /\ 2^log > 0
  BY <1>1, PowType
<1>5. Len(probs) \in Nat /\ DOMAIN probs = 1..Len(probs)
  BY <1>1
<1>6. Rare(probs) \in SUBSET (1..Len(probs))
  BY <1>5 DEF Rare
<1> DEFINE size == 2^log
           n == Cardinality(Rare(probs))
           l == Len(Occurrences(probs))
<1>7. Top(log, probs) = size - n /\ size \in Nat /\ n \in Nat /\ l \in Nat /\ size = l + n
  BY <1>1, <1>2, <1>3, <1>4 DEF Top
<1> HIDE DEF size, n, l
<1>8. Top(log, probs) \in 0..size /\ Top(log, probs) = l /\ size - Top(log, probs) = n
  BY <1>7
<1>9. QED
  BY <1>2, <1>3, <1>4, <1>5, <1>6, <1>8 DEF size, n, l

\* Each symbol has as many cells as its probability says.
LEMMA CellsCount ==
    ASSUME NEW log, NEW probs, Distributes(log, probs), NEW i \in 1..Len(probs)
    PROVE  /\ CellsOf(log, probs, i - 1) \in SUBSET Nat /\ IsFiniteSet(CellsOf(log, probs, i - 1))
           /\ Cardinality(CellsOf(log, probs, i - 1)) = Count(probs[i])
<1> DEFINE o == Occurrences(probs)
           top == Top(log, probs)
           cells == SpreadCells(log, probs)
           M == {m \in 1..Len(o) : o[m] = i - 1}
           C == CellsOf(log, probs, i - 1)
<1>1. /\ log \in Nat /\ log >= 4 /\ probs \in Seq(Probabilities) /\ o \in Seq(Nat) /\ top = Len(o)
      /\ top \in 0..2^log /\ top \in Nat
  <2>1. top \in 0..2^log /\ 2^log \in Nat
    BY TopIs
  <2>2. QED
    BY <2>1, TopIs DEF Distributes
<1> HIDE DEF o, top
<1>2. PICK h \in Bijection(1..top, 0..(top - 1)) : \A m \in 1..top : cells[h[m]] = o[m]
  BY <1>1, SpreadOnce, ZenonT(60) DEF SpreadCells, o, top
<1>3. /\ h \in [1..top -> 0..(top - 1)] /\ (\A x, y \in 1..top : h[x] = h[y] => x = y)
      /\ \A c \in 0..(top - 1) : \E m \in 1..top : h[m] = c
  BY <1>2 DEF Bijection, Injection, IsInjective, Surjection
<1>4. C = {c \in 0..(top - 1) : cells[c] = i - 1}
  BY DEF CellsOf, top
<1>5. M = {m \in 1..top : o[m] = i - 1}
  BY <1>1
<1> DEFINE g == [m \in M |-> h[m]]
<1> HIDE DEF cells, C, M
<1>6. g \in [M -> C]
  <2>1. \A m \in M : h[m] \in C
    BY <1>2, <1>3, <1>4, <1>5
  <2>2. QED
    BY <2>1
<1>7. \A x, y \in M : g[x] = g[y] => x = y
  BY <1>3, <1>5
<1>8. \A c \in C : \E m \in M : g[m] = c
  <2>1. ASSUME NEW c \in C PROVE \E m \in M : g[m] = c
    <3>1. c \in 0..(top - 1) /\ cells[c] = i - 1
      BY <1>4
    <3>2. PICK m \in 1..top : h[m] = c
      BY <1>3, <3>1
    <3>3. m \in M
      BY <1>2, <1>5, <3>1, <3>2
    <3>4. QED
      BY <3>2, <3>3
  <2>2. QED
    BY <2>1
<1> HIDE DEF g
<1>9. g \in Bijection(M, C)
  BY <1>6, <1>7, <1>8 DEF Bijection, Injection, IsInjective, Surjection
<1>10. IsFiniteSet(M) /\ Cardinality(M) = Count(probs[i])
  BY <1>1, OccurrencesCount DEF M, o
<1>11. IsFiniteSet(C) /\ Cardinality(C) = Cardinality(M)
  BY <1>9, <1>10, FS_Bijection DEF ExistsBijection
<1>12. C \in SUBSET Nat
  BY <1>1, <1>4
<1>13. QED
  BY <1>10, <1>11, <1>12 DEF C

\* In the cells below the top stand symbols that have a share.
LEMMA CellsType ==
    ASSUME NEW log, NEW probs, Distributes(log, probs), NEW c \in 0..(Top(log, probs) - 1)
    PROVE  /\ SpreadCells(log, probs)[c] \in Nat /\ SpreadCells(log, probs)[c] + 1 \in 1..Len(probs)
           /\ probs[SpreadCells(log, probs)[c] + 1] > 0
<1> DEFINE o == Occurrences(probs)
           top == Top(log, probs)
           cells == SpreadCells(log, probs)
<1>1. /\ log \in Nat /\ log >= 4 /\ probs \in Seq(Probabilities) /\ o \in Seq(Nat) /\ top = Len(o)
      /\ top \in 0..2^log /\ c \in 0..(top - 1)
  BY TopIs DEF Distributes
<1> HIDE DEF o, top
<1>2. /\ cells \in [0..(top - 1) -> Nat]
      /\ \E h \in Bijection(1..top, 0..(top - 1)) : \A m \in 1..top : cells[h[m]] = o[m]
  BY <1>1, SpreadOnce, ZenonT(60) DEF SpreadCells, o, top
<1>3. PICK h \in Bijection(1..top, 0..(top - 1)) : \A m \in 1..top : cells[h[m]] = o[m]
  BY <1>2
<1>4. PICK m \in 1..top : h[m] = c
  BY <1>1, <1>3 DEF Bijection, Surjection
<1>5. cells[c] = o[m] /\ m \in 1..Len(o)
  BY <1>1, <1>3, <1>4
<1>6. o[m] + 1 \in 1..Len(probs) /\ probs[o[m] + 1] > 0
  BY <1>1, <1>5, OccurrencesType DEF o
<1>7. QED
  BY <1>1, <1>2, <1>5, <1>6

\* Of the cells of a symbol, those before one.
LEMMA BeforeIs ==
    ASSUME NEW log, NEW probs, Distributes(log, probs), NEW idx \in 0..(Top(log, probs) - 1)
    PROVE  Before(log, probs, idx) = Cardinality({c \in CellsOf(log, probs, SpreadCells(log, probs)[idx]) : c < idx})
<1> DEFINE cells == SpreadCells(log, probs)
           top == Top(log, probs)
           A == {c \in 0..(idx - 1) : cells[c] = cells[idx]}
           B == {c \in CellsOf(log, probs, cells[idx]) : c < idx}
<1>1. top \in Nat /\ idx \in Nat /\ idx < top
  <2>1. top \in 0..2^log /\ 2^log \in Nat
    BY TopIs
  <2> HIDE DEF top
  <2>2. top \in Nat /\ idx \in 0..(top - 1)
    BY <2>1 DEF top
  <2>3. QED
    BY <2>2
<1> HIDE DEF cells, top
<1>2. \A c : c \in 0..(idx - 1) <=> c \in 0..(top - 1) /\ c < idx
  BY <1>1
<1>3. CellsOf(log, probs, cells[idx]) = {c \in 0..(top - 1) : cells[c] = cells[idx]}
  BY DEF CellsOf, cells, top
<1>4. A = B
  BY <1>2, <1>3
<1>5. QED
  BY <1>4, Zenon DEF Before, cells

\* The share of a cell below the top is one of those of its symbol.
LEMMA LowCell ==
    ASSUME NEW log, NEW probs, Distributes(log, probs), NEW i \in 1..Len(probs),
           NEW idx \in CellsOf(log, probs, i - 1)
    PROVE  /\ probs[i] \in 1..2^log /\ idx \in 0..(Top(log, probs) - 1)
           /\ Before(log, probs, idx) \in 0..(probs[i] - 1)
           /\ Before(log, probs, idx) = Cardinality({c \in CellsOf(log, probs, i - 1) : c < idx})
           /\ Share0(log, probs, idx) = Baseline(2^log, probs[i], Before(log, probs, idx))
           /\ LowEntry(log, probs, idx).symbol = i - 1
           /\ Reaches(LowEntry(log, probs, idx)) = Reaches(Baseline(2^log, probs[i], Before(log, probs, idx)))
           /\ LowEntry(log, probs, idx).num_bits \in 0..log /\ LowEntry(log, probs, idx).base_line \in Nat
           /\ LowEntry(log, probs, idx).base_line + 2^LowEntry(log, probs, idx).num_bits <= 2^log
<1> DEFINE C == CellsOf(log, probs, i - 1)
           p == probs[i]
           n == Before(log, probs, idx)
           size == 2^log
<1>1. log \in Nat /\ size \in Nat /\ Len(probs) \in Nat /\ Top(log, probs) \in 0..size
  BY TopIs DEF Distributes
<1>2. C \in SUBSET Nat /\ IsFiniteSet(C) /\ Cardinality(C) = Count(p)
  BY CellsCount
<1>3. idx \in 0..(Top(log, probs) - 1) /\ SpreadCells(log, probs)[idx] = i - 1
  BY DEF CellsOf
<1>4. p > 0 /\ Count(p) = p
  <2>1. (i - 1) + 1 = i
    BY <1>1
  <2>2. p > 0
    BY <1>3, <2>1, CellsType
  <2>3. QED
    BY <2>2 DEF Count
<1>5. p \in Nat /\ p <= size
  <2>1. p \in Nat
    <3>1. p \in Probabilities
      BY DEF Distributes
    <3>2. QED
      BY <1>4, <3>1 DEF Probabilities
  <2>2. C \in SUBSET (0..(size - 1))
    <3>1. \A c \in 0..(Top(log, probs) - 1) : c \in 0..(size - 1)
      BY <1>1
    <3>2. QED
      BY <3>1 DEF CellsOf
  <2>3. IsFiniteSet(0..(size - 1)) /\ Cardinality(0..(size - 1)) = size
    BY <1>1, CardUpTo
  <2> HIDE DEF C, size
  <2>4. Cardinality(C) <= Cardinality(0..(size - 1))
    BY <2>2, <2>3, FS_Subset
  <2>5. QED
    BY <1>2, <1>4, <2>1, <2>3, <2>4
<1>6. n = Cardinality({c \in C : c < idx})
  BY <1>3, BeforeIs
<1>7. n \in 0..(p - 1)
  <2> HIDE DEF C, n, p
  <2>1. idx \in C
    BY DEF C
  <2>2. Cardinality({c \in C : c < idx}) \in 0..(Cardinality(C) - 1)
    BY <1>2, <2>1, RankOnto
  <2>3. QED
    BY <1>2, <1>4, <1>6, <2>2
<1>8. Share0(log, probs, idx) = Baseline(size, p, n)
  <2>1. (i - 1) + 1 = i
    BY <1>1
  <2>2. QED
    BY <1>3, <2>1 DEF Share0
<1>9. p \in 1..size
  BY <1>1, <1>4, <1>5
<1> DEFINE b == Baseline(size, p, n)
<1>10. b.num_bits \in 0..log /\ b.base_line \in Nat /\ b.base_line + 2^b.num_bits <= size
  BY <1>1, <1>7, <1>9, BaselineTiles
<1> HIDE DEF b
<1> DEFINE e == LowEntry(log, probs, idx)
<1>11. e.symbol = i - 1 /\ e.base_line = b.base_line /\ e.num_bits = b.num_bits
  BY <1>3, <1>8 DEF LowEntry, b
<1> HIDE DEF e
<1>12. Reaches(e) = Reaches(b)
  BY <1>11 DEF Reaches
<1>13. e.num_bits \in 0..log /\ e.base_line \in Nat /\ e.base_line + 2^e.num_bits <= size
  BY <1>10, <1>11
<1>14. QED
  BY <1>3, <1>6, <1>7, <1>8, <1>9, <1>11, <1>12, <1>13 DEF b, e

\* The symbols of probability -1 have one cell each, from the end of the table down.
RareRank(probs, i) == Cardinality({j \in Rare(probs) : j <= i})

\* Each has a place in their order, and no two the same.
LEMMA RareRanks ==
    ASSUME NEW log, NEW probs, Distributes(log, probs)
    PROVE  /\ \A i \in Rare(probs) : RareRank(probs, i) \in 1..(2^log - Top(log, probs))
           /\ \A k \in 1..(2^log - Top(log, probs)) : \E i \in Rare(probs) : RareRank(probs, i) = k
           /\ \A i, j \in Rare(probs) : RareRank(probs, i) = RareRank(probs, j) => i = j
<1> DEFINE R == Rare(probs)
           n == Cardinality(R)
           f == [c \in R |-> Cardinality({x \in R : x < c})]
<1>1. R \in SUBSET Nat /\ IsFiniteSet(R) /\ n \in Nat /\ 2^log - Top(log, probs) = n
  <2>1. Rare(probs) \in SUBSET (1..Len(probs)) /\ Len(probs) \in Nat
    BY TopIs
  <2>2. \A i \in 1..Len(probs) : i \in Nat
    BY <2>1
  <2>3. QED
    BY <2>1, <2>2, TopIs
<1> HIDE DEF R, n
<1>2. f \in Bijection(R, 0..(n - 1))
  BY <1>1, RankOnto DEF n
<1>3. ASSUME NEW i \in R PROVE RareRank(probs, i) = f[i] + 1 /\ f[i] \in Nat
  BY <1>1, UpToIncluded DEF RareRank, R
<1> HIDE DEF f
<1>4. /\ f \in [R -> 0..(n - 1)] /\ (\A x, y \in R : f[x] = f[y] => x = y)
      /\ \A k \in 0..(n - 1) : \E x \in R : f[x] = k
  BY <1>2 DEF Bijection, Injection, IsInjective, Surjection
<1>5. ASSUME NEW i \in R PROVE RareRank(probs, i) \in 1..n
  <2>1. f[i] \in 0..(n - 1)
    BY <1>4
  <2>2. QED
    BY <1>1, <1>3, <2>1
<1>6. ASSUME NEW k \in 1..n PROVE \E i \in R : RareRank(probs, i) = k
  <2>1. k - 1 \in 0..(n - 1) /\ (k - 1) + 1 = k
    BY <1>1
  <2>2. PICK i \in R : f[i] = k - 1
    BY <1>4, <2>1
  <2>3. QED
    BY <1>3, <2>1, <2>2
<1>7. ASSUME NEW i \in R, NEW j \in R, RareRank(probs, i) = RareRank(probs, j) PROVE i = j
  <2>1. f[i] = f[j]
    BY <1>3, <1>7
  <2>2. QED
    BY <1>4, <2>1
<1>8. QED
  BY <1>1, <1>5, <1>6, <1>7 DEF R

\* A cell at the end of the table is that of one of them.
LEMMA HighCell ==
    ASSUME NEW log, NEW probs, Distributes(log, probs), NEW idx \in Top(log, probs)..(2^log - 1)
    PROVE  RareAt(log, probs, idx) \in Rare(probs) /\ RareRank(probs, RareAt(log, probs, idx)) = 2^log - idx
<1> DEFINE size == 2^log
           top == Top(log, probs)
<1>1. size \in Nat /\ top \in Nat /\ top <= size
  <2>1. size \in Nat /\ top \in 0..size
    BY TopIs
  <2> HIDE DEF size, top
  <2>2. QED
    BY <2>1
<1>2. size - idx \in 1..(size - top)
  <2> HIDE DEF size, top
  <2>1. idx \in top..(size - 1)
    BY DEF size, top
  <2>2. QED
    BY <1>1, <2>1
<1>3. \E i \in Rare(probs) : RareRank(probs, i) = size - idx
  BY <1>2, RareRanks
<1>4. QED
  BY <1>3, Zenon DEF RareAt, RareRank

-----------------------------------------------------------------------------
(* The whole table.                                                        *)

\* Every entry reads as many bits as lead from its base line into the table.
LEMMA TableType ==
    ASSUME NEW log, NEW probs, Distributes(log, probs), NEW t \in DecodingTable(log, probs)
    PROVE  /\ DOMAIN t = 0..(2^log - 1)
           /\ \A c \in 0..(2^log - 1) :
                 /\ t[c].symbol \in 0..MaxSymbol /\ t[c].num_bits \in 0..log /\ t[c].base_line \in Nat
                 /\ t[c].base_line + 2^t[c].num_bits <= 2^log
<1> DEFINE size == 2^log
           top == Top(log, probs)
<1>1. /\ Len(probs) <= MaxSymbol + 1
      /\ t = [idx \in 0..(size - 1) |-> IF idx < top THEN LowEntry(log, probs, idx)
                                        ELSE HighEntry(log, probs, idx)]
  BY TableIs
<1>2. /\ size \in Nat /\ top \in Nat /\ top <= size /\ Len(probs) \in Nat /\ DOMAIN probs = 1..Len(probs)
      /\ log \in Nat /\ MaxSymbol \in Nat
  <2>1. size \in Nat /\ top \in 0..size
    BY TopIs
  <2> HIDE DEF size, top
  <2>2. QED
    BY <2>1, TopIs, FseConstants DEF Distributes
<1> HIDE DEF size, top
<1>3. ASSUME NEW c \in 0..(size - 1)
      PROVE  /\ t[c].symbol \in 0..MaxSymbol /\ t[c].num_bits \in 0..log /\ t[c].base_line \in Nat
             /\ t[c].base_line + 2^t[c].num_bits <= size
  <2>1. CASE c < top
    <3>1. t[c] = LowEntry(log, probs, c) /\ c \in 0..(top - 1)
      BY <1>1, <1>2, <2>1
    <3> DEFINE i == SpreadCells(log, probs)[c] + 1
    <3>2. i \in 1..Len(probs) /\ i - 1 = SpreadCells(log, probs)[c]
      BY <3>1, CellsType DEF top
    <3>3. c \in CellsOf(log, probs, i - 1)
      BY <3>1, <3>2 DEF CellsOf, top
    <3> HIDE DEF i
    <3>4. /\ t[c].symbol = i - 1 /\ t[c].num_bits \in 0..log /\ t[c].base_line \in Nat
          /\ t[c].base_line + 2^t[c].num_bits <= size
      BY <3>1, <3>2, <3>3, LowCell, ZenonT(60) DEF size
    <3>5. i - 1 \in 0..MaxSymbol
      BY <1>1, <1>2, <3>2
    <3>6. QED
      BY <3>4, <3>5
  <2>2. CASE ~(c < top)
    <3>1. t[c] = HighEntry(log, probs, c) /\ c \in top..(size - 1)
      BY <1>1, <1>2, <2>2
    <3>2. RareAt(log, probs, c) \in Rare(probs)
      BY <3>1, HighCell DEF top, size
    <3>3. RareAt(log, probs, c) \in 1..Len(probs)
      BY <1>2, <3>2 DEF Rare
    <3>4. t[c].symbol = RareAt(log, probs, c) - 1 /\ t[c].base_line = 0 /\ t[c].num_bits = log
      BY <3>1 DEF HighEntry
    <3>5. 0 + 2^log <= size
      BY <1>2 DEF size
    <3>6. RareAt(log, probs, c) - 1 \in 0..MaxSymbol
      BY <1>1, <1>2, <3>3
    <3>7. t[c].num_bits \in 0..log /\ t[c].base_line \in Nat
      BY <1>2, <3>4
    <3>8. t[c].base_line + 2^t[c].num_bits <= size
      BY <3>4, <3>5, Zenon
    <3>9. QED
      BY <3>4, <3>6, <3>7, <3>8, Zenon
  <2>3. QED
    BY <2>1, <2>2
<1>4. DOMAIN t = 0..(size - 1)
  BY <1>1
<1>5. QED
  BY <1>3, <1>4 DEF size

\* The cells of t whose symbol is the i-th, of probability p, are as many as
\* its share, and what their states reach is the table, each number once.
SharesOut(t, i, p) ==
    LET cells == {c \in DOMAIN t : t[c].symbol = i - 1}
    IN  /\ Cardinality(cells) = Share(p)
        /\ UNION {Reaches(t[c]) : c \in cells} = DOMAIN t
        /\ \A c, d \in cells : c = d \/ Reaches(t[c]) \cap Reaches(t[d]) = {}

\* The cells of one symbol share out the table.
LEMMA TableShares ==
    ASSUME NEW log, NEW probs, Distributes(log, probs), NEW t \in DecodingTable(log, probs),
           NEW i \in 1..Len(probs), probs[i] # 0
    PROVE  SharesOut(t, i, probs[i])
<1> DEFINE cells == {c \in DOMAIN t : t[c].symbol = i - 1}
<1>a. SUFFICES /\ Cardinality(cells) = Share(probs[i])
               /\ UNION {Reaches(t[c]) : c \in cells} = DOMAIN t
               /\ \A c, d \in cells : c = d \/ Reaches(t[c]) \cap Reaches(t[d]) = {}
  BY Zenon DEF SharesOut
<1>b. cells = {c \in DOMAIN t : t[c].symbol = i - 1}
  OBVIOUS
<1> HIDE DEF cells
<1> DEFINE size == 2^log
           top == Top(log, probs)
           p == probs[i]
<1>1. t = [idx \in 0..(size - 1) |-> IF idx < top THEN LowEntry(log, probs, idx)
                                     ELSE HighEntry(log, probs, idx)]
  BY TableIs
<1>2. /\ size \in Nat /\ top \in Nat /\ top <= size /\ Len(probs) \in Nat /\ DOMAIN probs = 1..Len(probs)
      /\ log \in Nat /\ p \in Probabilities
  <2>1. size \in Nat /\ top \in 0..size
    BY TopIs
  <2> HIDE DEF size, top
  <2>2. QED
    BY <2>1, TopIs DEF Distributes
<1> HIDE DEF size, top
<1>3. DOMAIN t = 0..(size - 1)
  BY <1>1
<1>4. ASSUME NEW c \in 0..(size - 1), c < top
      PROVE  /\ t[c] = LowEntry(log, probs, c) /\ t[c].symbol = SpreadCells(log, probs)[c] /\ c \in 0..(top - 1)
             /\ SpreadCells(log, probs)[c] + 1 \in 1..Len(probs) /\ SpreadCells(log, probs)[c] \in Nat
             /\ probs[SpreadCells(log, probs)[c] + 1] > 0
  <2>1. t[c] = LowEntry(log, probs, c) /\ c \in 0..(top - 1)
    BY <1>1, <1>2, <1>4
  <2>2. QED
    BY <2>1, CellsType DEF top, LowEntry
<1>5. ASSUME NEW c \in 0..(size - 1), ~(c < top)
      PROVE  /\ t[c] = HighEntry(log, probs, c) /\ t[c].symbol = RareAt(log, probs, c) - 1
             /\ RareAt(log, probs, c) \in Rare(probs) /\ RareAt(log, probs, c) \in 1..Len(probs)
             /\ RareRank(probs, RareAt(log, probs, c)) = size - c
             /\ probs[RareAt(log, probs, c)] = -1
             /\ t[c].base_line = 0 /\ t[c].num_bits = log
  <2>1. t[c] = HighEntry(log, probs, c) /\ c \in top..(size - 1)
    BY <1>1, <1>2, <1>5
  <2>2. RareAt(log, probs, c) \in Rare(probs) /\ RareRank(probs, RareAt(log, probs, c)) = size - c
    BY <2>1, HighCell DEF top, size
  <2>3. QED
    BY <1>2, <2>1, <2>2 DEF HighEntry, Rare
<1>6. CASE p > 0
  <2> DEFINE C == CellsOf(log, probs, i - 1)
             n(c) == Before(log, probs, c)
             b(k) == Baseline(size, p, k)
  <2>1. C \in SUBSET Nat /\ IsFiniteSet(C) /\ Cardinality(C) = p
    <3>1. Count(p) = p
      BY <1>6 DEF Count
    <3>2. QED
      BY <3>1, CellsCount
  <2>2. cells = C
    <3>1. ASSUME NEW c \in cells PROVE c \in C
      <4>1. c \in 0..(size - 1) /\ t[c].symbol = i - 1
        BY <1>3, <1>b
      <4>2. c < top
        <5>1. SUFFICES ASSUME ~(c < top) PROVE FALSE
          OBVIOUS
        <5>2. RareAt(log, probs, c) - 1 = i - 1 /\ RareAt(log, probs, c) \in 1..Len(probs)
              /\ probs[RareAt(log, probs, c)] = -1
          BY <1>5, <4>1, <5>1
        <5>3. RareAt(log, probs, c) = i
          BY <1>2, <5>2
        <5>4. QED
          BY <1>6, <5>2, <5>3
      <4>3. QED
        BY <1>4, <4>1, <4>2 DEF CellsOf, top
    <3>2. ASSUME NEW c \in C PROVE c \in cells
      <4>1. c \in 0..(top - 1) /\ SpreadCells(log, probs)[c] = i - 1
        BY DEF CellsOf, top
      <4>2. c \in 0..(size - 1) /\ c < top
        BY <1>2, <4>1
      <4>3. QED
        BY <1>3, <1>4, <1>b, <4>1, <4>2
    <3>3. QED
      BY <3>1, <3>2
  <2>3. ASSUME NEW c \in C
        PROVE  /\ Reaches(t[c]) = Reaches(b(n(c))) /\ n(c) \in 0..(p - 1) /\ p \in 1..size
               /\ n(c) = Cardinality({x \in C : x < c})
    <3>1. c \in 0..(top - 1) /\ c \in CellsOf(log, probs, i - 1)
      BY DEF CellsOf, top
    <3>2. c \in 0..(size - 1) /\ c < top
      BY <1>2, <3>1
    <3>3. t[c] = LowEntry(log, probs, c)
      BY <1>4, <3>2
    <3>4. probs[i] \in 1..2^log /\ Before(log, probs, c) \in 0..(probs[i] - 1)
      BY <3>1, LowCell
    <3>5. Before(log, probs, c) = Cardinality({x \in CellsOf(log, probs, i - 1) : x < c})
      BY <3>1, LowCell
    <3>6. Reaches(LowEntry(log, probs, c)) = Reaches(Baseline(2^log, probs[i], Before(log, probs, c)))
      BY <3>1, LowCell
    <3>7. QED
      BY <3>3, <3>4, <3>5, <3>6, Zenon DEF size
  <2> DEFINE f == [c \in C |-> Cardinality({x \in C : x < c})]
  <2>4. f \in Bijection(C, 0..(p - 1))
    <3> HIDE DEF C, p
    <3>1. f \in Bijection(C, 0..(Cardinality(C) - 1))
      BY <2>1, RankOnto
    <3>2. QED
      BY <2>1, <3>1
  <2>5. \A c \in C : f[c] = n(c)
    BY <2>3
  <2> HIDE DEF f, C, n
  <2>6. (\A x, y \in C : f[x] = f[y] => x = y) /\ \A k \in 0..(p - 1) : \E x \in C : f[x] = k
    BY <2>4 DEF Bijection, Injection, IsInjective, Surjection
  <2>7. C # {}
    <3>1. p # 0
      BY <1>6
    <3>2. QED
      BY <2>1, <3>1, FS_EmptySet
  <2>8. p \in 1..size
    BY <2>3, <2>7
  <2>9. /\ \A k \in 0..(p - 1) : b(k).num_bits \in 0..log /\ b(k).base_line \in Nat
                                 /\ b(k).base_line + 2^b(k).num_bits <= size
        /\ \A x \in 0..(size - 1) : \E k \in 0..(p - 1) : x \in Reaches(b(k))
        /\ \A k, m \in 0..(p - 1) : k # m => Reaches(b(k)) \cap Reaches(b(m)) = {}
    BY <1>2, <2>8, BaselineTiles DEF size
  <2> HIDE DEF b
  <2>10. Cardinality(cells) = Share(p)
    <3>1. Share(p) = p
      BY <1>6 DEF Share
    <3>2. QED
      BY <2>1, <2>2, <3>1
  <2>11. UNION {Reaches(t[c]) : c \in C} = 0..(size - 1)
    <3>1. ASSUME NEW x \in 0..(size - 1) PROVE \E c \in C : x \in Reaches(t[c])
      <4>1. PICK k \in 0..(p - 1) : x \in Reaches(b(k))
        BY <2>9
      <4>2. PICK c \in C : f[c] = k
        BY <2>6
      <4>3. QED
        BY <2>3, <2>5, <4>1, <4>2
    <3>2. ASSUME NEW c \in C, NEW x \in Reaches(t[c]) PROVE x \in 0..(size - 1)
      <4>1. n(c) \in 0..(p - 1) /\ x \in Reaches(b(n(c)))
        BY <2>3
      <4>2. /\ b(n(c)).base_line \in Nat /\ b(n(c)).base_line + 2^b(n(c)).num_bits <= size
            /\ b(n(c)).num_bits \in Nat
        BY <1>2, <2>9, <4>1
      <4>3. 2^b(n(c)).num_bits \in Nat
        BY <4>2, PowType
      <4>4. x \in b(n(c)).base_line..(b(n(c)).base_line + 2^b(n(c)).num_bits - 1)
        BY <4>1 DEF Reaches
      <4>5. QED
        BY <1>2, <4>2, <4>3, <4>4, SMTT(30)
    <3>3. QED
      BY <3>1, <3>2
  <2>12. ASSUME NEW c \in C, NEW d \in C, c # d PROVE Reaches(t[c]) \cap Reaches(t[d]) = {}
    <3>1. n(c) # n(d) /\ n(c) \in 0..(p - 1) /\ n(d) \in 0..(p - 1)
      <4>1. n(c) = f[c] /\ n(d) = f[d]
        BY <2>5, Zenon
      <4>2. f[c] # f[d]
        BY <2>6, <2>12, Zenon
      <4>3. n(c) \in 0..(p - 1) /\ n(d) \in 0..(p - 1)
        BY <2>3, Zenon
      <4>4. QED
        BY <4>1, <4>2, <4>3, Zenon
    <3>2. Reaches(b(n(c))) \cap Reaches(b(n(d))) = {}
      BY <2>9, <3>1
    <3>3. QED
      BY <2>3, <3>2
  <2>13. QED
    BY <1>3, <2>2, <2>10, <2>11, <2>12
<1>7. CASE ~(p > 0)
  <2>1. p = -1 /\ i \in Rare(probs)
    BY <1>2, <1>7 DEF Probabilities, Rare
  <2> DEFINE r == RareRank(probs, i)
             z == size - r
  <2>2. r \in 1..(size - top)
    BY <2>1, RareRanks DEF size, top
  <2>3. z \in 0..(size - 1) /\ ~(z < top) /\ size - z = r
    BY <1>2, <2>2
  <2>4. t[z].symbol = i - 1
    <3>1. RareAt(log, probs, z) \in Rare(probs) /\ RareRank(probs, RareAt(log, probs, z)) = r
          /\ t[z].symbol = RareAt(log, probs, z) - 1
      BY <1>5, <2>3
    <3>2. RareAt(log, probs, z) = i
      BY <2>1, <3>1, RareRanks
    <3>3. QED
      BY <3>1, <3>2
  <2> HIDE DEF z
  <2>5. ASSUME NEW c \in cells PROVE c = z
    <3>1. c \in 0..(size - 1) /\ t[c].symbol = i - 1
      BY <1>3, <1>b
    <3>2. ~(c < top)
      <4>1. SUFFICES ASSUME c < top PROVE FALSE
        OBVIOUS
      <4>2. /\ SpreadCells(log, probs)[c] = i - 1 /\ probs[SpreadCells(log, probs)[c] + 1] > 0
        BY <1>4, <3>1, <4>1
      <4>3. (i - 1) + 1 = i
        BY <1>2
      <4>4. QED
        BY <1>7, <4>2, <4>3
    <3>3. RareAt(log, probs, c) - 1 = i - 1 /\ RareAt(log, probs, c) \in 1..Len(probs)
          /\ RareRank(probs, RareAt(log, probs, c)) = size - c
      BY <1>5, <3>1, <3>2
    <3>4. RareAt(log, probs, c) = i
      BY <1>2, <3>3
    <3>5. r = size - c /\ z = size - r /\ c \in Nat
      BY <1>2, <3>1, <3>3, <3>4 DEF z
    <3> HIDE DEF r
    <3>6. QED
      BY <1>2, <3>5
  <2>6. cells = {z}
    BY <1>3, <1>b, <2>3, <2>4, <2>5
  <2>7. Reaches(t[z]) = 0..(size - 1)
    <3>1. t[z].base_line = 0 /\ t[z].num_bits = log
      BY <1>5, <2>3
    <3>2. Reaches(t[z]) = 0..(0 + 2^log - 1)
      BY <3>1 DEF Reaches
    <3>3. 0 + 2^log - 1 = size - 1
      BY <1>2 DEF size
    <3>4. QED
      BY <3>2, <3>3
  <2>8. Cardinality(cells) = Share(p)
    <3>1. Share(p) = 1
      BY <2>1 DEF Share
    <3>2. Cardinality({z}) = 1
      BY FS_Singleton
    <3>3. QED
      BY <2>6, <3>1, <3>2
  <2>9. QED
    BY <1>3, <2>6, <2>7, <2>8
<1>8. QED
  BY <1>6, <1>7

-----------------------------------------------------------------------------
(* The Huffman table.                                                      *)

\* The bits of each symbol, in a code that is max bits wide.
IsCode(c) == c.max \in Nat /\ c.bits \in Seq(0..c.max)

\* The symbols that have codes of b bits.
SymbolsOf(c, b) == {i \in DOMAIN c.bits : c.bits[i] = b}

\* The entries of the symbols with longer codes than b, symbol by symbol.
RankTerms(c, b) == [i \in DOMAIN c.bits |-> IF c.bits[i] > b THEN 2^(c.max - c.bits[i]) ELSE 0]

\* The codes of a width begin where those of the next one end.
LEMMA RankNext ==
    ASSUME NEW c, IsCode(c)
    PROVE  /\ \A b \in 0..c.max : Rank(c, b) \in Nat
           /\ Rank(c, c.max) = 0
           /\ \A b \in 1..c.max : /\ IsFiniteSet(SymbolsOf(c, b)) /\ Cardinality(SymbolsOf(c, b)) \in Nat
                                  /\ Rank(c, b - 1) = Rank(c, b) + Cardinality(SymbolsOf(c, b)) * 2^(c.max - b)
<1> DEFINE n == Len(c.bits)
           max == c.max
<1>1. /\ n \in Nat /\ max \in Nat /\ DOMAIN c.bits = 1..n
      /\ \A i \in 1..n : c.bits[i] \in 0..max
  BY DEF IsCode
<1>2. \A b : Rank(c, b) = SumFunctionOnSet(RankTerms(c, b), 1..n)
  <2>1. \A b : DOMAIN RankTerms(c, b) = 1..n
    BY <1>1 DEF RankTerms
  <2>2. \A b : Rank(c, b) = SumFunction(RankTerms(c, b))
    BY Zenon DEF Rank, RankTerms
  <2>3. QED
    BY <2>1, <2>2 DEF SumFunction
<1> HIDE DEF n, max
<1>3. ASSUME NEW b \in 0..max, NEW i \in 1..n
      PROVE  /\ RankTerms(c, b)[i] = IF c.bits[i] > b THEN 2^(max - c.bits[i]) ELSE 0
             /\ RankTerms(c, b)[i] \in Nat
  <2>1. RankTerms(c, b)[i] = IF c.bits[i] > b THEN 2^(max - c.bits[i]) ELSE 0
    BY <1>1 DEF RankTerms, max
  <2>2. max - c.bits[i] \in Nat
    BY <1>1
  <2>3. 2^(max - c.bits[i]) \in Nat
    BY <2>2, PowType
  <2>4. QED
    BY <2>1, <2>3
<1>4. ASSUME NEW b \in 0..max PROVE Rank(c, b) \in Nat
  <2>1. IsFiniteSet(1..n)
    BY <1>1, CardUpTo
  <2>2. SumFunctionOnSet(RankTerms(c, b), 1..n) \in Nat
    BY <1>3, <2>1, SumType
  <2>3. QED
    BY <1>2, <2>2
<1>5. Rank(c, max) = 0
  <2> DEFINE zeros == [i \in 1..n |-> 0]
             q == RankTerms(c, max)
  <2>1. max \in 0..max
    BY <1>1
  <2>2. \A i \in 1..n : q[i] = 0
    <3>1. \A i \in 1..n : ~(c.bits[i] > max)
      BY <1>1
    <3>2. QED
      BY <1>3, <2>1, <3>1
  <2>3. \A i \in 1..n : q[i] \in Nat
    BY <2>2
  <2>4. SumFunctionOnSet(q, 1..n) = SumFunctionOnSet(q, {})
    <3>1. IsFiniteSet(1..n) /\ {} \subseteq 1..n
      BY <1>1, CardUpTo
    <3> HIDE DEF q
    <3>2. \A x \in (1..n) \ {} : q[x] = 0
      BY <2>2
    <3>3. QED
      BY <2>3, <3>1, <3>2, SumZeroes
  <2>5. QED
    BY <1>2, <2>4, SumEmpty
<1>6. ASSUME NEW b \in 1..max
      PROVE  /\ IsFiniteSet(SymbolsOf(c, b)) /\ Cardinality(SymbolsOf(c, b)) \in Nat
             /\ Rank(c, b - 1) = Rank(c, b) + Cardinality(SymbolsOf(c, b)) * 2^(max - b)
  <2> DEFINE q == RankTerms(c, b - 1)
             r == RankTerms(c, b)
             S == SymbolsOf(c, b)
             w == 2^(max - b)
  <2>1. b \in 0..max /\ b - 1 \in 0..max /\ max - b \in Nat
    BY <1>1
  <2>2. w \in Nat
    BY <2>1, PowType
  <2>3. S \in SUBSET (1..n)
    BY <1>1 DEF SymbolsOf
  <2>4. ASSUME NEW i \in 1..n PROVE q[i] \in Nat /\ r[i] \in Nat /\ q[i] = r[i] + IF i \in S THEN w ELSE 0
    <3>1. q[i] \in Nat /\ r[i] \in Nat /\ q[i] = (IF c.bits[i] > b - 1 THEN 2^(max - c.bits[i]) ELSE 0)
          /\ r[i] = (IF c.bits[i] > b THEN 2^(max - c.bits[i]) ELSE 0)
      BY <1>3, <2>1
    <3>2. i \in S <=> c.bits[i] = b
      BY <1>1 DEF SymbolsOf
    <3>3. c.bits[i] \in 0..max
      BY <1>1
    <3> DEFINE x == c.bits[i]
    <3>4. CASE x = b
      <4>1. x > b - 1 /\ ~(x > b)
        BY <2>1, <3>4
      <4>2. q[i] = w /\ r[i] = 0
        BY <3>1, <3>4, <4>1
      <4>3. QED
        BY <2>2, <3>1, <3>2, <3>4, <4>2
    <3>5. CASE x # b
      <4>1. x > b - 1 <=> x > b
        BY <2>1, <3>3, <3>5
      <4>2. q[i] = r[i]
        BY <3>1, <4>1
      <4>3. QED
        BY <3>1, <3>2, <3>5, <4>2
    <3>6. QED
      BY <3>4, <3>5
  <2> HIDE DEF q, r, S, w
  <2>5. /\ IsFiniteSet(S) /\ Cardinality(S) \in Nat
        /\ MoreBy(SumFunctionOnSet(q, 1..n), SumFunctionOnSet(r, 1..n), Cardinality(S), w)
    <3>1. LargerBy(n, q, r, S, w)
      BY <2>4 DEF LargerBy
    <3>2. n \in Nat /\ w \in Nat /\ S \in SUBSET (1..n)
      BY <1>1, <2>2, <2>3
    <3>3. QED
      BY <3>1, <3>2, SumMore, Zenon
  <2>6. QED
    BY <1>2, <2>5 DEF q, r, S, w, MoreBy
<1>7. QED
  BY <1>4, <1>5, <1>6 DEF max

\* A code that fills its table: what is behind a width is a multiple of it, and
\* so is where the width begins.
LEMMA RankDivides ==
    ASSUME NEW c, IsCode(c), Rank(c, 0) = 2^c.max
    PROVE  \A b \in 0..c.max : \E k \in Nat : Rank(c, b) = k * 2^(c.max - b)
<1> DEFINE max == c.max
           P == {b \in 0..max : \E k \in Nat : Rank(c, b) = k * 2^(max - b)}
<1>1. max \in Nat
  BY DEF IsCode
<1>2. /\ \A b \in 0..max : Rank(c, b) \in Nat
      /\ \A b \in 1..max : /\ Cardinality(SymbolsOf(c, b)) \in Nat
                           /\ Rank(c, b - 1) = Rank(c, b) + Cardinality(SymbolsOf(c, b)) * 2^(max - b)
  BY RankNext
<1> HIDE DEF max
<1>3. 0 \in P
  <2>1. max - 0 = max /\ 2^max \in Nat /\ 0 \in 0..max
    BY <1>1, PowType
  <2>2. Rank(c, 0) = 1 * 2^(max - 0)
    <3>1. Rank(c, 0) = 2^max
      BY DEF max
    <3> DEFINE z == 2^max
    <3>2. 1 * z = z
      BY <2>1
    <3>3. QED
      BY <2>1, <3>1, <3>2
  <2>3. QED
    BY <2>1, <2>2
<1>4. ASSUME NEW b \in 0..(max - 1), b \in P PROVE b + 1 \in P
  <2>1. b \in Nat /\ b + 1 \in 1..max /\ b + 1 \in 0..max /\ (b + 1) - 1 = b /\ max - (b + 1) \in Nat
        /\ max - b = (max - (b + 1)) + 1
    BY <1>1
  <2> DEFINE w == 2^(max - (b + 1))
             n == Cardinality(SymbolsOf(c, b + 1))
             x == Rank(c, b + 1)
  <2>2. w \in Nat /\ w > 0 /\ 2^(max - b) = 2 * w
    BY <2>1, PowType, PowNext
  <2>3. PICK k \in Nat : Rank(c, b) = k * 2^(max - b)
    BY <1>4
  <2>4. n \in Nat /\ x \in Nat /\ Rank(c, b) = x + n * w
    BY <1>2, <2>1
  <2> HIDE DEF w, n
  <2>5. x = (2 * k - n) * w
    <3>1. k * (2 * w) = (2 * k) * w
      BY <2>2
    <3>2. (2 * k - n) * w = (2 * k) * w - n * w
      BY <2>2, <2>4
    <3>3. (2 * k) * w \in Nat /\ n * w \in Nat /\ x + n * w = (2 * k) * w
      BY <2>2, <2>3, <2>4, <3>1
    <3> HIDE DEF x
    <3>4. QED
      BY <2>4, <3>2, <3>3
  <2>6. 2 * k - n \in Nat
    <3>1. SUFFICES ASSUME 2 * k - n < 0 PROVE FALSE
      BY <2>4
    <3>2. 2 * k - n \in Int /\ n - 2 * k \in Nat /\ n - 2 * k > 0
      BY <2>4, <3>1
    <3>3. (n - 2 * k) * w > 0
      BY <2>2, <3>2
    <3>4. (2 * k - n) * w = -((n - 2 * k) * w)
      BY <2>2, <2>4
    <3>5. (n - 2 * k) * w \in Int
      BY <2>2, <3>2
    <3> DEFINE u == (2 * k - n) * w
               v == (n - 2 * k) * w
    <3>6. x \in Nat /\ x = u /\ u = -v /\ v > 0 /\ v \in Int
      BY <2>4, <2>5, <3>3, <3>4, <3>5
    <3> HIDE DEF x, u, v
    <3>7. QED
      BY <3>6
  <2>7. \E m \in Nat : x = m * w
    BY <2>5, <2>6
  <2>8. QED
    BY <2>1, <2>7 DEF w
<1>5. \A b \in 0..max : b \in P
  <2> HIDE DEF P
  <2>1. \A b \in 0..(max - 1) : b \in P => b + 1 \in P
    BY <1>4
  <2>2. QED
    BY <1>1, <1>3, <2>1, UpTo
<1>6. QED
  BY <1>5 DEF max

\* Of the widths that have codes the smaller begin further on.
LEMMA RankFalls ==
    ASSUME NEW c, IsCode(c), NEW a \in 0..c.max, NEW b \in 0..c.max, a <= b
    PROVE  Rank(c, b) <= Rank(c, a)
<1> DEFINE max == c.max
           P == {k \in 0..(b - a) : Rank(c, a + k) <= Rank(c, a)}
<1>1. max \in Nat /\ a \in Nat /\ b \in Nat /\ b <= max
  BY DEF IsCode
<1>2. /\ \A x \in 0..max : Rank(c, x) \in Nat
      /\ \A x \in 1..max : /\ Cardinality(SymbolsOf(c, x)) \in Nat
                           /\ Rank(c, x - 1) = Rank(c, x) + Cardinality(SymbolsOf(c, x)) * 2^(max - x)
  BY RankNext
<1> HIDE DEF max
<1>3. 0 \in P
  <2>1. a + 0 = a /\ 0 \in 0..(b - a) /\ a \in 0..max
    BY <1>1
  <2>2. Rank(c, a) <= Rank(c, a)
    BY <1>2, <2>1
  <2>3. QED
    BY <2>1, <2>2
<1>4. ASSUME NEW k \in 0..((b - a) - 1), k \in P PROVE k + 1 \in P
  <2>1. /\ k + 1 \in 0..(b - a) /\ a + (k + 1) \in 1..max /\ a + (k + 1) \in 0..max /\ a + k \in 0..max
        /\ (a + (k + 1)) - 1 = a + k /\ max - (a + (k + 1)) \in Nat /\ a \in 0..max
    BY <1>1
  <2> DEFINE n == Cardinality(SymbolsOf(c, a + (k + 1)))
             w == 2^(max - (a + (k + 1)))
             x == Rank(c, a + (k + 1))
             y == Rank(c, a + k)
             z == Rank(c, a)
  <2>2. n \in Nat /\ x \in Nat /\ y \in Nat /\ z \in Nat /\ y = x + n * w
    BY <1>2, <2>1
  <2>3. w \in Nat
    BY <2>1, PowType
  <2>4. y <= z
    BY <1>4
  <2>5. x <= z
    <3> HIDE DEF n, w, x, y, z
    <3>1. n * w \in Nat
      BY <2>2, <2>3
    <3>2. QED
      BY <2>2, <2>4, <3>1
  <2>6. QED
    BY <2>1, <2>5
<1>5. Rank(c, a + (b - a)) <= Rank(c, a)
  <2>1. b - a \in Nat /\ b - a \in 0..(b - a)
    BY <1>1
  <2> HIDE DEF P
  <2>2. \A k \in 0..((b - a) - 1) : k \in P => k + 1 \in P
    BY <1>4
  <2>3. \A k \in 0..(b - a) : k \in P
    BY <1>3, <2>1, <2>2, UpTo
  <2>4. b - a \in P
    BY <2>1, <2>3
  <2>5. QED
    BY <2>4 DEF P
<1>6. a + (b - a) = b
  BY <1>1
<1>7. QED
  BY <1>5, <1>6

\* How many symbols of the same width there are before one.
RankAmong(c, i) == Cardinality({j \in SymbolsOf(c, c.bits[i]) : j < i})

\* Where the entries of a symbol begin.
FirstOf(c, i) == Rank(c, c.bits[i]) + RankAmong(c, i) * 2^(c.max - c.bits[i])

\* The entries of a symbol are where its width is.
LEMMA EntriesAre ==
    ASSUME NEW c, IsCode(c), NEW i \in DOMAIN c.bits, c.bits[i] # 0
    PROVE  /\ c.bits[i] \in 1..c.max /\ RankAmong(c, i) \in 0..(Cardinality(SymbolsOf(c, c.bits[i])) - 1)
           /\ Entries(c, i) = FirstOf(c, i)..(FirstOf(c, i) + 2^(c.max - c.bits[i]) - 1)
           /\ FirstOf(c, i) \in Nat /\ Rank(c, c.bits[i]) <= FirstOf(c, i)
           /\ FirstOf(c, i) + 2^(c.max - c.bits[i]) <= Rank(c, c.bits[i] - 1)
<1> DEFINE b == c.bits[i]
           max == c.max
           C == SymbolsOf(c, b)
           q == RankAmong(c, i)
           w == 2^(max - b)
<1>1. max \in Nat /\ b \in 1..max /\ DOMAIN c.bits = 1..Len(c.bits) /\ Len(c.bits) \in Nat
  BY DEF IsCode
<1>2. /\ Rank(c, b) \in Nat /\ Rank(c, b - 1) = Rank(c, b) + Cardinality(C) * w
      /\ IsFiniteSet(C) /\ Cardinality(C) \in Nat
  <2>1. b \in 0..max
    BY <1>1
  <2>2. QED
    BY <1>1, <2>1, RankNext
<1>3. w \in Nat /\ w > 0
  <2>1. max - b \in Nat
    BY <1>1
  <2>2. QED
    BY <2>1, PowType
<1>4. C \in SUBSET Nat /\ i \in C
  BY <1>1 DEF SymbolsOf
<1>5. q \in 0..(Cardinality(C) - 1)
  <2>1. q = Cardinality({x \in C : x < i})
    BY DEF RankAmong
  <2> HIDE DEF C, q
  <2>2. QED
    BY <1>2, <1>4, <2>1, RankOnto
<1>6. {j \in 1..(i - 1) : c.bits[j] = c.bits[i]} = {j \in C : j < i}
  <2>1. i \in Nat /\ i <= Len(c.bits)
    BY <1>1
  <2>2. \A j : j \in 1..(i - 1) <=> j \in 1..Len(c.bits) /\ j < i
    BY <1>1, <2>1
  <2>3. QED
    BY <1>1, <2>2, Zenon DEF SymbolsOf, C, b
<1>7. Entries(c, i) = FirstOf(c, i)..(FirstOf(c, i) + w - 1)
  <2>1. Cardinality({j \in 1..(i - 1) : c.bits[j] = c.bits[i]}) = q
    BY <1>6, Zenon DEF RankAmong, q, C, b
  <2>2. QED
    BY <2>1, Zenon DEF Entries, FirstOf, q, w, b, max
<1> DEFINE f == FirstOf(c, i)
<1>8. f = Rank(c, b) + q * w
  BY Zenon DEF FirstOf, q, w, b, max
<1>9. f \in Nat /\ Rank(c, b) <= f /\ f + w <= Rank(c, b - 1)
  <2> DEFINE x == Rank(c, b)
             y == Rank(c, b - 1)
             n == Cardinality(C)
  <2>1. x \in Nat /\ y = x + n * w /\ n \in Nat /\ f = x + q * w
    BY <1>2, <1>8
  <2> HIDE DEF x, y, n, w, q, f
  <2>2. q \in Nat /\ q + 1 <= n
    BY <1>5, <2>1 DEF n
  <2>3. q * w \in Nat /\ q * w + w = (q + 1) * w /\ (q + 1) * w <= n * w
    <3>1. n - (q + 1) \in Nat
      BY <2>1, <2>2
    <3>2. (n - (q + 1)) * w \in Nat /\ n * w = (q + 1) * w + (n - (q + 1)) * w
      BY <1>3, <2>1, <2>2, <3>1
    <3>3. q * w \in Nat /\ q * w + w = (q + 1) * w
      BY <1>3, <2>2
    <3>4. QED
      BY <1>3, <2>2, <3>2, <3>3
  <2>4. n * w \in Nat
    BY <1>3, <2>1
  <2>5. f \in Nat /\ x <= f /\ f + w <= y
    BY <1>3, <2>1, <2>3, <2>4
  <2>6. QED
    BY <2>5 DEF x, y
<1>10. QED
  BY <1>1, <1>5, <1>7, <1>9

\* A code whose symbols have as many entries as its table.
Fills(c) == IsCode(c) /\ Rank(c, 0) = 2^c.max

\* Every entry is that of a symbol.
LEMMA Owned ==
    ASSUME NEW c, Fills(c), NEW idx \in 0..(2^c.max - 1)
    PROVE  \E i \in DOMAIN c.bits : idx \in Entries(c, i)
<1> DEFINE max == c.max
           T == {b \in 0..max : Rank(c, b) <= idx}
<1>1. /\ max \in Nat /\ IsCode(c) /\ Rank(c, 0) = 2^max /\ 2^max \in Nat
      /\ DOMAIN c.bits = 1..Len(c.bits) /\ Len(c.bits) \in Nat
  BY PowType DEF Fills, IsCode
<1>2. /\ \A b \in 0..max : Rank(c, b) \in Nat
      /\ Rank(c, max) = 0
      /\ \A b \in 1..max : /\ IsFiniteSet(SymbolsOf(c, b)) /\ Cardinality(SymbolsOf(c, b)) \in Nat
                           /\ Rank(c, b - 1) = Rank(c, b) + Cardinality(SymbolsOf(c, b)) * 2^(max - b)
  BY <1>1, RankNext
<1>3. idx \in Nat /\ idx < 2^max
  BY <1>1
<1> HIDE DEF max
<1>4. max \in T
  BY <1>1, <1>2, <1>3
<1>5. PICK b \in T : \A x \in T : b <= x
  <2>1. T \subseteq Nat
    BY <1>1
  <2> HIDE DEF T
  <2>2. QED
    BY <1>4, <2>1, LeastNat
<1>6. b \in 1..max
  <2>1. b \in 0..max /\ Rank(c, b) <= idx
    BY <1>5
  <2>2. b # 0
    <3> DEFINE z == 2^max
    <3>1. z \in Nat /\ Rank(c, 0) = z /\ idx < z
      BY <1>1, <1>3
    <3> HIDE DEF z
    <3>2. QED
      BY <1>3, <2>1, <3>1
  <2>3. QED
    BY <1>1, <2>1, <2>2
<1> DEFINE C == SymbolsOf(c, b)
           n == Cardinality(C)
           w == 2^(max - b)
           x == Rank(c, b)
           d == idx - x
<1>7. x \in Nat /\ x <= idx /\ n \in Nat /\ IsFiniteSet(C) /\ idx < x + n * w
  <2>1. b - 1 \in 0..max /\ ~(b <= b - 1) /\ b \in 0..max
    BY <1>1, <1>6
  <2>2. b - 1 \notin T
    BY <1>5, <2>1
  <2>3. ~(Rank(c, b - 1) <= idx) /\ Rank(c, b - 1) \in Nat
    BY <1>2, <2>1, <2>2
  <2>4. idx < Rank(c, b - 1)
    BY <1>3, <2>3
  <2>5. x \in Nat /\ x <= idx
    BY <1>2, <1>5, <2>1
  <2>6. Rank(c, b - 1) = x + n * w /\ n \in Nat /\ IsFiniteSet(C)
    BY <1>2, <1>6
  <2>7. QED
    BY <2>4, <2>5, <2>6
<1>8. w \in Nat /\ w > 0
  <2>1. max - b \in Nat
    BY <1>1, <1>6
  <2>2. QED
    BY <2>1, PowType
<1>9. C \in SUBSET Nat /\ \A i \in C : i \in DOMAIN c.bits /\ c.bits[i] = b
  BY <1>1 DEF SymbolsOf
<1> HIDE DEF n, w, x, C
<1> DEFINE q == d \div w
           r == d % w
<1>10. q \in 0..(n - 1) /\ r \in 0..(w - 1) /\ idx = x + q * w + r
  <2>1. d \in Nat /\ d < n * w /\ idx = x + d
    <3> DEFINE nw == n * w
    <3>1. nw \in Nat /\ idx < x + nw
      BY <1>7, <1>8
    <3> HIDE DEF nw
    <3>2. d \in Nat /\ d < nw /\ idx = x + d
      BY <1>3, <1>7, <3>1
    <3>3. QED
      BY <3>2 DEF nw
  <2> HIDE DEF d
  <2>2. q \in Nat /\ r \in 0..(w - 1) /\ d = q * w + r
    BY <1>8, <2>1, Euclid
  <2> HIDE DEF q, r
  <2>3. q < n
    <3>1. SUFFICES ASSUME n <= q PROVE FALSE
      BY <1>7, <2>2
    <3>2. q - n \in Nat
      BY <1>7, <2>2, <3>1
    <3>3. q * w = n * w + (q - n) * w /\ (q - n) * w \in Nat /\ n * w \in Nat
      BY <1>7, <1>8, <2>2, <3>2
    <3> DEFINE qw == q * w
               nw == n * w
    <3>4. qw \in Nat /\ nw \in Nat /\ nw <= qw /\ d < nw /\ d = qw + r
      BY <2>1, <2>2, <3>3
    <3> HIDE DEF qw, nw
    <3>5. QED
      BY <1>8, <2>1, <2>2, <3>4
  <2>4. q * w \in Nat /\ idx = x + q * w + r
    <3>1. q * w \in Nat
      BY <1>8, <2>2
    <3>2. QED
      BY <1>7, <1>8, <2>1, <2>2, <3>1
  <2>5. QED
    BY <1>7, <2>2, <2>3, <2>4
<1>11. PICK i \in C : Cardinality({j \in C : j < i}) = q
  <2> DEFINE f == [i \in C |-> Cardinality({j \in C : j < i})]
  <2>1. f \in Bijection(C, 0..(n - 1))
    BY <1>7, <1>9, RankOnto DEF n
  <2>2. \A k \in 0..(n - 1) : \E i \in C : f[i] = k
    <3> HIDE DEF f
    <3>1. QED
      BY <2>1 DEF Bijection, Surjection
  <2>3. \A i \in C : f[i] = Cardinality({j \in C : j < i})
    OBVIOUS
  <2> HIDE DEF f, q
  <2>4. QED
    BY <1>10, <2>2, <2>3
<1>12. i \in DOMAIN c.bits /\ c.bits[i] = b /\ c.bits[i] # 0
  BY <1>6, <1>9
<1>13. RankAmong(c, i) = q
  BY <1>11, <1>12 DEF RankAmong, C
<1>14. FirstOf(c, i) = x + q * w
  BY <1>12, <1>13 DEF FirstOf, x, w, max
<1>15. Entries(c, i) = FirstOf(c, i)..(FirstOf(c, i) + w - 1) /\ FirstOf(c, i) \in Nat
  BY <1>1, <1>12, EntriesAre DEF w, max
<1>16. idx \in Entries(c, i)
  <2> DEFINE f == FirstOf(c, i)
  <2>1. f \in Nat /\ idx = f + r /\ r \in 0..(w - 1) /\ Entries(c, i) = f..(f + w - 1)
    BY <1>10, <1>14, <1>15
  <2> HIDE DEF f, r
  <2>2. QED
    BY <1>3, <1>8, <2>1
<1>17. QED
  BY <1>12, <1>16

\* And of one only.
LEMMA OwnedOnce ==
    ASSUME NEW c, Fills(c), NEW idx, NEW i \in DOMAIN c.bits, NEW j \in DOMAIN c.bits,
           idx \in Entries(c, i), idx \in Entries(c, j)
    PROVE  i = j
<1> DEFINE Is(x) == x \in DOMAIN c.bits /\ idx \in Entries(c, x)
           max == c.max
           w(x) == 2^(max - c.bits[x])
           f(x) == FirstOf(c, x)
<1>1. IsCode(c) /\ max \in Nat
  BY DEF Fills, IsCode
<1>2. ASSUME NEW x, Is(x)
      PROVE  /\ c.bits[x] \in 1..max /\ w(x) \in Nat /\ f(x) \in Nat /\ idx \in Nat
             /\ f(x) <= idx /\ idx < f(x) + w(x)
             /\ Rank(c, c.bits[x]) <= f(x) /\ f(x) + w(x) <= Rank(c, c.bits[x] - 1)
             /\ Rank(c, c.bits[x]) \in Nat /\ Rank(c, c.bits[x] - 1) \in Nat
  <2>1. c.bits[x] # 0
    <3>1. SUFFICES ASSUME c.bits[x] = 0 PROVE FALSE
      OBVIOUS
    <3>2. Entries(c, x) = {}
      BY <3>1, Zenon DEF Entries
    <3>3. idx \in Entries(c, x)
      BY <1>2
    <3>4. QED
      BY <3>2, <3>3
  <2>2. /\ c.bits[x] \in 1..max /\ Entries(c, x) = f(x)..(f(x) + w(x) - 1)
        /\ f(x) \in Nat /\ Rank(c, c.bits[x]) <= f(x) /\ f(x) + w(x) <= Rank(c, c.bits[x] - 1)
    BY <1>1, <1>2, <2>1, EntriesAre
  <2>3. max - c.bits[x] \in Nat /\ c.bits[x] \in 0..max /\ c.bits[x] - 1 \in 0..max
    <3>1. c.bits[x] \in 1..max
      BY <2>2
    <3> HIDE DEF max
    <3>2. QED
      BY <1>1, <3>1
  <2>4. w(x) \in Nat
    BY <2>3, PowType
  <2>5. Rank(c, c.bits[x]) \in Nat /\ Rank(c, c.bits[x] - 1) \in Nat
    BY <1>1, <2>3, RankNext
  <2>6. idx \in f(x)..(f(x) + w(x) - 1)
    BY <1>2, <2>2
  <2> HIDE DEF f, w
  <2>7. idx \in Nat /\ f(x) <= idx /\ idx < f(x) + w(x)
    BY <2>2, <2>4, <2>6
  <2>8. QED
    BY <2>2, <2>4, <2>5, <2>7
<1>3. ASSUME NEW x, NEW y, Is(x), Is(y), c.bits[x] < c.bits[y] PROVE FALSE
  <2> HIDE DEF f, w, Is, max
  <2> DEFINE a == c.bits[x]
             b == c.bits[y] - 1
  <2>1. a \in 0..max /\ b \in 0..max /\ a <= b
    BY <1>1, <1>2, <1>3
  <2>2. Rank(c, b) <= Rank(c, a)
    BY <1>1, <2>1, RankFalls DEF max
  <2>3. /\ Rank(c, a) <= f(x) /\ f(x) <= idx /\ idx < f(y) + w(y) /\ f(y) + w(y) <= Rank(c, b)
        /\ Rank(c, a) \in Nat /\ Rank(c, b) \in Nat /\ f(x) \in Nat /\ f(y) \in Nat /\ w(y) \in Nat /\ idx \in Nat
    BY <1>2, <1>3
  <2> HIDE DEF a, b
  <2>4. QED
    BY <2>2, <2>3
<1>4. Is(i) /\ Is(j)
  OBVIOUS
<1>5. c.bits[i] = c.bits[j]
  <2> HIDE DEF f, w, Is, max
  <2>1. c.bits[i] \in 1..max /\ c.bits[j] \in 1..max
    BY <1>2, <1>4
  <2>2. ~(c.bits[i] < c.bits[j]) /\ ~(c.bits[j] < c.bits[i])
    BY <1>3, <1>4
  <2>3. QED
    BY <1>1, <2>1, <2>2
<1> DEFINE b == c.bits[i]
           C == SymbolsOf(c, b)
           v == w(i)
           r(x) == RankAmong(c, x)
<1>6. v \in Nat /\ w(i) = v /\ w(j) = v /\ Rank(c, b) \in Nat
  BY <1>2, <1>4, <1>5
<1>7. f(i) = Rank(c, b) + r(i) * v /\ f(j) = Rank(c, b) + r(j) * v
  BY <1>5 DEF FirstOf
<1>8. r(i) \in Nat /\ r(j) \in Nat /\ C \in SUBSET Nat /\ IsFiniteSet(C) /\ i \in C /\ j \in C
      /\ r(i) = Cardinality({x \in C : x < i}) /\ r(j) = Cardinality({x \in C : x < j})
  <2>1. b \in 1..max
    BY <1>2, <1>4
  <2>2. IsFiniteSet(C) /\ Cardinality(C) \in Nat
    BY <1>1, <2>1, RankNext
  <2>3. C \in SUBSET Nat /\ i \in C /\ j \in C
    BY <1>1, <1>5 DEF SymbolsOf, IsCode
  <2>4. r(i) = Cardinality({x \in C : x < i}) /\ r(j) = Cardinality({x \in C : x < j})
    BY <1>5, Zenon DEF RankAmong
  <2> HIDE DEF C, r
  <2>5. r(i) \in 0..(Cardinality(C) - 1) /\ r(j) \in 0..(Cardinality(C) - 1)
    BY <2>2, <2>3, <2>4, RankOnto
  <2>6. QED
    BY <2>2, <2>3, <2>4, <2>5
<1>9. f(i) <= idx /\ idx < f(i) + v /\ f(j) <= idx /\ idx < f(j) + v /\ idx \in Nat
  BY <1>2, <1>4, <1>6
<1> HIDE DEF f, v, r, w
<1>10. r(i) = r(j)
  <2> DEFINE x == Rank(c, b)
  <2> HIDE DEF x, b
  <2>1. ASSUME NEW k \in Nat, NEW m \in Nat, k < m, x + m * v <= idx, idx < (x + k * v) + v PROVE FALSE
    <3>1. m - (k + 1) \in Nat
      BY <2>1
    <3>2. m * v = (k * v + v) + (m - (k + 1)) * v /\ (m - (k + 1)) * v \in Nat /\ k * v \in Nat
      BY <1>6, <3>1
    <3> DEFINE mv == m * v
               kv == k * v
               e == (m - (k + 1)) * v
    <3>3. mv = (kv + v) + e /\ e \in Nat /\ kv \in Nat /\ x + mv <= idx /\ idx < (x + kv) + v
      BY <2>1, <3>2
    <3> HIDE DEF mv, kv, e
    <3>4. x \in Nat
      BY <1>6 DEF x
    <3>5. QED
      BY <1>6, <1>9, <3>3, <3>4
  <2>2. f(i) = x + r(i) * v /\ f(j) = x + r(j) * v
    BY <1>7 DEF x
  <2>3. ~(r(i) < r(j)) /\ ~(r(j) < r(i))
    BY <1>8, <1>9, <2>1, <2>2
  <2>4. QED
    BY <1>8, <2>3
<1>11. QED
  <2> DEFINE g == [x \in C |-> Cardinality({y \in C : y < x})]
  <2>1. g \in Bijection(C, 0..(Cardinality(C) - 1))
    <3> HIDE DEF C
    <3>1. QED
      BY <1>8, RankOnto
  <2>2. g[i] = g[j]
    BY <1>8, <1>10
  <2> HIDE DEF g, C
  <2>3. QED
    BY <1>8, <2>1, <2>2 DEF Bijection, Injection, IsInjective

\* One of the terms of the sum.
LEMMA KraftTerm ==
    ASSUME NEW ws \in Seq(Nat), NEW i \in DOMAIN ws, ws[i] > 0
    PROVE  Kraft(ws) \in Nat /\ 2^(ws[i] - 1) <= Kraft(ws)
<1> DEFINE n == Len(ws)
           h == [k \in DOMAIN ws |-> IF ws[k] > 0 THEN 2^(ws[k] - 1) ELSE 0]
<1>1. n \in Nat /\ DOMAIN ws = 1..n /\ DOMAIN h = 1..n /\ \A k \in 1..n : ws[k] \in Nat
  OBVIOUS
<1>2. ASSUME NEW k \in 1..n PROVE h[k] \in Nat
  <2>1. h[k] = IF ws[k] > 0 THEN 2^(ws[k] - 1) ELSE 0
    BY <1>1
  <2>2. CASE ws[k] > 0
    <3>1. ws[k] - 1 \in Nat
      BY <1>1, <2>2
    <3>2. QED
      BY <2>1, <2>2, <3>1, PowType
  <2>3. CASE ~(ws[k] > 0)
    BY <2>1, <2>3
  <2>4. QED
    BY <2>2, <2>3
<1>3. h[i] = 2^(ws[i] - 1) /\ i \in 1..n
  BY <1>1
<1>4. Kraft(ws) = SumFunctionOnSet(h, 1..n)
  <2>1. Kraft(ws) = SumFunction(h)
    BY Zenon DEF Kraft
  <2> HIDE DEF h
  <2>2. QED
    BY <1>1, <2>1 DEF SumFunction
<1> HIDE DEF h
<1> DEFINE T == 1..n
<1>5. IsFiniteSet(T) /\ (\A k \in T : h[k] \in Nat) /\ i \in T
  BY <1>1, <1>2, <1>3, CardUpTo
<1> HIDE DEF T
<1>6. SumFunctionOnSet(h, T) = h[i] + SumFunctionOnSet(h, T \ {i})
  BY <1>5, SumRemove
<1>7. SumFunctionOnSet(h, T) \in Nat
  BY <1>5, SumType
<1>8. SumFunctionOnSet(h, T \ {i}) \in Nat
  <2>1. IsFiniteSet(T \ {i}) /\ \A k \in T \ {i} : h[k] \in Nat
    BY <1>5, FS_RemoveElement
  <2>2. QED
    BY <2>1, SumType
<1>9. h[i] \in Nat
  BY <1>5
<1> DEFINE a == SumFunctionOnSet(h, T)
           b == SumFunctionOnSet(h, T \ {i})
<1>10. a = h[i] + b /\ a \in Nat /\ b \in Nat
  BY <1>6, <1>7, <1>8
<1> HIDE DEF a, b
<1>11. h[i] <= a
  BY <1>9, <1>10
<1>12. QED
  BY <1>3, <1>4, <1>10, <1>11 DEF a, T

\* The bits of a code: none of a symbol that has no weight, at least one of the
\* others, the last among them, and at most as many as the widest.
LEMMA CodeIs ==
    ASSUME NEW ws \in Seq(Nat), NEW c \in CodeBits(ws)
    PROVE  IsCode(c) /\ c.max <= MaxMaxNumBits /\ Kraft(ws) \in Nat
<1> DEFINE max == HighestBitSet(Kraft(ws))
           bits(w) == IF w > 0 THEN max + 1 - w ELSE 0
           front == [i \in DOMAIN ws |-> bits(ws[i])]
<1>1. PICK left \in PowersOfTwo :
         /\ c = [max |-> max, bits |-> front \o <<bits(LastWeight(left))>>]
         /\ Kraft(ws) > 0 /\ max <= MaxMaxNumBits /\ left = 2^max - Kraft(ws)
  BY Zenon DEF CodeBits
<1>2. c.max = max /\ c.bits = front \o <<bits(LastWeight(left))>>
  <2> HIDE DEF max, front, bits
  <2>1. QED
    BY <1>1
<1>3. Kraft(ws) \in Nat
  <2> DEFINE n == Len(ws)
             h == [k \in DOMAIN ws |-> IF ws[k] > 0 THEN 2^(ws[k] - 1) ELSE 0]
  <2>1. n \in Nat /\ DOMAIN ws = 1..n /\ DOMAIN h = 1..n /\ \A k \in 1..n : ws[k] \in Nat
    OBVIOUS
  <2>2. CASE \E i \in DOMAIN ws : ws[i] > 0
    BY <2>2, KraftTerm
  <2>3. CASE \A i \in DOMAIN ws : ~(ws[i] > 0)
    <3>1. \A k \in 1..n : h[k] \in Nat
      BY <2>1, <2>3
    <3>2. Kraft(ws) = SumFunction(h)
      BY Zenon DEF Kraft
    <3>3. IsFiniteSet(1..n)
      BY <2>1, CardUpTo
    <3> HIDE DEF h
    <3>4. QED
      BY <2>1, <3>1, <3>2, <3>3, SumType DEF SumFunction
  <2>4. QED
    BY <2>2, <2>3
<1>4. /\ max \in Nat /\ max > 0 /\ Kraft(ws) < 2^max /\ 2^(max - 1) <= Kraft(ws)
  BY <1>1, <1>3, HighestBit
<1> HIDE DEF max
<1>5. ASSUME NEW i \in DOMAIN ws PROVE bits(ws[i]) \in 0..max
  <2>1. ws[i] \in Nat
    OBVIOUS
  <2>2. CASE ws[i] > 0
    <3>1. 2^(ws[i] - 1) <= Kraft(ws) /\ ws[i] - 1 \in Nat
      BY <2>1, <2>2, KraftTerm
    <3> DEFINE x == 2^(ws[i] - 1)
               y == 2^max
    <3>2. x \in Nat /\ y \in Nat /\ x <= Kraft(ws) /\ Kraft(ws) < y
      BY <1>4, <3>1, PowType
    <3> HIDE DEF x, y
    <3>3. x < y
      BY <1>3, <3>2
    <3>4. ws[i] - 1 < max
      BY <1>4, <3>1, <3>3, PowBack DEF x, y
    <3>5. QED
      BY <1>4, <2>1, <2>2, <3>4
  <2>3. CASE ~(ws[i] > 0)
    BY <1>4, <2>3
  <2>4. QED
    BY <2>2, <2>3
<1>6. bits(LastWeight(left)) \in 0..max
  <2>1. PICK j \in Nat : left = 2^j
    BY HuffmanConstants DEF PowersOfTwo
  <2>2. LastWeight(left) = j + 1
    BY <2>1, HighestOfPow DEF LastWeight
  <2>3. j <= max - 1
    <3> DEFINE x == 2^j
               y == 2^(max - 1)
    <3>1. max - 1 \in Nat /\ (max - 1) + 1 = max
      BY <1>4
    <3>2. 2^max = 2 * y /\ y \in Nat /\ x \in Nat
      BY <2>1, <3>1, PowNext, PowType
    <3>3. x = 2^max - Kraft(ws) /\ y <= Kraft(ws)
      BY <1>1, <1>4, <2>1
    <3> HIDE DEF x, y
    <3>4. x <= y
      BY <1>3, <3>2, <3>3
    <3>5. QED
      BY <3>1, <3>4, PowBack DEF x, y
  <2>4. QED
    BY <1>4, <2>1, <2>2, <2>3
<1>7. c.bits \in Seq(0..max)
  <2>1. front \in Seq(0..max)
    <3>1. DOMAIN ws = 1..Len(ws) /\ Len(ws) \in Nat
      OBVIOUS
    <3>2. \A i \in DOMAIN ws : bits(ws[i]) \in 0..max
      BY <1>5
    <3> HIDE DEF bits
    <3>3. QED
      BY <3>1, <3>2
  <2>2. <<bits(LastWeight(left))>> \in Seq(0..max)
    BY <1>6
  <2> HIDE DEF front, bits
  <2>3. QED
    BY <1>2, <2>1, <2>2
<1>8. QED
  BY <1>1, <1>2, <1>3, <1>4, <1>7 DEF IsCode

\* What a table holds: at the entries of a symbol the symbol, and its width.
LEMMA TableHolds ==
    ASSUME NEW ws \in Seq(Nat), NEW t \in HuffmanTables(ws)
    PROVE  \E c \in CodeBits(ws) :
              /\ Rank(c, 0) = 2^c.max /\ t.max = c.max /\ DOMAIN t.decode = 0..(2^c.max - 1)
              /\ \A idx \in 0..(2^c.max - 1) : \A i \in DOMAIN c.bits :
                    (idx \in Entries(c, i) /\ \A j \in DOMAIN c.bits : idx \in Entries(c, j) => j = i) =>
                       t.decode[idx].symbol = (i - 1) % 256 /\ t.decode[idx].num_bits = c.bits[i]
<1> DEFINE own(c) == [i \in DOMAIN c.bits |-> Entries(c, i)]
           owners(c, idx) == {i \in DOMAIN own(c) : idx \in own(c)[i]}
           entry(c, i) == [symbol |-> (i - 1) % 256, num_bits |-> c.bits[i]]
           at(c, idx) == IF owners(c, idx) = {} THEN [symbol |-> 0, num_bits |-> 0]
                         ELSE entry(c, CHOOSE i \in owners(c, idx) : \A j \in owners(c, idx) : j <= i)
<1>1. PICK c \in CodeBits(ws) :
         /\ Rank(c, 0) = 2^c.max
         /\ t = [max |-> c.max, decode |-> [idx \in 0..(2^c.max - 1) |-> at(c, idx)]]
  BY Zenon DEF HuffmanTables
<1>2. t.max = c.max /\ t.decode = [idx \in 0..(2^c.max - 1) |-> at(c, idx)]
  <2> HIDE DEF at
  <2>1. QED
    BY <1>1
<1>3. \A idx : owners(c, idx) = {i \in DOMAIN c.bits : idx \in Entries(c, i)}
  OBVIOUS
<1> HIDE DEF owners
<1>4. ASSUME NEW idx \in 0..(2^c.max - 1), NEW i \in DOMAIN c.bits, idx \in Entries(c, i), i \in Nat,
             \A j \in DOMAIN c.bits : idx \in Entries(c, j) => j = i
      PROVE  t.decode[idx].symbol = (i - 1) % 256 /\ t.decode[idx].num_bits = c.bits[i]
  <2>1. owners(c, idx) = {i}
    BY <1>3, <1>4
  <2>2. (CHOOSE x \in owners(c, idx) : \A j \in owners(c, idx) : j <= x) = i
    BY <1>4, <2>1
  <2>3. at(c, idx) = entry(c, i)
    <3> HIDE DEF entry
    <3>1. owners(c, idx) # {}
      BY <2>1
    <3>2. QED
      BY <2>2, <3>1, Zenon
  <2>4. t.decode[idx] = entry(c, i)
    <3> HIDE DEF at, entry
    <3>1. QED
      BY <1>2, <2>3
  <2>5. QED
    BY <2>4
<1>5. \A i \in DOMAIN c.bits : i \in Nat
  BY CodeIs DEF IsCode
<1>6. QED
  BY <1>1, <1>2, <1>4, <1>5, ZenonT(60)

\* The lowest eight bits of a number.
LEMMA LowByte == ASSUME NEW n \in Nat PROVE n % 256 \in 0..255
OBVIOUS

\* Every code of a Huffman table decodes, by its first bits alone.
LEMMA TableDecodes ==
    ASSUME NEW ws \in Seq(Nat), NEW t \in HuffmanTables(ws)
    PROVE  /\ t.max \in 0..MaxMaxNumBits /\ t.max \in Nat /\ DOMAIN t.decode = 0..(2^t.max - 1)
           /\ \A a \in 0..(2^t.max - 1) :
                 /\ t.decode[a].num_bits \in 1..t.max /\ t.decode[a].symbol \in 0..255
                 /\ LET wide == 2^(t.max - t.decode[a].num_bits)
                        first == (a \div wide) * wide
                    IN  \A b \in first..(first + wide - 1) :
                          /\ b \in 0..(2^t.max - 1) /\ t.decode[b].symbol = t.decode[a].symbol
                          /\ t.decode[b].num_bits = t.decode[a].num_bits
<1> DEFINE max == t.max
<1>1. PICK c \in CodeBits(ws) :
              /\ Rank(c, 0) = 2^c.max /\ max = c.max /\ DOMAIN t.decode = 0..(2^c.max - 1)
              /\ \A idx \in 0..(2^c.max - 1) : \A i \in DOMAIN c.bits :
                    (idx \in Entries(c, i) /\ \A j \in DOMAIN c.bits : idx \in Entries(c, j) => j = i) =>
                       t.decode[idx].symbol = (i - 1) % 256 /\ t.decode[idx].num_bits = c.bits[i]
  BY TableHolds
<1>2. IsCode(c) /\ Fills(c) /\ max \in Nat /\ max <= MaxMaxNumBits /\ 2^max \in Nat
  BY <1>1, CodeIs, PowType DEF Fills, IsCode
<1> HIDE DEF max
<1>3. ASSUME NEW idx \in 0..(2^max - 1), NEW i \in DOMAIN c.bits, idx \in Entries(c, i)
      PROVE  t.decode[idx].symbol = (i - 1) % 256 /\ t.decode[idx].num_bits = c.bits[i]
  <2>1. \A j \in DOMAIN c.bits : idx \in Entries(c, j) => j = i
    BY <1>2, <1>3, OwnedOnce
  <2>2. idx \in 0..(2^c.max - 1)
    BY <1>1
  <2>3. QED
    BY <1>1, <1>3, <2>1, <2>2, Zenon
<1>4. ASSUME NEW a \in 0..(2^max - 1)
      PROVE  /\ t.decode[a].num_bits \in 1..max /\ t.decode[a].symbol \in 0..255
             /\ LET wide == 2^(max - t.decode[a].num_bits)
                    first == (a \div wide) * wide
                IN  \A b \in first..(first + wide - 1) :
                      /\ b \in 0..(2^max - 1) /\ t.decode[b].symbol = t.decode[a].symbol
                      /\ t.decode[b].num_bits = t.decode[a].num_bits
  <2>0. a \in 0..(2^c.max - 1)
    BY <1>1
  <2>1. PICK i \in DOMAIN c.bits : a \in Entries(c, i)
    BY <1>2, <2>0, Owned
  <2>2. t.decode[a].symbol = (i - 1) % 256 /\ t.decode[a].num_bits = c.bits[i]
    BY <1>3, <2>1
  <2>3. c.bits[i] # 0
    <3>1. SUFFICES ASSUME c.bits[i] = 0 PROVE FALSE
      OBVIOUS
    <3>2. Entries(c, i) = {}
      BY <3>1, Zenon DEF Entries
    <3>3. QED
      BY <2>1, <3>2
  <2> DEFINE n == c.bits[i]
             w == 2^(max - n)
             f == FirstOf(c, i)
  <2>4. /\ n \in 1..max /\ RankAmong(c, i) \in 0..(Cardinality(SymbolsOf(c, n)) - 1)
        /\ Entries(c, i) = f..(f + w - 1) /\ f \in Nat /\ f + w <= Rank(c, n - 1)
    BY <1>1, <1>2, <2>3, EntriesAre
  <2> HIDE DEF n, f
  <2>5. n \in 0..max /\ n - 1 \in 0..max /\ 0 \in 0..max /\ max - n \in Nat /\ 0 <= n - 1
    BY <1>2, <2>4
  <2>6. w \in Nat /\ w > 0
    BY <2>5, PowType
  <2>7. PICK k \in Nat : Rank(c, n) = k * w
    BY <1>1, <1>2, <2>5, RankDivides
  <2>8. PICK m \in Nat : f = m * w
    <3> DEFINE q == RankAmong(c, i)
    <3>1. f = Rank(c, n) + q * w
      BY <1>1 DEF FirstOf, f, n
    <3>2. q \in Nat
      <4>1. n \in 1..c.max
        BY <1>1, <2>4
      <4>2. Cardinality(SymbolsOf(c, n)) \in Nat
        BY <1>2, <4>1, RankNext
      <4> HIDE DEF q, w
      <4>3. QED
        BY <2>4, <4>2 DEF q
    <3> HIDE DEF q, w
    <3>3. k * w + q * w = (k + q) * w
      BY <2>6, <3>2
    <3>4. f = (k + q) * w /\ k + q \in Nat
      BY <2>7, <3>1, <3>2, <3>3
    <3>5. QED
      BY <3>4
  <2>9. f + w <= 2^max
    <3>1. Rank(c, n - 1) <= Rank(c, 0) /\ Rank(c, n - 1) \in Nat
      BY <1>1, <1>2, <2>5, RankFalls, RankNext
    <3> DEFINE x == Rank(c, n - 1)
               y == 2^max
    <3>2. x \in Nat /\ y \in Nat /\ x <= y /\ f + w <= x
      BY <1>1, <1>2, <2>4, <3>1
    <3> HIDE DEF w, x, y
    <3>3. f + w <= y
      BY <2>4, <2>6, <3>2
    <3>4. QED
      BY <3>3 DEF y
  <2> HIDE DEF w
  <2>10. (a \div w) * w = f
    <3>1. a \in f..(f + w - 1)
      BY <2>1, <2>4
    <3>2. a - f \in 0..(w - 1) /\ a = m * w + (a - f)
      <4> DEFINE mw == m * w
      <4>1. f = mw
        BY <2>8
      <4> HIDE DEF mw
      <4>2. a - f \in 0..(w - 1) /\ a = mw + (a - f)
        BY <2>4, <2>6, <3>1, <4>1
      <4>3. QED
        BY <4>2 DEF mw
    <3>3. a \div w = m
      <4> DEFINE e == a - f
      <4>1. e \in Nat /\ e < w /\ a = m * w + e
        <5> DEFINE mw == m * w
        <5> HIDE DEF mw
        <5>1. a = mw + (a - f) /\ a - f \in 0..(w - 1)
          BY <3>2 DEF mw
        <5>2. QED
          BY <2>6, <5>1 DEF mw
      <4> HIDE DEF e
      <4>2. (m * w + e) \div w = m
        BY <2>6, <4>1, DivMod
      <4>3. QED
        BY <4>1, <4>2, Zenon
    <3>4. QED
      BY <2>8, <3>3
  <2>11. ASSUME NEW b \in f..(f + w - 1)
         PROVE  b \in 0..(2^max - 1) /\ t.decode[b].symbol = (i - 1) % 256 /\ t.decode[b].num_bits = n
    <3>1. b \in 0..(2^max - 1)
      <4> DEFINE y == 2^max
      <4>1. y \in Nat /\ f + w <= y
        BY <1>2, <2>9
      <4> HIDE DEF y
      <4>2. b \in 0..(y - 1)
        BY <2>4, <2>6, <4>1
      <4>3. QED
        BY <4>2 DEF y
    <3>2. b \in Entries(c, i)
      BY <2>4
    <3>3. QED
      BY <1>3, <3>1, <3>2 DEF n
  <2>12. t.decode[a].num_bits = n /\ t.decode[a].symbol = (i - 1) % 256
    BY <2>2 DEF n
  <2>13. (i - 1) % 256 \in 0..255
    <3>1. i \in Nat /\ i >= 1
      <4>1. DOMAIN c.bits = 1..Len(c.bits)
        BY <1>2 DEF IsCode
      <4> DEFINE l == Len(c.bits)
      <4>2. i \in 1..l
        BY <4>1
      <4> HIDE DEF l
      <4>3. QED
        BY <4>2
    <3>2. i - 1 \in Nat
      BY <3>1
    <3> DEFINE e == i - 1
    <3>3. e \in Nat
      BY <3>2
    <3> HIDE DEF e
    <3>4. e % 256 \in 0..255
      BY <3>3, LowByte
    <3>5. QED
      BY <3>4 DEF e
  <2>14. LET wide == 2^(max - t.decode[a].num_bits)
             first == (a \div wide) * wide
         IN  \A b \in first..(first + wide - 1) :
               /\ b \in 0..(2^max - 1) /\ t.decode[b].symbol = t.decode[a].symbol
               /\ t.decode[b].num_bits = t.decode[a].num_bits
    <3>1. 2^(max - t.decode[a].num_bits) = w
      BY <2>12 DEF w
    <3>2. QED
      BY <2>10, <2>11, <2>12, <3>1
  <2>15. QED
    BY <2>4, <2>12, <2>13, <2>14
<1>5. max \in 0..MaxMaxNumBits
  BY <1>2, HuffmanConstants
<1>6. DOMAIN t.decode = 0..(2^max - 1)
  BY <1>1
<1>7. QED
  BY <1>2, <1>4, <1>5, <1>6 DEF max

-----------------------------------------------------------------------------
(* The reader, as the decoder uses it.                                     *)

\* No read of the decoder is wider than those the reader is in step through.
LEMMA ReadsFit ==
    /\ 0..MaxAccuracyLog \subseteq 0..MaxRead /\ 0..MaxMaxNumBits \subseteq 0..MaxRead
    /\ 1..8 \subseteq 0..MaxRead
PROOF
<1>1. MaxAccuracyLog \in Nat /\ MaxMaxNumBits \in Nat /\ MaxAccuracyLog <= MaxRead /\ MaxMaxNumBits <= MaxRead
  BY Word8, LiteralsConstants, HuffmanConstants DEF MaxRead
<1>2. MaxRead \in Nat /\ 8 <= MaxRead
  BY Word8 DEF MaxRead
<1>3. QED
  BY <1>1, <1>2

\* A string whose padding is skipped is read in step.
LEMMA OpenedAgrees ==
    ASSUME NEW s \in ByteStrings, NEW r \in Opened(s)
    PROVE  AheadAgrees(s, r)
PROOF
<1>1. PICK n \in 1..8 : r = Consume(s, NewReversed(s), n)
  BY DEF Opened
<1>2. n \in 0..MaxRead
  BY ReadsFit
<1>3. QED
  BY <1>1, <1>2, NewAgrees, ConsumeAgrees

\* The reader is a reader, and in step.
InStep == reader = [bits |-> reader.bits, r |-> reader.r] /\ ReaderAgrees

\* A reader of nothing is in step.
LEMMA InitReader == ASSUME Init PROVE InStep
PROOF
<1>1. <<>> \in ByteStrings
  BY DEF ByteStrings
<1>2. reader = [bits |-> <<>>, r |-> NewReversed(<<>>)]
  BY DEF Init, NoReader
<1>3. QED
  BY <1>1, <1>2, NewAgrees DEF ReaderAgrees, InStep

-----------------------------------------------------------------------------
(* Bits and bytes.                                                         *)

\* A part of a string of bits, and the number it stands for.
LEMMA PartOf ==
    ASSUME NEW d \in Seq(Bit), NEW a \in Int, NEW b \in Int, 1 <= a, b <= Len(d), a <= b + 1
    PROVE  /\ SubSeq(d, a, b) \in Seq(Bit) /\ Len(SubSeq(d, a, b)) = b + 1 - a
           /\ ValueOf(SubSeq(d, a, b)) \in Nat /\ ValueOf(SubSeq(d, a, b)) < 2^(b + 1 - a)
<1> DEFINE s == SubSeq(d, a, b)
<1>1. Len(d) \in Nat
  OBVIOUS
<1>2. \A i \in a..b : d[i] \in Bit
  <2>1. \A i \in a..b : i \in 1..Len(d)
    BY <1>1
  <2>2. QED
    BY <2>1
<1>3. s \in Seq(Bit) /\ Len(s) = IF a <= b THEN b - a + 1 ELSE 0
  BY <1>2, SubSeqProperties
<1> HIDE DEF s
<1>4. Len(s) = b + 1 - a
  <2>1. (IF a <= b THEN b - a + 1 ELSE 0) = b + 1 - a
    OBVIOUS
  <2>2. QED
    BY <1>3, <2>1
<1>5. ValueOf(s) \in Nat /\ ValueOf(s) < 2^Len(s)
  BY <1>3, ValueBelow
<1>6. QED
  BY <1>3, <1>4, <1>5 DEF s

\* Eight bits of a string are a byte.
LEMMA ByteOf ==
    ASSUME NEW d \in Seq(Bit), NEW a \in Nat, a + 8 <= Len(d)
    PROVE  ValueOf(SubSeq(d, a + 1, a + 8)) \in 0..255
<1> DEFINE v == ValueOf(SubSeq(d, a + 1, a + 8))
<1>1. (a + 8) + 1 - (a + 1) = 8 /\ Len(d) \in Nat
  OBVIOUS
<1>2. v \in Nat /\ v < 2^((a + 8) + 1 - (a + 1))
  <2>1. a + 1 \in Int /\ a + 8 \in Int /\ 1 <= a + 1 /\ a + 1 <= (a + 8) + 1
    OBVIOUS
  <2>2. QED
    BY <2>1, PartOf
<1> HIDE DEF v
<1>3. 2^8 = 256
  OBVIOUS
<1>4. v < 256
  BY <1>1, <1>2, <1>3
<1>5. v \in Nat
  BY <1>2
<1>6. v \in 0..255
  BY <1>4, <1>5
<1>7. QED
  BY <1>6 DEF v

\* What BitsAt returns.
LEMMA BitsAtType ==
    ASSUME NEW d \in Seq(Bit), NEW at \in Nat, NEW n \in Nat, NEW bits \in BitsAt(d, at, n)
    PROVE  /\ bits \in Seq(Bit) /\ Len(bits) = n /\ at + n <= Len(d)
           /\ ValueOf(bits) \in Nat /\ ValueOf(bits) < 2^n
<1>1. at + n <= Len(d) /\ bits = SubSeq(d, at + 1, at + n) /\ Len(d) \in Nat
  BY DEF BitsAt
<1>2. /\ at + 1 \in Int /\ at + n \in Int /\ 1 <= at + 1 /\ at + 1 <= (at + n) + 1
      /\ (at + n) + 1 - (at + 1) = n
  OBVIOUS
<1>3. /\ bits \in Seq(Bit) /\ Len(bits) = (at + n) + 1 - (at + 1)
      /\ ValueOf(bits) \in Nat /\ ValueOf(bits) < 2^((at + n) + 1 - (at + 1))
  BY <1>1, <1>2, PartOf
<1>4. QED
  BY <1>1, <1>2, <1>3

\* Bits that are whole bytes, and the bytes they are.
LEMMA WholeBytes ==
    ASSUME NEW bits \in Seq(Bit), NEW n \in Nat, Len(bits) = 8 * n
    PROVE  bits \in ByteStrings /\ BytesOf(bits) \in Seq(0..255)
<1>1. Len(bits) % 8 = 0 /\ Len(bits) \div 8 = n
  OBVIOUS
<1>2. bits \in ByteStrings
  BY <1>1 DEF ByteStrings
<1>3. ASSUME NEW i \in 1..n PROVE ValueOf(SubSeq(bits, 8 * i - 7, 8 * i)) \in 0..255
  <2>1. 8 * (i - 1) \in Nat /\ 8 * (i - 1) + 8 <= Len(bits) /\ 8 * i - 7 = 8 * (i - 1) + 1
        /\ 8 * i = 8 * (i - 1) + 8
    OBVIOUS
  <2>2. QED
    BY <2>1, ByteOf
<1>4. BytesOf(bits) = [i \in 1..n |-> ValueOf(SubSeq(bits, 8 * i - 7, 8 * i))]
  BY <1>1 DEF BytesOf
<1>5. QED
  BY <1>2, <1>3, <1>4

-----------------------------------------------------------------------------
(* The header of the section.                                              *)

\* The input is a string of bytes.
DataIn == data \in ByteStrings

\* The sizes of a header that is there whole are numbers.
LEMMA HeaderType ==
    ASSUME DataIn, Len(data) > 0
    PROVE  /\ Type \in 0..3 /\ SizeFormat \in 0..3
           /\ \A h \in Headers :
                 /\ h = Layout(Type, SizeFormat) /\ Type # 3 /\ h.bytes \in Nat /\ Field(h.size) \in Nat
                 /\ Type = 2 => Field(h.coded) \in Nat
<1>1. data \in Seq(Bit) /\ Len(data) \in Nat /\ Len(data) >= 8
  <2>1. data \in Seq(Bit) /\ Len(data) \in Nat /\ Len(data) % 8 = 0
    BY DEF DataIn, ByteStrings
  <2> DEFINE n == Len(data)
  <2>2. n \in Nat /\ n % 8 = 0 /\ n > 0
    BY <2>1
  <2> HIDE DEF n
  <2>3. n >= 8
    BY <2>2
  <2>4. QED
    BY <2>1, <2>3 DEF n
<1>2. Type \in 0..3 /\ SizeFormat \in 0..3
  <2>1. 2^(2 + 1 - 1) = 4 /\ 2^(4 + 1 - 3) = 4
    OBVIOUS
  <2>2. Type \in Nat /\ Type < 2^(2 + 1 - 1)
    <3>1. 1 \in Int /\ 2 \in Int /\ 1 <= 1 /\ 2 <= Len(data) /\ 1 <= 2 + 1
      BY <1>1
    <3>2. QED
      BY <1>1, <3>1, PartOf DEF Type
  <2>3. SizeFormat \in Nat /\ SizeFormat < 2^(4 + 1 - 3)
    <3>1. 3 \in Int /\ 4 \in Int /\ 1 <= 3 /\ 4 <= Len(data) /\ 3 <= 4 + 1
      BY <1>1
    <3>2. QED
      BY <1>1, <3>1, PartOf DEF SizeFormat
  <2>4. QED
    BY <2>1, <2>2, <2>3
<1>3. ASSUME NEW h \in Headers
      PROVE  /\ h = Layout(Type, SizeFormat) /\ Type # 3 /\ h.bytes \in Nat /\ Field(h.size) \in Nat
             /\ Type = 2 => Field(h.coded) \in Nat
  <2>1. h = Layout(Type, SizeFormat) /\ Type # 3 /\ 8 * h.bytes <= Len(data)
    BY DEF Headers
  <2>2. ASSUME NEW a \in Int, NEW b \in Int, 1 <= a, a <= b + 1, b <= Len(data)
        PROVE  ValueOf(SubSeq(data, a, b)) \in Nat
    BY <1>1, <2>2, PartOf
  <2>3. CASE Type \in {0, 1}
    <3>1. \/ h.bytes = 1 /\ h.size = <<4, 8>>
          \/ h.bytes = 2 /\ h.size = <<5, 16>>
          \/ h.bytes = 3 /\ h.size = <<5, 24>>
      <4>1. CASE SizeFormat \in {0, 2}
        BY <2>1, <2>3, <4>1 DEF Layout
      <4>2. CASE SizeFormat = 1
        BY <2>1, <2>3, <4>2 DEF Layout
      <4>3. CASE SizeFormat = 3
        BY <2>1, <2>3, <4>3 DEF Layout
      <4>4. QED
        BY <1>2, <4>1, <4>2, <4>3
    <3>2. Type # 2
      BY <2>3
    <3>3. h.bytes \in Nat
      BY <3>1
    <3>4. h.size[1] \in Int /\ h.size[2] \in Int /\ 1 <= h.size[1] /\ h.size[1] <= h.size[2] + 1
          /\ h.size[2] <= 8 * h.bytes
      BY <3>1
    <3>5. h.size[2] <= Len(data)
      BY <1>1, <2>1, <3>3, <3>4
    <3>6. Field(h.size) \in Nat
      BY <2>2, <3>4, <3>5 DEF Field
    <3>7. QED
      BY <2>1, <3>2, <3>3, <3>6
  <2>4. CASE Type \notin {0, 1}
    <3>1. \/ h.bytes = 3 /\ h.size = <<5, 14>> /\ h.coded = <<15, 24>>
          \/ h.bytes = 4 /\ h.size = <<5, 18>> /\ h.coded = <<19, 32>>
          \/ h.bytes = 5 /\ h.size = <<5, 22>> /\ h.coded = <<23, 40>>
      <4>1. CASE SizeFormat \in {0, 1}
        BY <2>1, <2>4, <4>1 DEF Layout
      <4>2. CASE SizeFormat = 2
        BY <2>1, <2>4, <4>2 DEF Layout
      <4>3. CASE SizeFormat = 3
        BY <2>1, <2>4, <4>3 DEF Layout
      <4>4. QED
        BY <1>2, <4>1, <4>2, <4>3
    <3>2. h.bytes \in Nat
      BY <3>1
    <3>3. h.size[1] \in Int /\ h.size[2] \in Int /\ 1 <= h.size[1] /\ h.size[1] <= h.size[2] + 1
          /\ h.size[2] <= 8 * h.bytes
      BY <3>1
    <3>4. h.coded[1] \in Int /\ h.coded[2] \in Int /\ 1 <= h.coded[1] /\ h.coded[1] <= h.coded[2] + 1
          /\ h.coded[2] <= 8 * h.bytes
      BY <3>1
    <3>5. h.size[2] <= Len(data) /\ h.coded[2] <= Len(data)
      BY <1>1, <2>1, <3>2, <3>3, <3>4, SMTT(30)
    <3>6. Field(h.size) \in Nat /\ Field(h.coded) \in Nat
      BY <2>2, <3>3, <3>4, <3>5 DEF Field
    <3>7. QED
      BY <2>1, <3>2, <3>6
  <2>5. QED
    BY <2>3, <2>4
<1>4. QED
  BY <1>2, <1>3

\* Literals that stand as they are are bytes.
LEMMA PlainType == ASSUME DataIn, NEW lits \in Plain PROVE lits \in Seq(0..255)
<1>0. data \in Seq(Bit) /\ Len(data) \in Nat
  BY DEF DataIn, ByteStrings
<1>1. CASE Len(data) = 0
  BY <1>1 DEF Plain
<1>2. CASE Len(data) # 0
  <2> DEFINE raw(h) == BitsAt(data, 8 * h.bytes, 8 * Field(h.size))
             one(h) == BitsAt(data, 8 * h.bytes, 8)
  <2>0. Len(data) > 0
    BY <1>0, <1>2
  <2>1. PICK h \in Headers :
           \/ lits \in {BytesOf(bits) : bits \in raw(h)}
           \/ lits \in {[i \in 1..Field(h.size) |-> ValueOf(bits)] : bits \in one(h)}
    <3>1. Type \in 0..3
      BY <2>0, HeaderType
    <3>2. PICK h \in Headers :
             lits \in CASE Type = 0 -> {BytesOf(bits) : bits \in raw(h)}
                        [] Type = 1 -> {[i \in 1..Field(h.size) |-> ValueOf(bits)] : bits \in one(h)}
                        [] Type = 2 /\ Field(h.coded) = 0 -> {BytesOf(bits) : bits \in raw(h)}
                        [] OTHER    -> {}
      BY <1>2 DEF Plain
    <3> HIDE DEF raw, one
    <3>3. CASE Type = 0
      BY <3>2, <3>3
    <3>4. CASE Type = 1
      BY <3>2, <3>4
    <3>5. CASE Type = 2 /\ Field(h.coded) = 0
      BY <3>2, <3>5
    <3>6. CASE ~(Type = 0) /\ ~(Type = 1) /\ ~(Type = 2 /\ Field(h.coded) = 0)
      BY <3>2, <3>6
    <3>7. QED
      BY <3>3, <3>4, <3>5, <3>6
  <2>2. h.bytes \in Nat /\ Field(h.size) \in Nat
    BY <2>0, HeaderType
  <2>3. 8 * h.bytes \in Nat /\ 8 * Field(h.size) \in Nat
    BY <2>2
  <2>4. CASE lits \in {BytesOf(bits) : bits \in raw(h)}
    <3>1. PICK bits \in raw(h) : lits = BytesOf(bits)
      BY <2>4
    <3>2. bits \in Seq(Bit) /\ Len(bits) = 8 * Field(h.size)
      BY <1>0, <2>3, BitsAtType
    <3>3. QED
      BY <2>2, <3>1, <3>2, WholeBytes
  <2>5. CASE lits \in {[i \in 1..Field(h.size) |-> ValueOf(bits)] : bits \in one(h)}
    <3>1. PICK bits \in one(h) : lits = [i \in 1..Field(h.size) |-> ValueOf(bits)]
      BY <2>5
    <3>2. bits = SubSeq(data, 8 * h.bytes + 1, 8 * h.bytes + 8) /\ 8 * h.bytes + 8 <= Len(data)
      BY DEF BitsAt
    <3> DEFINE v == ValueOf(bits)
               n == Field(h.size)
    <3>3. v \in 0..255
      BY <1>0, <2>3, <3>2, ByteOf
    <3>4. n \in Nat /\ lits = [i \in 1..n |-> v]
      BY <2>2, <3>1
    <3> HIDE DEF v, n
    <3>5. QED
      BY <3>3, <3>4
  <2>6. QED
    BY <2>1, <2>4, <2>5
<1>3. QED
  BY <1>1, <1>2

SectionShape == section \in [size : Nat, body : ByteStrings, streams : {1, 4}]

\* A section that is coded has at least a byte, and at most as many as are allowed.
LEMMA CodedType ==
    ASSUME DataIn, NEW s \in Coded
    PROVE  /\ s \in [size : Nat, body : ByteStrings, streams : {1, 4}]
           /\ Len(s.body) >= 8 /\ Len(s.body) <= 8 * MaxLiterals
<1>0. data \in Seq(Bit) /\ Len(data) \in Nat
  BY DEF DataIn, ByteStrings
<1>1. Len(data) > 0
  BY <1>0 DEF Coded
<1>2. PICK h \in Headers :
         /\ Type = 2 /\ Field(h.coded) \in 1..MaxLiterals
         /\ \E bits \in BitsAt(data, 8 * h.bytes, 8 * Field(h.coded)) :
               s = [size |-> Field(h.size), body |-> bits, streams |-> IF SizeFormat = 0 THEN 1 ELSE 4]
  <2> DEFINE made(h) == {[size |-> Field(h.size), body |-> bits, streams |-> IF SizeFormat = 0 THEN 1 ELSE 4] :
                            bits \in BitsAt(data, 8 * h.bytes, 8 * Field(h.coded))}
             good(h) == Type = 2 /\ Field(h.coded) \in 1..MaxLiterals /\ Field(h.size) <= MaxLiterals
  <2>0. Len(data) # 0
    BY <1>0, <1>1
  <2>1. s \in UNION {made(h) : h \in {h \in Headers : good(h)}}
    BY <2>0, Zenon DEF Coded
  <2>2. PICK h \in Headers : good(h) /\ s \in made(h)
    <3> HIDE DEF made, good
    <3>1. QED
      BY <2>1
  <2>3. QED
    BY <2>2
<1>10. PICK bits \in BitsAt(data, 8 * h.bytes, 8 * Field(h.coded)) :
         s = [size |-> Field(h.size), body |-> bits, streams |-> IF SizeFormat = 0 THEN 1 ELSE 4]
  BY <1>2
<1>3. h.bytes \in Nat /\ Field(h.size) \in Nat /\ Field(h.coded) \in Nat
  BY <1>1, <1>2, HeaderType
<1>4. 8 * h.bytes \in Nat /\ 8 * Field(h.coded) \in Nat
  BY <1>3
<1>5. bits \in Seq(Bit) /\ Len(bits) = 8 * Field(h.coded)
  BY <1>0, <1>4, <1>10, BitsAtType
<1>6. bits \in ByteStrings
  BY <1>3, <1>5, WholeBytes
<1>7. Len(bits) >= 8 /\ Len(bits) <= 8 * MaxLiterals
  BY <1>2, <1>3, <1>5, LiteralsConstants
<1>8. s.body = bits /\ s.size = Field(h.size) /\ s.streams \in {1, 4}
  BY <1>10
<1>9. QED
  BY <1>3, <1>10, <1>6, <1>7, <1>8

-----------------------------------------------------------------------------
(* The inductive invariant.                                                *)

\* What one phase leaves to the next, variable by variable.
PhaseInv ==
    /\ data \in ByteStrings
    /\ status \in {"running", "ok", "error"}
    /\ phase \in {"section", "tree", "probabilities", "zeros", "weights", "table", "streams", "symbols"}

\* A coded body has a byte at least, where the tree begins, and at most what is allowed.
BodyInv ==
    /\ section \in [size : Nat, body : ByteStrings, streams : {1, 4}]
    /\ Len(Body) <= 8 * MaxLiterals
    /\ phase # "section" => Len(Body) >= 8

\* The distribution is read within the body, and the table is of all of it.
FseInv ==
    /\ fse = [log |-> fse.log, probs |-> fse.probs, at |-> fse.at, decode |-> fse.decode]
    /\ fse.log \in 0..MaxAccuracyLog /\ fse.probs \in Seq(Probabilities) /\ fse.at \in Nat
    /\ phase \in {"probabilities", "zeros"} =>
          fse.at >= 12 /\ fse.log >= AccLogOffset /\ 8 * (1 + TreeHeader) <= Len(Body)
    /\ phase = "weights" => Distributes(fse.log, fse.probs) /\ fse.decode \in DecodingTable(fse.log, fse.probs)

\* The reader is in step with a string of bytes.
ReaderInv == InStep /\ reader.bits \in ByteStrings

\* No state is one that its table does not have.
StatesInv ==
    /\ phase = "weights" => Len(states) = 2 /\ states \in Seq(DOMAIN fse.decode)
    /\ phase = "symbols" => Len(states) = 1 /\ states \in Seq(DOMAIN tree.decode)

\* The weights are checked against their bound after every second one.
WeightsInv ==
    /\ weights \in Seq(0..MaxSymbol) /\ Len(weights) <= MaxWeights + 2
    /\ phase \in {"section", "tree", "probabilities", "zeros"} => weights = <<>>
    /\ phase = "weights" /\ status = "running" => Len(weights) <= MaxWeights

\* The Huffman table is one of those the weights give.
TreeInv ==
    /\ tree = [used |-> tree.used, max |-> tree.max, decode |-> tree.decode]
    /\ tree.used \in Nat /\ tree.max \in 0..MaxMaxNumBits
    /\ phase \in {"streams", "symbols"} =>
          \E t \in HuffmanTables(weights) : tree.max = t.max /\ tree.decode = t.decode

\* The bits of the streams that are not begun.
Unread(ss) == SumFunction([k \in DOMAIN ss |-> Len(ss[k])])

\* Each byte has bits of its own: those that are read are not given back, and those of
\* the streams to come are not touched yet.
OutInv ==
    /\ streams \in Seq(ByteStrings) /\ out \in Seq(0..255)
    /\ phase \in {"tree", "probabilities", "zeros", "weights", "table"} => out = <<>>
    /\ phase = "section" /\ status = "running" => out = <<>>
    /\ phase \in {"streams", "symbols"} => Len(out) + Unread(streams) <= Len(Body)
    /\ phase = "symbols" => Len(out) + BitsRemaining(reader.r) + tree.max + Unread(streams) <= Len(Body)

\* What every reachable state satisfies.
IInv == PhaseInv /\ BodyInv /\ FseInv /\ ReaderInv /\ StatesInv /\ WeightsInv /\ TreeInv /\ OutInv

-----------------------------------------------------------------------------
(* It holds at the start.                                                  *)

\* As many whole bytes as there are, of two strings of bits.
LEMMA CutType ==
    ASSUME NEW d \in Seq(Bit), NEW e \in Seq(Bit), NEW k \in 0..((Len(d) + Len(e)) \div 8)
    PROVE  SubSeq(d \o e, 1, 8 * k) \in ByteStrings
<1> DEFINE all == d \o e
           n == Len(all)
<1>1. all \in Seq(Bit) /\ n = Len(d) + Len(e) /\ n \in Nat
  OBVIOUS
<1>2. k \in 0..(n \div 8)
  BY <1>1
<1>3. SUFFICES SubSeq(all, 1, 8 * k) \in ByteStrings
  OBVIOUS
<1> HIDE DEF all, n
<1>4. k \in Nat /\ 8 * k \in Int /\ 8 * k <= n
  BY <1>1, <1>2
<1>5. 1 \in Int /\ 1 <= 1 /\ 1 <= 8 * k + 1 /\ 8 * k + 1 - 1 = 8 * k
  BY <1>4
<1>6. 8 * k <= Len(all)
  BY <1>4 DEF n
<1>7. SubSeq(all, 1, 8 * k) \in Seq(Bit) /\ Len(SubSeq(all, 1, 8 * k)) = 8 * k + 1 - 1
  BY <1>1, <1>4, <1>5, <1>6, PartOf
<1>8. QED
  BY <1>4, <1>5, <1>7, WholeBytes

\* What is there of a section and of what is behind it are bytes.
LEMMA InitData == ASSUME Init PROVE data \in ByteStrings
<1>1. CASE \E s \in Sources : \E k \in 0..((Len(s.section) + Len(s.rest)) \div 8) :
              data = SubSeq(s.section \o s.rest, 1, 8 * k)
  <2>1. PICK s \in Sources : \E k \in 0..((Len(s.section) + Len(s.rest)) \div 8) :
              data = SubSeq(s.section \o s.rest, 1, 8 * k)
    BY <1>1
  <2>2. s.section \in Seq(Bit) /\ s.rest \in Seq(Bit)
    BY LiteralsConstants DEF ByteStrings
  <2>3. \A k \in 0..((Len(s.section) + Len(s.rest)) \div 8) : SubSeq(s.section \o s.rest, 1, 8 * k) \in ByteStrings
    BY <2>2, CutType, Zenon
  <2>4. QED
    BY <2>1, <2>3, Zenon
<1>2. CASE data \in Arbitrary
  BY <1>2, LiteralsConstants
<1>3. QED
  BY <1>1, <1>2 DEF Init

\* Without streams nothing is unread.
LEMMA NothingUnread == Unread(<<>>) = 0
<1>1. DOMAIN <<>> = {}
  OBVIOUS
<1>2. DOMAIN [k \in {} |-> Len((<<>>)[k])] = {}
  OBVIOUS
<1>3. QED
  BY <1>1, <1>2, SumSeqEmpty DEF Unread

\* No bits are whole bytes.
LEMMA EmptyBytes == <<>> \in ByteStrings
  BY DEF ByteStrings

\* Nothing is read or decoded at the start.
LEMMA InitInv == ASSUME Init PROVE IInv
<1>1. /\ status = "running" /\ phase = "section" /\ section = NoSection /\ fse = NoFse
      /\ reader = NoReader /\ states = <<>> /\ weights = <<>> /\ tree = NoTree /\ streams = <<>> /\ out = <<>>
  BY DEF Init
<1>2. PhaseInv
  BY <1>1, InitData DEF PhaseInv
<1>3. BodyInv
  BY <1>1, EmptyBytes, LiteralsConstants DEF BodyInv, NoSection, Body
<1>4. FseInv
  BY <1>1, LiteralsConstants DEF FseInv, NoFse
<1>5. ReaderInv
  <2>1. reader.bits = <<>>
    BY <1>1 DEF NoReader
  <2>2. QED
    BY <2>1, InitReader, EmptyBytes DEF ReaderInv
<1>6. StatesInv
  BY <1>1 DEF StatesInv
<1>7. WeightsInv
  BY <1>1, LiteralsConstants DEF WeightsInv
<1>8. TreeInv
  BY <1>1, HuffmanConstants DEF TreeInv, NoTree
<1>9. OutInv
  BY <1>1 DEF OutInv
<1>10. QED
  BY <1>2, <1>3, <1>4, <1>5, <1>6, <1>7, <1>8, <1>9 DEF IInv

-----------------------------------------------------------------------------
(* Every step keeps it, part by part.                                      *)

\* No step leaves the phases.
LEMMA PhaseNext == ASSUME PhaseInv, [Next]_vars PROVE PhaseInv'
<1>1. CASE UNCHANGED vars
  BY <1>1 DEF vars, PhaseInv
<1>2. CASE Next
  <2>1. data' = data
    BY <1>2 DEF Next, PlainLiterals, CodedLiterals, DirectTreeHeader, FseTreeHeader, Probability, RunOfZeros,
                BuildFseTable, Weight, BuildTable, EmptyStream, OpenStream, Symbol, EndOfStream, EndOfSection,
                Refuse, Returned, vars
  <2>2. CASE PlainLiterals \/ CodedLiterals \/ EmptyStream \/ EndOfSection \/ Refuse \/ Returned
    BY <2>1, <2>2 DEF PhaseInv, PlainLiterals, CodedLiterals, EmptyStream, EndOfSection, Refuse, Returned, vars
  <2>3. CASE DirectTreeHeader \/ FseTreeHeader \/ BuildFseTable \/ BuildTable \/ OpenStream \/ Symbol \/ EndOfStream
    BY <2>1, <2>3 DEF PhaseInv, DirectTreeHeader, FseTreeHeader, BuildFseTable, BuildTable, OpenStream, Symbol,
                      EndOfStream
  <2>4. CASE Probability \/ RunOfZeros
    BY <2>1, <2>4 DEF PhaseInv, Probability, RunOfZeros
  <2>5. CASE Weight
    BY <2>1, <2>5, SMTT(30) DEF PhaseInv, Weight
  <2>6. QED
    BY <1>2, <2>2, <2>3, <2>4, <2>5, SMTT(30) DEF Next
<1>3. QED
  BY <1>1, <1>2

\* The body is cut out once and stays.
LEMMA BodyNext == ASSUME PhaseInv, BodyInv, [Next]_vars PROVE BodyInv'
<1>1. CASE CodedLiterals
  <2>1. section' \in Coded
    BY <1>1 DEF CodedLiterals
  <2>2. DataIn
    BY DEF DataIn, PhaseInv
  <2>3. /\ section' \in [size : Nat, body : ByteStrings, streams : {1, 4}]
        /\ Len(section'.body) >= 8 /\ Len(section'.body) <= 8 * MaxLiterals
    BY <2>1, <2>2, CodedType
  <2>4. QED
    BY <2>3 DEF BodyInv, Body
<1>2. CASE UNCHANGED section /\ (phase # "section" \/ UNCHANGED phase)
  BY <1>2 DEF BodyInv, Body
<1>3. QED
  BY <1>1, <1>2 DEF Next, vars, In, PlainLiterals, DirectTreeHeader, FseTreeHeader, Probability, RunOfZeros,
         BuildFseTable, Weight, BuildTable, EmptyStream, OpenStream, Symbol, EndOfStream, EndOfSection, Refuse,
         Returned

-----------------------------------------------------------------------------
(* The weights.                                                            *)

\* The first byte of a body is a byte.
LEMMA TreeHeaderType == ASSUME BodyInv, phase # "section" PROVE TreeHeader \in 0..255 /\ Body \in ByteStrings
<1>1. Body \in ByteStrings /\ Len(Body) >= 8
  BY DEF BodyInv, Body
<1>2. Body \in Seq(Bit)
  BY <1>1 DEF ByteStrings
<1>3. 0 \in Nat /\ 0 + 8 <= Len(Body) /\ 0 + 1 = 1 /\ 0 + 8 = 8
  BY <1>1
<1>4. ValueOf(SubSeq(Body, 0 + 1, 0 + 8)) \in 0..255
  BY <1>2, <1>3, ByteOf
<1>5. QED
  BY <1>1, <1>3, <1>4 DEF TreeHeader

\* A weight that is written plainly is a number of four bits.
LEMMA NibbleType ==
    ASSUME NEW bits \in Seq(Bit), NEW n \in Nat, Len(bits) = 8 * Half(n), NEW i \in 1..n
    PROVE  Nibble(bits, i) \in 0..15
<1> DEFINE at == IF i % 2 = 1 THEN 4 * (i + 1) ELSE 4 * (i - 1)
           v == ValueOf(SubSeq(bits, at - 3, at))
<1>1. at \in Nat /\ at >= 4 /\ at <= 8 * Half(n)
  BY DEF Half
<1>2. v = Nibble(bits, i)
  BY DEF Nibble
<1> HIDE DEF at
<1>3. at - 3 \in Int /\ at \in Int /\ 1 <= at - 3 /\ at - 3 <= at + 1 /\ at + 1 - (at - 3) = 4 /\ at <= Len(bits)
  BY <1>1
<1>4. v \in Nat /\ v < 2^(at + 1 - (at - 3))
  BY <1>3, PartOf
<1>5. 2^4 = 16
  OBVIOUS
<1> HIDE DEF v
<1>6. v \in Nat /\ v < 16
  BY <1>3, <1>4, <1>5
<1>7. v \in 0..15
  BY <1>6
<1>8. QED
  BY <1>2, <1>7

\* Weights that are written plainly are as many as the first byte says, and one.
LEMMA DirectType ==
    ASSUME BodyInv, phase # "section", NEW ws \in DirectWeights
    PROVE  ws \in Seq(0..MaxSymbol) /\ Len(ws) <= MaxWeights + 2
<1> DEFINE n == TreeHeader - 127
<1>1. TreeHeader \in 0..255 /\ Body \in Seq(Bit)
  BY TreeHeaderType DEF ByteStrings
<1>2. TreeHeader >= 128 /\ \E bits \in BitsAt(Body, 8, 8 * Half(n)) : ws = [i \in 1..n |-> Nibble(bits, i)]
  BY DEF DirectWeights
<1>3. PICK bits \in BitsAt(Body, 8, 8 * Half(n)) : ws = [i \in 1..n |-> Nibble(bits, i)]
  BY <1>2
<1>4. n \in Nat /\ n <= 128
  BY <1>1, <1>2
<1> HIDE DEF n
<1>5. Half(n) \in Nat
  BY <1>4 DEF Half
<1>6. 8 * Half(n) \in Nat
  BY <1>5
<1>7. bits \in Seq(Bit) /\ Len(bits) = 8 * Half(n)
  BY <1>1, <1>6, BitsAtType
<1>8. \A i \in 1..n : Nibble(bits, i) \in 0..15
  BY <1>4, <1>7, NibbleType
<1>9. 0..15 \subseteq 0..MaxSymbol
  BY FseConstants
<1>10. \A i \in 1..n : Nibble(bits, i) \in 0..MaxSymbol
  BY <1>8, <1>9
<1>11. ws \in Seq(0..MaxSymbol) /\ Len(ws) = n
  BY <1>3, <1>4, <1>10
<1>12. MaxWeights \in Nat /\ MaxWeights >= 127
  BY LiteralsConstants
<1>13. QED
  BY <1>4, <1>11, <1>12

\* What the table of the weights is known to be.
LEMMA FseTable ==
    ASSUME FseInv, phase = "weights"
    PROVE  /\ fse.log \in Nat /\ fse.log <= MaxAccuracyLog /\ fse.log \in 0..MaxRead
           /\ DOMAIN fse.decode = 0..(2^fse.log - 1)
           /\ \A c \in DOMAIN fse.decode :
                 /\ fse.decode[c].symbol \in 0..MaxSymbol /\ fse.decode[c].num_bits \in 0..fse.log
                 /\ fse.decode[c].num_bits \in 0..MaxRead
                 /\ fse.decode[c].base_line \in Nat
                 /\ fse.decode[c].base_line + 2^fse.decode[c].num_bits <= 2^fse.log
<1> DEFINE log == fse.log
           t == fse.decode
<1>1. Distributes(log, fse.probs) /\ t \in DecodingTable(log, fse.probs) /\ log \in 0..MaxAccuracyLog
  BY DEF FseInv
<1>2. log \in Nat /\ log <= MaxAccuracyLog /\ log \in 0..MaxRead
  <2>1. MaxAccuracyLog \in Nat
    BY LiteralsConstants
  <2>2. QED
    BY <1>1, <2>1, ReadsFit
<1>3. /\ DOMAIN t = 0..(2^log - 1)
      /\ \A c \in 0..(2^log - 1) :
            /\ t[c].symbol \in 0..MaxSymbol /\ t[c].num_bits \in 0..log /\ t[c].base_line \in Nat
            /\ t[c].base_line + 2^t[c].num_bits <= 2^log
  BY <1>1, TableType
<1> HIDE DEF log, t
<1>4. 0..log \subseteq 0..MaxRead
  <2>1. MaxRead \in Int
    BY Word8 DEF MaxRead
  <2>2. QED
    BY <1>2, <2>1
<1>5. /\ DOMAIN t = 0..(2^log - 1)
      /\ \A c \in DOMAIN t :
            /\ t[c].symbol \in 0..MaxSymbol /\ t[c].num_bits \in 0..log /\ t[c].num_bits \in 0..MaxRead
            /\ t[c].base_line \in Nat /\ t[c].base_line + 2^t[c].num_bits <= 2^log
  BY <1>3, <1>4
<1>6. QED
  BY <1>2, <1>5 DEF log, t

\* Whose turn it is, and the entry of its state.
LEMMA TurnIs ==
    ASSUME IInv, phase = "weights"
    PROVE  LET turn == (Len(weights) % 2) + 1
           IN  /\ Len(weights) \in Nat /\ turn \in 1..2 /\ 3 - turn \in 1..2
               /\ states \in Seq(DOMAIN fse.decode) /\ Len(states) = 2
               /\ states[turn] \in DOMAIN fse.decode /\ states[3 - turn] \in DOMAIN fse.decode
<1>1. Len(weights) \in Nat
  BY DEF IInv, WeightsInv
<1> DEFINE turn == (Len(weights) % 2) + 1
<1>2. turn \in 1..2 /\ 3 - turn \in 1..2
  BY <1>1
<1>3. states \in Seq(DOMAIN fse.decode) /\ Len(states) = 2
  BY DEF IInv, StatesInv
<1> HIDE DEF turn
<1>4. states[turn] \in DOMAIN fse.decode /\ states[3 - turn] \in DOMAIN fse.decode
  <2>1. \A k \in 1..2 : states[k] \in DOMAIN fse.decode
    <3> DEFINE D == DOMAIN fse.decode
    <3>1. states \in Seq(D) /\ Len(states) = 2
      BY <1>3
    <3> HIDE DEF D
    <3>2. \A k \in 1..2 : states[k] \in D
      BY <3>1
    <3>3. QED
      BY <3>2 DEF D
  <2>2. QED
    BY <1>2, <2>1
<1>5. QED
  BY <1>1, <1>2, <1>3, <1>4 DEF turn

\* The symbol of a state is a weight, and the two checks keep the number in bounds.
LEMMA WeightWeights == ASSUME IInv, Weight PROVE WeightsInv'
<1> DEFINE turn == (Len(weights) % 2) + 1
           e == fse.decode[states[turn]]
           other == fse.decode[states[3 - turn]]
           more == Append(weights, e.symbol)
<1>1. phase = "weights" /\ status = "running"
  BY DEF Weight, In
<1>2. \/ weights' = Append(more, other.symbol) /\ phase' = "table"
      \/ weights' = more /\ status' = (IF TooMany(more) THEN "error" ELSE status) /\ phase' = phase
  BY DEF Weight
<1>3. e.symbol \in 0..MaxSymbol /\ other.symbol \in 0..MaxSymbol
  <2>1. FseInv
    BY DEF IInv
  <2>2. \A c \in DOMAIN fse.decode : fse.decode[c].symbol \in 0..MaxSymbol
    BY <1>1, <2>1, FseTable
  <2>3. states[turn] \in DOMAIN fse.decode /\ states[3 - turn] \in DOMAIN fse.decode
    BY <1>1, TurnIs
  <2> HIDE DEF turn
  <2>4. QED
    BY <2>2, <2>3
<1>4. weights \in Seq(0..MaxSymbol) /\ Len(weights) <= MaxWeights
  BY <1>1 DEF IInv, WeightsInv
<1> HIDE DEF e, other, turn
<1>5. more \in Seq(0..MaxSymbol) /\ Len(more) = Len(weights) + 1
  BY <1>3, <1>4
<1>6. MaxWeights \in Nat /\ MaxWeights % 2 = 1
  BY LiteralsConstants
<1> HIDE DEF more
<1>7. CASE weights' = Append(more, other.symbol) /\ phase' = "table"
  <2>1. weights' \in Seq(0..MaxSymbol) /\ Len(weights') = Len(weights) + 2 /\ Len(weights) \in Nat
    BY <1>3, <1>4, <1>5, <1>7
  <2>2. QED
    BY <1>4, <1>6, <1>7, <2>1 DEF WeightsInv
<1>8. CASE weights' = more /\ status' = (IF TooMany(more) THEN "error" ELSE status) /\ phase' = phase
  <2>1. Len(weights) \in Nat /\ Len(more) \in Nat
    BY <1>4, <1>5
  <2>2. status' = "running" => Len(more) <= MaxWeights
    <3>1. SUFFICES ASSUME ~TooMany(more) PROVE Len(more) <= MaxWeights
      BY <1>8
    <3>2. Len(more) % 2 # 0 \/ Len(more) <= MaxWeights
      BY <2>1, <3>1, <1>6 DEF TooMany
    <3>3. QED
      BY <1>4, <1>5, <1>6, <2>1, <3>2
  <2>3. Len(more) <= MaxWeights + 2
    BY <1>4, <1>5, <1>6, <2>1
  <2>4. phase' = "weights"
    BY <1>1, <1>8
  <2>5. QED
    BY <1>5, <1>8, <2>2, <2>3, <2>4 DEF WeightsInv
<1>9. QED
  BY <1>2, <1>7, <1>8

\* Every step keeps what is known of the weights.
LEMMA WeightsNext == ASSUME IInv, [Next]_vars PROVE WeightsInv'
<1>1. PhaseInv /\ BodyInv /\ WeightsInv
  BY DEF IInv
<1>2. CASE DirectTreeHeader
  <2>1. weights' \in DirectWeights /\ phase' = "table" /\ phase = "tree"
    BY <1>2 DEF DirectTreeHeader, In
  <2>2. weights' \in Seq(0..MaxSymbol) /\ Len(weights') <= MaxWeights + 2
    BY <1>1, <2>1, DirectType
  <2>3. QED
    BY <2>1, <2>2 DEF WeightsInv
<1>3. CASE Weight
  BY <1>3, WeightWeights
<1>4. CASE PlainLiterals \/ CodedLiterals \/ FseTreeHeader
  BY <1>1, <1>4 DEF WeightsInv, PlainLiterals, CodedLiterals, FseTreeHeader, In
<1>5. CASE Probability \/ RunOfZeros \/ BuildFseTable
  <2>1. weights' = <<>>
    BY <1>1, <1>5 DEF WeightsInv, Probability, RunOfZeros, BuildFseTable, In
  <2>2. QED
    BY <2>1, LiteralsConstants DEF WeightsInv
<1>6. CASE BuildTable \/ OpenStream \/ EndOfStream
  BY <1>1, <1>6 DEF WeightsInv, BuildTable, OpenStream, EndOfStream, In
<1>7. CASE EmptyStream \/ Symbol
  BY <1>1, <1>7 DEF WeightsInv, EmptyStream, Symbol, In
<1>8. CASE EndOfSection \/ Refuse
  BY <1>1, <1>8 DEF WeightsInv, EndOfSection, Refuse, In
<1>9. CASE Returned \/ UNCHANGED vars
  BY <1>1, <1>9 DEF WeightsInv, Returned, vars
<1>10. QED
  BY <1>2, <1>3, <1>4, <1>5, <1>6, <1>7, <1>8, <1>9 DEF Next

-----------------------------------------------------------------------------
(* The distribution of the weights.                                        *)

\* A probability takes at least a bit, and is -1 at the least.
LEMMA ProbabilityType ==
    ASSUME NEW d \in Seq(Bit), NEW at \in Nat, NEW left \in Nat, left > 0, NEW p \in ProbabilityAt(d, at, left)
    PROVE  p.prob \in Probabilities /\ p.used \in Nat /\ p.used >= 1
<1> DEFINE most == left + 1
           n == HighestBitSet(most)
           low == (2^n - 1) - most
<1>1. most \in Nat /\ most >= 2
  OBVIOUS
<1>2. n \in Nat /\ most < 2^n /\ n > 0 /\ 2^(n - 1) <= most
  <2> HIDE DEF most
  <2>1. most > 0
    BY <1>1
  <2>2. QED
    BY <1>1, <2>1, HighestBit
<1>3. PICK bits \in BitsAt(d, at, n) :
         p = IF ValueOf(bits) % 2^(n - 1) < low
             THEN [prob |-> (ValueOf(bits) % 2^(n - 1)) - 1, used |-> n - 1]
             ELSE IF ValueOf(bits) >= 2^(n - 1) THEN [prob |-> ValueOf(bits) - low - 1, used |-> n]
             ELSE [prob |-> ValueOf(bits) - 1, used |-> n]
  BY Zenon DEF ProbabilityAt
<1> DEFINE v == ValueOf(bits)
           half == 2^(n - 1)
           all == 2^n
<1> HIDE DEF n
<1>4. v \in Nat
  BY <1>2, BitsAtType
<1>5. half \in Nat /\ half > 0 /\ all = 2 * half
  <2>1. n - 1 \in Nat /\ (n - 1) + 1 = n
    BY <1>2
  <2>2. 2^(n - 1) \in Nat /\ 2^(n - 1) > 0 /\ 2^((n - 1) + 1) = 2 * 2^(n - 1)
    BY <2>1, PowType, PowNext
  <2>3. QED
    BY <2>1, <2>2
<1>6. most < all /\ half <= most
  BY <1>2
<1>7. n # 1
  <2>1. SUFFICES ASSUME n = 1 PROVE FALSE
    OBVIOUS
  <2>2. 2^1 = 2
    OBVIOUS
  <2>3. all = 2
    BY <2>1, <2>2
  <2> HIDE DEF all, most
  <2>4. QED
    BY <1>1, <1>6, <2>3
<1>8. p = IF v % half < low THEN [prob |-> (v % half) - 1, used |-> n - 1]
          ELSE IF v >= half THEN [prob |-> v - low - 1, used |-> n]
          ELSE [prob |-> v - 1, used |-> n]
  BY <1>3
<1>9. low = (all - 1) - most
  OBVIOUS
<1> HIDE DEF v, half, all, low, most
<1>10. low \in Nat /\ low <= half - 1
  BY <1>1, <1>5, <1>6, <1>9
<1>11. v % half \in Nat
  BY <1>4, <1>5
<1>12. n \in Nat /\ n >= 2
  BY <1>2, <1>7
<1>13. CASE v % half < low
  BY <1>8, <1>11, <1>12, <1>13 DEF Probabilities
<1>14. CASE ~(v % half < low) /\ v >= half
  <2>1. v - low - 1 \in Nat
    BY <1>4, <1>5, <1>10, <1>14
  <2>2. p.prob = v - low - 1 /\ p.used = n
    BY <1>8, <1>14
  <2>3. QED
    BY <1>12, <2>1, <2>2 DEF Probabilities
<1>15. CASE ~(v % half < low) /\ ~(v >= half)
  <2>1. v - 1 \in Nat \/ v - 1 = -1
    BY <1>4
  <2>2. p.prob = v - 1 /\ p.used = n
    BY <1>8, <1>15
  <2>3. QED
    BY <1>12, <2>1, <2>2 DEF Probabilities
<1>16. QED
  BY <1>13, <1>14, <1>15

\* What is left of the table, as long as it is given out.
LEMMA LeftType == ASSUME FseInv PROVE Left \in Int /\ 2^fse.log \in Nat /\ Shared(fse.probs) \in Nat
<1> DEFINE shares == [i \in DOMAIN fse.probs |-> Share(fse.probs[i])]
<1>1. fse.log \in Nat /\ fse.probs \in Seq(Probabilities)
  BY LiteralsConstants DEF FseInv
<1>2. shares \in Seq(Nat)
  <2>1. Len(fse.probs) \in Nat /\ DOMAIN fse.probs = 1..Len(fse.probs)
    BY <1>1
  <2>2. \A i \in 1..Len(fse.probs) : Share(fse.probs[i]) \in Nat
    BY <1>1 DEF Share, Probabilities
  <2>3. QED
    BY <2>1, <2>2
<1> HIDE DEF shares
<1>3. SumFunction(shares) \in Nat
  BY <1>2, SumSeqType
<1>4. 2^fse.log \in Nat
  BY <1>1, PowType
<1>5. Shared(fse.probs) = SumFunction(shares)
  BY DEF Shared, shares
<1> DEFINE a == 2^fse.log
           b == Shared(fse.probs)
<1>6. a \in Nat /\ b \in Nat
  BY <1>3, <1>4, <1>5
<1>7. Left = a - b
  BY DEF Left
<1> HIDE DEF a, b
<1>8. Left \in Int
  BY <1>6, <1>7
<1>9. QED
  BY <1>6, <1>8 DEF a, b

\* The distribution begins behind the first byte, with its accuracy.
LEMMA HeaderFse == ASSUME IInv, FseTreeHeader PROVE FseInv'
<1>1. phase = "tree" /\ phase' = "probabilities" /\ section' = section
  BY DEF FseTreeHeader, In
<1>2. PICK log \in Accuracies : fse' = [fse EXCEPT !.log = log, !.at = 12]
  BY DEF FseTreeHeader
<1>3. BodyInv /\ FseInv
  BY DEF IInv
<1>4. Body \in Seq(Bit) /\ Len(Body) \in Nat
  BY <1>1, <1>3, TreeHeaderType DEF ByteStrings
<1>5. /\ 8 * (1 + TreeHeader) <= Len(Body) /\ log \in 1..MaxAccuracyLog
      /\ \E bits \in BitsAt(Body, 8, 4) : log = AccLogOffset + ValueOf(bits)
  BY DEF Accuracies
<1>6. log >= AccLogOffset
  <2>1. PICK bits \in BitsAt(Body, 8, 4) : log = AccLogOffset + ValueOf(bits)
    BY <1>5
  <2>2. bits = SubSeq(Body, 8 + 1, 8 + 4) /\ 8 + 4 <= Len(Body)
    BY DEF BitsAt
  <2>3. 8 + 1 \in Int /\ 8 + 4 \in Int /\ 1 <= 8 + 1 /\ 8 + 1 <= (8 + 4) + 1
    OBVIOUS
  <2>4. ValueOf(bits) \in Nat
    BY <1>4, <2>2, <2>3, PartOf
  <2>5. QED
    BY <2>1, <2>4, FseConstants
<1>7. fse' = [log |-> log, probs |-> fse.probs, at |-> 12, decode |-> fse.decode]
  BY <1>2, <1>3 DEF FseInv
<1>8. log \in 0..MaxAccuracyLog /\ 12 \in Nat /\ 12 >= 12
  BY <1>5, LiteralsConstants
<1>9. TreeHeader' = TreeHeader /\ Body' = Body
  BY <1>1 DEF TreeHeader, Body
<1>10. fse.probs \in Seq(Probabilities)
  BY <1>3 DEF FseInv
<1>11. QED
  BY <1>1, <1>5, <1>6, <1>7, <1>8, <1>9, <1>10 DEF FseInv

\* A pass of either loop adds to the distribution, and reads on.
LEMMA Longer ==
    ASSUME FseInv, NEW more, NEW at \in Nat, more \in Seq(Probabilities), at >= fse.at,
           fse' = [fse EXCEPT !.probs = more, !.at = at], section' = section,
           phase \in {"probabilities", "zeros"}, phase' \in {"probabilities", "zeros"}
    PROVE  FseInv'
<1>1. fse' = [log |-> fse.log, probs |-> more, at |-> at, decode |-> fse.decode]
  BY DEF FseInv
<1>2. TreeHeader' = TreeHeader /\ Body' = Body
  BY DEF TreeHeader, Body
<1>3. fse.at \in Nat /\ fse.at >= 12 /\ fse.log >= AccLogOffset /\ 8 * (1 + TreeHeader) <= Len(Body)
      /\ fse.log \in 0..MaxAccuracyLog
  BY DEF FseInv
<1>4. at >= 12
  BY <1>3
<1>5. QED
  BY <1>1, <1>2, <1>3, <1>4 DEF FseInv

\* One more probability, and at least a bit is read.
LEMMA ProbabilityFse == ASSUME IInv, Probability PROVE FseInv' /\ fse'.at > fse.at
<1>1. phase = "probabilities" /\ section' = section /\ Left > 0
  BY DEF Probability, In
<1>2. PICK p \in ProbabilityAt(Body, fse.at, Left) :
         /\ fse' = [fse EXCEPT !.probs = Append(@, p.prob), !.at = @ + p.used]
         /\ phase' = IF p.prob = 0 THEN "zeros" ELSE phase
  BY DEF Probability
<1>3. BodyInv /\ FseInv
  BY DEF IInv
<1>4. Body \in Seq(Bit)
  BY <1>1, <1>3, TreeHeaderType DEF ByteStrings
<1>5. fse.at \in Nat /\ Left \in Nat /\ fse.probs \in Seq(Probabilities)
  BY <1>1, <1>3, LeftType DEF FseInv
<1>6. p.prob \in Probabilities /\ p.used \in Nat /\ p.used >= 1
  BY <1>1, <1>4, <1>5, ProbabilityType
<1> DEFINE more == Append(fse.probs, p.prob)
           at == fse.at + p.used
<1>7. more \in Seq(Probabilities) /\ at \in Nat /\ at >= fse.at /\ at > fse.at
  BY <1>5, <1>6
<1>8. fse' = [fse EXCEPT !.probs = more, !.at = at]
  BY <1>2
<1>9. phase \in {"probabilities", "zeros"} /\ phase' \in {"probabilities", "zeros"}
  BY <1>1, <1>2
<1> HIDE DEF more, at
<1>10. FseInv'
  BY <1>1, <1>3, <1>7, <1>8, <1>9, Longer
<1>11. fse'.at = at
  BY <1>3, <1>8 DEF FseInv
<1>12. QED
  BY <1>7, <1>10, <1>11

\* Zeroes, as many as two bits say, which are read.
LEMMA ZerosFse == ASSUME IInv, RunOfZeros PROVE FseInv' /\ fse'.at > fse.at
<1>1. phase = "zeros" /\ section' = section
  BY DEF RunOfZeros, In
<1>2. PICK bits \in BitsAt(Body, fse.at, 2) :
         /\ fse' = [fse EXCEPT !.probs = @ \o Zeros(ValueOf(bits)), !.at = @ + 2]
         /\ phase' = IF ValueOf(bits) = 3 THEN phase ELSE "probabilities"
  BY DEF RunOfZeros
<1>3. BodyInv /\ FseInv
  BY DEF IInv
<1>4. Body \in Seq(Bit)
  BY <1>1, <1>3, TreeHeaderType DEF ByteStrings
<1>5. fse.at \in Nat /\ fse.probs \in Seq(Probabilities)
  BY <1>3 DEF FseInv
<1>6. ValueOf(bits) \in Nat
  <2>1. bits = SubSeq(Body, fse.at + 1, fse.at + 2) /\ fse.at + 2 <= Len(Body)
    BY DEF BitsAt
  <2>2. fse.at + 1 \in Int /\ fse.at + 2 \in Int /\ 1 <= fse.at + 1 /\ fse.at + 1 <= (fse.at + 2) + 1
    BY <1>5
  <2>3. QED
    BY <1>4, <2>1, <2>2, PartOf
<1> DEFINE n == ValueOf(bits)
           more == fse.probs \o Zeros(n)
           at == fse.at + 2
<1>7. Zeros(n) \in Seq(Probabilities)
  <2>1. n \in Nat
    BY <1>6
  <2> HIDE DEF n
  <2>2. QED
    BY <2>1 DEF Zeros, Probabilities
<1>8. more \in Seq(Probabilities) /\ at \in Nat /\ at >= fse.at /\ at > fse.at
  BY <1>5, <1>7
<1>9. fse' = [fse EXCEPT !.probs = more, !.at = at]
  BY <1>2
<1>10. phase \in {"probabilities", "zeros"} /\ phase' \in {"probabilities", "zeros"}
  BY <1>1, <1>2
<1> HIDE DEF more, at
<1>11. FseInv'
  BY <1>1, <1>3, <1>8, <1>9, <1>10, Longer
<1>12. fse'.at = at
  BY <1>3, <1>9 DEF FseInv
<1>13. QED
  BY <1>8, <1>11, <1>12

\* The table is built when the distribution is of all of it.
LEMMA BuiltFse == ASSUME IInv, BuildFseTable PROVE FseInv'
<1>1. phase = "probabilities" /\ phase' = "weights"
  BY DEF BuildFseTable, In
<1>2. PICK d \in FseDecoders : fse' = [fse EXCEPT !.decode = d.decode]
  BY DEF BuildFseTable
<1>3. FseInv
  BY DEF IInv
<1>4. Left = 0 /\ d.decode \in DecodingTable(fse.log, fse.probs)
  BY DEF FseDecoders
<1>5. fse' = [log |-> fse.log, probs |-> fse.probs, at |-> fse.at, decode |-> d.decode]
  BY <1>2, <1>3 DEF FseInv
<1>6. fse.log \in 0..MaxAccuracyLog /\ fse.probs \in Seq(Probabilities) /\ fse.at \in Nat /\ fse.log >= AccLogOffset
  BY <1>1, <1>3 DEF FseInv
<1>7. fse.log \in Nat /\ fse.log >= 4
  BY <1>6, LiteralsConstants, FseConstants
<1>8. Shared(fse.probs) = 2^fse.log
  <2> DEFINE a == 2^fse.log
             b == Shared(fse.probs)
  <2>1. a \in Nat /\ b \in Nat
    BY <1>3, LeftType
  <2>2. a - b = 0
    BY <1>4 DEF Left
  <2> HIDE DEF a, b
  <2>3. a = b
    BY <2>1, <2>2
  <2>4. QED
    BY <2>3 DEF a, b
<1>9. Distributes(fse.log, fse.probs)
  BY <1>6, <1>7, <1>8 DEF Distributes
<1> DEFINE f == fse'
<1>10. f = [log |-> f.log, probs |-> f.probs, at |-> f.at, decode |-> f.decode]
       /\ f.log = fse.log /\ f.probs = fse.probs /\ f.at = fse.at /\ f.decode = d.decode
  BY <1>5
<1> HIDE DEF f
<1>11. /\ f.log \in 0..MaxAccuracyLog /\ f.probs \in Seq(Probabilities) /\ f.at \in Nat
       /\ Distributes(f.log, f.probs) /\ f.decode \in DecodingTable(f.log, f.probs)
  BY <1>4, <1>6, <1>9, <1>10
<1>12. QED
  BY <1>1, <1>10, <1>11 DEF FseInv, f

\* Every step keeps what is known of the distribution and its table.
LEMMA FseNext == ASSUME IInv, [Next]_vars PROVE FseInv'
<1>1. FseInv
  BY DEF IInv
<1>2. CASE FseTreeHeader
  BY <1>2, HeaderFse
<1>3. CASE Probability
  BY <1>3, ProbabilityFse
<1>4. CASE RunOfZeros
  BY <1>4, ZerosFse
<1>5. CASE BuildFseTable
  BY <1>5, BuiltFse
<1>6. CASE UNCHANGED fse /\ phase' \notin {"probabilities", "zeros", "weights"}
  BY <1>1, <1>6 DEF FseInv
<1>7. CASE UNCHANGED <<fse, section, phase>>
  BY <1>1, <1>7 DEF FseInv, TreeHeader, Body
<1>8. CASE PlainLiterals \/ CodedLiterals \/ DirectTreeHeader
  BY <1>6, <1>8 DEF PlainLiterals, CodedLiterals, DirectTreeHeader, In
<1>9. CASE BuildTable \/ OpenStream \/ EndOfStream
  BY <1>6, <1>9 DEF BuildTable, OpenStream, EndOfStream
<1>10. CASE Weight
  BY <1>6, <1>7, <1>10 DEF Weight
<1>11. CASE EmptyStream \/ Symbol \/ EndOfSection \/ Refuse \/ Returned \/ UNCHANGED vars
  BY <1>7, <1>11 DEF EmptyStream, Symbol, EndOfSection, Refuse, Returned, vars
<1>12. QED
  BY <1>2, <1>3, <1>4, <1>5, <1>8, <1>9, <1>10, <1>11 DEF Next

-----------------------------------------------------------------------------
(* The reader, and the states it reads.                                    *)

\* A number that is read is below the power of two of its bits.
LEMMA ReadBelow ==
    ASSUME NEW s \in ByteStrings, NEW r, AheadAgrees(s, r), NEW n \in 0..MaxRead
    PROVE  ValueOf(Peek(s, r, n)) \in Nat /\ ValueOf(Peek(s, r, n)) < 2^n
<1> DEFINE bits == Peek(s, r, n)
<1>1. bits \in Seq(Bit) /\ Len(bits) = n
  BY PeekReads
<1> HIDE DEF bits
<1>2. ValueOf(bits) \in Nat /\ ValueOf(bits) < 2^Len(bits)
  BY <1>1, ValueBelow
<1>3. QED
  BY <1>1, <1>2 DEF bits

\* The coded weights are whole bytes, from behind the distribution to the end
\* that the first byte gives.
LEMMA CodedWeightsType ==
    ASSUME BodyInv, FseInv, phase = "probabilities", FseBytes <= TreeHeader
    PROVE  CodedWeights \in ByteStrings
<1>1. TreeHeader \in 0..255 /\ Body \in Seq(Bit) /\ Len(Body) \in Nat
  BY TreeHeaderType DEF ByteStrings
<1>2. fse.at \in Nat /\ fse.at >= 12 /\ 8 * (1 + TreeHeader) <= Len(Body)
  BY DEF FseInv
<1> DEFINE f == FseBytes
           h == TreeHeader
           a == 8 * (1 + f) + 1
           b == 8 * (1 + h)
<1>3. f \in Nat
  BY <1>2 DEF FseBytes
<1>4. h \in Nat /\ f <= h /\ b <= Len(Body)
  BY <1>1, <1>2
<1> HIDE DEF f, h
<1>5. a \in Int /\ b \in Int /\ 1 <= a /\ a <= b + 1 /\ b + 1 - a = 8 * (h - f) /\ h - f \in Nat
  BY <1>3, <1>4
<1> HIDE DEF a, b
<1>6. SubSeq(Body, a, b) \in Seq(Bit) /\ Len(SubSeq(Body, a, b)) = b + 1 - a
  BY <1>1, <1>4, <1>5, PartOf
<1>7. SubSeq(Body, a, b) \in ByteStrings
  BY <1>5, <1>6, WholeBytes
<1>8. CodedWeights = SubSeq(Body, a, b)
  BY DEF CodedWeights, a, b, f, h
<1>9. QED
  BY <1>7, <1>8

\* The two decoders, of which each has read its first state.
LEMMA FseStates == ASSUME IInv, BuildFseTable PROVE ReaderInv' /\ StatesInv'
<1>1. phase = "probabilities" /\ phase' = "weights"
  BY DEF BuildFseTable, In
<1>2. PICK d \in FseDecoders :
         /\ fse' = [fse EXCEPT !.decode = d.decode]
         /\ reader' = [bits |-> CodedWeights, r |-> d.r]
         /\ states' = d.states
  BY DEF BuildFseTable
<1> DEFINE cw == CodedWeights
           log == fse.log
<1>3. BodyInv /\ FseInv
  BY DEF IInv
<1>4. PICK r \in Opened(cw) :
         /\ d.r = Consume(cw, Consume(cw, r, log), log)
         /\ d.states = <<ValueOf(Peek(cw, r, log)), ValueOf(Peek(cw, Consume(cw, r, log), log))>>
  BY DEF FseDecoders
<1>5. FseBytes <= TreeHeader
  BY DEF FseDecoders
<1>6. cw \in ByteStrings
  BY <1>1, <1>3, <1>5, CodedWeightsType
<1>7. log \in Nat /\ log \in 0..MaxRead
  BY <1>3, ReadsFit, LiteralsConstants DEF FseInv
<1> DEFINE r1 == Consume(cw, r, log)
           r2 == Consume(cw, r1, log)
           v1 == ValueOf(Peek(cw, r, log))
           v2 == ValueOf(Peek(cw, r1, log))
<1> HIDE DEF cw, log
<1>8. AheadAgrees(cw, r)
  BY <1>6, OpenedAgrees
<1>9. AheadAgrees(cw, r1)
  BY <1>6, <1>7, <1>8, ConsumeAgrees
<1>10. v1 \in Nat /\ v1 < 2^log
  BY <1>6, <1>7, <1>8, ReadBelow
<1> HIDE DEF r1
<1>11. AheadAgrees(cw, r2)
  BY <1>6, <1>7, <1>9, ConsumeAgrees
<1>12. v2 \in Nat /\ v2 < 2^log
  BY <1>6, <1>7, <1>9, ReadBelow
<1>13. d.r = r2 /\ d.states = <<v1, v2>>
  BY <1>4 DEF r1
<1> HIDE DEF r2, v1, v2
<1>14. ReaderInv'
  <2>1. reader' = [bits |-> cw, r |-> r2]
    BY <1>2, <1>13 DEF cw
  <2>2. QED
    BY <1>6, <1>11, <2>1 DEF ReaderInv, InStep, ReaderAgrees
<1>15. DOMAIN fse'.decode = 0..(2^log - 1)
  <2>1. FseInv'
    BY BuiltFse
  <2>2. /\ Distributes(fse'.log, fse'.probs) /\ fse'.decode \in DecodingTable(fse'.log, fse'.probs)
        /\ fse'.log = log
    <3>1. fse = [log |-> fse.log, probs |-> fse.probs, at |-> fse.at, decode |-> fse.decode]
      BY <1>3 DEF FseInv
    <3>2. fse'.log = log
      BY <1>2, <3>1 DEF log
    <3>3. QED
      BY <1>1, <2>1, <3>2 DEF FseInv
  <2>3. DOMAIN fse'.decode = 0..(2^fse'.log - 1)
    BY <2>2, TableType
  <2>4. QED
    BY <2>2, <2>3
<1>16. v1 \in DOMAIN fse'.decode /\ v2 \in DOMAIN fse'.decode
  <2>1. 2^log \in Nat
    BY <1>7, PowType
  <2>2. QED
    BY <1>10, <1>12, <1>15, <2>1
<1>17. states' = <<v1, v2>>
  BY <1>2, <1>13
<1>18. Len(states') = 2 /\ states' \in Seq(DOMAIN fse'.decode)
  <2> DEFINE D == DOMAIN fse'.decode
  <2>1. v1 \in D /\ v2 \in D
    BY <1>16
  <2> HIDE DEF D
  <2>2. <<v1, v2>> \in Seq(D) /\ Len(<<v1, v2>>) = 2
    BY <2>1, PairOf
  <2>3. QED
    BY <1>17, <2>2 DEF D
<1>19. QED
  BY <1>1, <1>14, <1>18 DEF StatesInv

\* A decoder of weights goes on to a state that its table has.
LEMMA WeightStates == ASSUME IInv, Weight PROVE ReaderInv' /\ StatesInv'
<1> DEFINE turn == (Len(weights) % 2) + 1
           e == fse.decode[states[turn]]
           D == DOMAIN fse.decode
           n == e.num_bits
           low == ValueOf(Peek(reader.bits, reader.r, n))
<1>1. phase = "weights" /\ UNCHANGED fse /\ phase' \in {"weights", "table"}
  BY DEF Weight, In
<1>2. /\ reader' = [reader EXCEPT !.r = Consume(reader.bits, reader.r, n)]
      /\ states' = [states EXCEPT ![turn] = e.base_line + low]
  BY DEF Weight
<1>3. FseInv /\ InStep /\ reader.bits \in ByteStrings
  BY DEF IInv, ReaderInv
<1>4. /\ turn \in 1..2 /\ states \in Seq(D) /\ Len(states) = 2 /\ states[turn] \in D
  BY <1>1, TurnIs
<1>5. /\ n \in 0..fse.log /\ n \in 0..MaxRead /\ e.base_line \in Nat /\ e.base_line + 2^n <= 2^fse.log
      /\ fse.log \in Nat /\ D = 0..(2^fse.log - 1)
  <2>1. \A c \in DOMAIN fse.decode :
           /\ fse.decode[c].num_bits \in 0..fse.log /\ fse.decode[c].num_bits \in 0..MaxRead
           /\ fse.decode[c].base_line \in Nat
           /\ fse.decode[c].base_line + 2^fse.decode[c].num_bits <= 2^fse.log
    BY <1>1, <1>3, FseTable
  <2>2. fse.log \in Nat /\ DOMAIN fse.decode = 0..(2^fse.log - 1)
    BY <1>1, <1>3, FseTable
  <2> HIDE DEF turn
  <2>3. QED
    BY <1>4, <2>1, <2>2
<1> HIDE DEF turn, e, n
<1>6. AheadAgrees(reader.bits, reader.r)
  BY <1>3 DEF InStep, ReaderAgrees
<1>7. low \in Nat /\ low < 2^n
  BY <1>3, <1>5, <1>6, ReadBelow
<1> HIDE DEF low
<1>8. ReaderInv'
  <2>1. reader' = [bits |-> reader.bits, r |-> Consume(reader.bits, reader.r, n)]
    BY <1>2, <1>3 DEF InStep
  <2>2. AheadAgrees(reader.bits, Consume(reader.bits, reader.r, n))
    BY <1>3, <1>5, <1>6, ConsumeAgrees
  <2>3. QED
    BY <1>3, <2>1, <2>2 DEF ReaderInv, InStep, ReaderAgrees
<1>9. e.base_line + low \in D
  <2> DEFINE a == 2^n
             b == 2^fse.log
             base == e.base_line
  <2>1. a \in Nat /\ b \in Nat /\ base \in Nat /\ base + a <= b /\ low < a /\ low \in Nat
    BY <1>5, <1>7, PowType
  <2> HIDE DEF a, b, base
  <2>2. base + low \in 0..(b - 1)
    BY <2>1
  <2>3. QED
    BY <1>5, <2>2 DEF b, base
<1> HIDE DEF D
<1>10. states' \in Seq(D) /\ Len(states') = 2
  <2>1. turn \in 1..Len(states)
    BY <1>4
  <2> DEFINE x == e.base_line + low
  <2>2. x \in D
    BY <1>9
  <2>5. states' = [states EXCEPT ![turn] = x]
    BY <1>2
  <2> HIDE DEF x
  <2> DEFINE p == states'
  <2>3. p = [states EXCEPT ![turn] = x]
    BY <2>5
  <2> HIDE DEF p
  <2>4. p \in Seq(D) /\ Len(p) = Len(states)
    BY <1>4, <2>1, <2>2, <2>3, Replaced
  <2>6. QED
    BY <1>4, <2>4 DEF p
<1>11. QED
  BY <1>1, <1>8, <1>10 DEF StatesInv, D

\* What the Huffman table is known to be.
LEMMA TreeTable ==
    ASSUME IInv, phase \in {"streams", "symbols"}
    PROVE  /\ tree.max \in Nat /\ tree.max \in 0..MaxRead /\ DOMAIN tree.decode = 0..(2^tree.max - 1)
           /\ \A a \in DOMAIN tree.decode :
                 /\ tree.decode[a].num_bits \in 1..tree.max /\ tree.decode[a].num_bits \in 0..MaxRead
                 /\ tree.decode[a].symbol \in 0..255
                 /\ LET wide == 2^(tree.max - tree.decode[a].num_bits)
                        first == (a \div wide) * wide
                    IN  \A b \in first..(first + wide - 1) :
                          /\ b \in DOMAIN tree.decode /\ tree.decode[b].symbol = tree.decode[a].symbol
                          /\ tree.decode[b].num_bits = tree.decode[a].num_bits
<1>1. PICK t \in HuffmanTables(weights) : tree.max = t.max /\ tree.decode = t.decode
  BY DEF IInv, TreeInv
<1>2. weights \in Seq(Nat)
  <2>1. weights \in Seq(0..MaxSymbol)
    BY DEF IInv, WeightsInv
  <2>2. 0..MaxSymbol \subseteq Nat
    OBVIOUS
  <2>3. QED
    BY <2>1, <2>2, SeqWithin
<1>3. /\ t.max \in 0..MaxMaxNumBits /\ t.max \in Nat /\ DOMAIN t.decode = 0..(2^t.max - 1)
      /\ \A a \in 0..(2^t.max - 1) :
            /\ t.decode[a].num_bits \in 1..t.max /\ t.decode[a].symbol \in 0..255
            /\ LET wide == 2^(t.max - t.decode[a].num_bits)
                   first == (a \div wide) * wide
               IN  \A b \in first..(first + wide - 1) :
                     /\ b \in 0..(2^t.max - 1) /\ t.decode[b].symbol = t.decode[a].symbol
                     /\ t.decode[b].num_bits = t.decode[a].num_bits
  BY <1>2, TableDecodes, ZenonT(60)
<1>4. t.max \in 0..MaxRead
  BY <1>3, ReadsFit
<1>5. 1..t.max \subseteq 0..MaxRead
  <2> DEFINE m == t.max
  <2>1. m \in 0..MaxRead
    BY <1>4
  <2>2. MaxRead \in Int
    BY Word8 DEF MaxRead
  <2> HIDE DEF m
  <2>3. 1..m \subseteq 0..MaxRead
    BY <2>1, <2>2
  <2>4. QED
    BY <2>3 DEF m
<1>6. \A a \in 0..(2^t.max - 1) : t.decode[a].num_bits \in 0..MaxRead
  BY <1>3, <1>5
<1>7. tree.max \in Nat /\ tree.max \in 0..MaxRead /\ DOMAIN tree.decode = 0..(2^tree.max - 1)
  BY <1>1, <1>3, <1>4
<1> DEFINE Good(table, max) ==
              \A a \in DOMAIN table :
                 /\ table[a].num_bits \in 1..max /\ table[a].num_bits \in 0..MaxRead /\ table[a].symbol \in 0..255
                 /\ LET wide == 2^(max - table[a].num_bits)
                        first == (a \div wide) * wide
                    IN  \A b \in first..(first + wide - 1) :
                          /\ b \in DOMAIN table /\ table[b].symbol = table[a].symbol
                          /\ table[b].num_bits = table[a].num_bits
<1>8. Good(t.decode, t.max)
  BY <1>3, <1>6, ZenonT(60)
<1> HIDE DEF Good
<1>9. Good(tree.decode, tree.max)
  BY <1>1, <1>8
<1>10. QED
  BY <1>7, <1>9, ZenonT(60) DEF Good

\* A stream is a string of bytes, and its decoder has read its first state.
LEMMA StreamStates == ASSUME IInv, OpenStream PROVE ReaderInv' /\ StatesInv'
<1> DEFINE s == Head(streams)
           max == tree.max
<1>1. phase = "streams" /\ phase' = "symbols" /\ UNCHANGED tree /\ streams # <<>>
  BY DEF OpenStream, In
<1>2. PICK r \in Opened(s) :
         /\ reader' = [bits |-> s, r |-> Consume(s, r, max)]
         /\ states' = <<ValueOf(Peek(s, r, max))>>
  BY DEF OpenStream
<1>3. s \in ByteStrings
  <2>1. streams \in Seq(ByteStrings)
    BY DEF IInv, OutInv
  <2>2. QED
    BY <1>1, <2>1
<1>4. max \in Nat /\ max \in 0..MaxRead /\ DOMAIN tree.decode = 0..(2^max - 1)
  BY <1>1, TreeTable
<1> DEFINE v == ValueOf(Peek(s, r, max))
           c == Consume(s, r, max)
<1> HIDE DEF s, max
<1>5. AheadAgrees(s, r)
  BY <1>3, OpenedAgrees
<1>6. AheadAgrees(s, c)
  BY <1>3, <1>4, <1>5, ConsumeAgrees
<1>7. v \in Nat /\ v < 2^max
  BY <1>3, <1>4, <1>5, ReadBelow
<1>8. reader' = [bits |-> s, r |-> c] /\ states' = <<v>>
  BY <1>2
<1> HIDE DEF v, c
<1>9. ReaderInv'
  BY <1>3, <1>6, <1>8 DEF ReaderInv, InStep, ReaderAgrees
<1>10. v \in DOMAIN tree.decode
  <2>1. 2^max \in Nat
    BY <1>4, PowType
  <2>2. QED
    BY <1>4, <1>7, <2>1
<1>11. Len(states') = 1 /\ states' \in Seq(DOMAIN tree'.decode)
  <2> DEFINE D == DOMAIN tree'.decode
  <2>1. v \in D
    BY <1>1, <1>10
  <2> HIDE DEF D
  <2>2. Len(states') = 1 /\ states' \in Seq(D)
    BY <1>8, <2>1
  <2>3. QED
    BY <2>2 DEF D
<1>12. QED
  BY <1>1, <1>9, <1>11 DEF StatesInv

-----------------------------------------------------------------------------
(* What the streams pay for.                                               *)

\* The lengths of strings of bytes.
LEMMA LengthsType ==
    ASSUME NEW ss \in Seq(ByteStrings)
    PROVE  [k \in DOMAIN ss |-> Len(ss[k])] \in Seq(Nat) /\ Unread(ss) \in Nat
<1>1. Len(ss) \in Nat /\ DOMAIN ss = 1..Len(ss) /\ \A k \in 1..Len(ss) : ss[k] \in ByteStrings
  OBVIOUS
<1>2. \A k \in 1..Len(ss) : Len(ss[k]) \in Nat
  BY <1>1 DEF ByteStrings
<1> DEFINE lens == [k \in DOMAIN ss |-> Len(ss[k])]
<1>3. lens \in Seq(Nat)
  BY <1>1, <1>2
<1>4. Unread(ss) = SumFunction(lens)
  BY DEF Unread
<1> HIDE DEF lens
<1>5. SumFunction(lens) \in Nat
  BY <1>3, SumSeqType
<1>6. QED
  BY <1>3, <1>4, <1>5 DEF lens

\* Of the streams that are not begun the first is the next.
LEMMA UnreadNext ==
    ASSUME NEW ss \in Seq(ByteStrings), ss # <<>>
    PROVE  /\ Head(ss) \in ByteStrings /\ Tail(ss) \in Seq(ByteStrings)
           /\ Len(Head(ss)) \in Nat /\ Unread(Tail(ss)) \in Nat
           /\ Unread(ss) = Len(Head(ss)) + Unread(Tail(ss))
<1> DEFINE h == Head(ss)
           t == Tail(ss)
           n == Len(h)
<1>1. /\ h \in ByteStrings /\ t \in Seq(ByteStrings) /\ Len(ss) \in Nat /\ Len(t) = Len(ss) - 1
      /\ Len(ss) > 0 /\ h = ss[1] /\ \A k \in 1..Len(t) : t[k] = ss[k + 1]
  OBVIOUS
<1>2. n \in Nat
  BY <1>1 DEF ByteStrings
<1> DEFINE lens == [k \in DOMAIN ss |-> Len(ss[k])]
           behind == [k \in DOMAIN t |-> Len(t[k])]
<1>3. lens \in Seq(Nat) /\ behind \in Seq(Nat) /\ Unread(t) \in Nat
  BY <1>1, LengthsType
<1>4. DOMAIN ss = 1..Len(ss) /\ DOMAIN t = 1..Len(t)
  BY <1>1
<1> HIDE DEF h, t
<1>5. lens = <<n>> \o behind
  <2>1. Len(lens) = Len(ss) /\ Len(behind) = Len(t) /\ Len(t) \in Nat
    BY <1>1, <1>4
  <2>2. lens[1] = n /\ \A k \in 1..Len(t) : lens[k + 1] = behind[k]
    <3>1. 1 \in DOMAIN ss
      BY <1>1, <1>4
    <3>2. \A k \in 1..Len(t) : k + 1 \in DOMAIN ss
      BY <1>1, <1>4
    <3>3. QED
      BY <1>1, <1>4, <3>1, <3>2
  <2> HIDE DEF lens, behind, n
  <2>3. QED
    BY <1>1, <1>2, <1>3, <2>1, <2>2
<1>6. Unread(ss) = SumFunction(lens) /\ Unread(t) = SumFunction(behind)
  BY DEF Unread
<1> HIDE DEF lens, behind, n
<1>7. SumFunction(lens) = SumFunction(<<n>>) + SumFunction(behind)
  BY <1>2, <1>3, <1>5, OneOf, SumConcat
<1>8. SumFunction(<<n>>) = n
  BY <1>2, OneOf
<1>9. Unread(ss) = n + Unread(t)
  BY <1>6, <1>7, <1>8
<1>10. QED
  BY <1>1, <1>2, <1>3, <1>9 DEF h, t, n

\* What there is to read of one stream.
LEMMA OneUnread == ASSUME NEW s \in ByteStrings PROVE <<s>> \in Seq(ByteStrings) /\ Unread(<<s>>) = Len(s)
<1>1. Len(s) \in Nat
  BY DEF ByteStrings
<1>2. [k \in DOMAIN <<s>> |-> Len((<<s>>)[k])] = <<Len(s)>>
  OBVIOUS
<1>3. Unread(<<s>>) = SumFunction(<<Len(s)>>)
  BY <1>2 DEF Unread
<1>4. QED
  BY <1>1, <1>3, OneOf

\* A string of bytes has a length.
LEMMA LengthOf == ASSUME NEW s \in ByteStrings PROVE Len(s) \in Nat
  BY DEF ByteStrings

\* What there is to read of four.
LEMMA FourUnread ==
    ASSUME NEW a \in ByteStrings, NEW b \in ByteStrings, NEW c \in ByteStrings, NEW d \in ByteStrings
    PROVE  <<a, b, c, d>> \in Seq(ByteStrings) /\ Unread(<<a, b, c, d>>) = Len(a) + Len(b) + Len(c) + Len(d)
<1>1. <<a, b, c, d>> \in Seq(ByteStrings) /\ <<b, c, d>> \in Seq(ByteStrings) /\ <<c, d>> \in Seq(ByteStrings)
  OBVIOUS
<1>2. /\ <<a, b, c, d>> # <<>> /\ Head(<<a, b, c, d>>) = a /\ Tail(<<a, b, c, d>>) = <<b, c, d>>
      /\ <<b, c, d>> # <<>> /\ Head(<<b, c, d>>) = b /\ Tail(<<b, c, d>>) = <<c, d>>
      /\ <<c, d>> # <<>> /\ Head(<<c, d>>) = c /\ Tail(<<c, d>>) = <<d>>
  OBVIOUS
<1>3. Unread(<<a, b, c, d>>) = Len(a) + Unread(<<b, c, d>>)
  BY <1>1, <1>2, UnreadNext
<1>4. Unread(<<b, c, d>>) = Len(b) + Unread(<<c, d>>)
  BY <1>1, <1>2, UnreadNext
<1>5. Unread(<<c, d>>) = Len(c) + Unread(<<d>>)
  BY <1>1, <1>2, UnreadNext
<1>6. Unread(<<d>>) = Len(d)
  BY OneUnread
<1>7. Len(a) \in Nat /\ Len(b) \in Nat /\ Len(c) \in Nat /\ Len(d) \in Nat
  BY LengthOf
<1>8. Unread(<<a, b, c, d>>) = Len(a) + Len(b) + Len(c) + Len(d)
  <2> DEFINE u1 == Unread(<<a, b, c, d>>)
             u2 == Unread(<<b, c, d>>)
             u3 == Unread(<<c, d>>)
             u4 == Unread(<<d>>)
  <2>1. u1 = Len(a) + u2 /\ u2 = Len(b) + u3 /\ u3 = Len(c) + u4 /\ u4 = Len(d)
    BY <1>3, <1>4, <1>5, <1>6, Zenon
  <2> HIDE DEF u1, u2, u3, u4
  <2>2. u1 = Len(a) + Len(b) + Len(c) + Len(d)
    BY <1>7, <2>1
  <2>3. QED
    BY <2>2, Zenon DEF u1
<1>9. QED
  BY <1>1, <1>8

\* A part of a string that begins and ends with whole bytes.
LEMMA BytesWithin ==
    ASSUME NEW d \in Seq(Bit), NEW a \in Nat, NEW b \in Nat, a <= b, 8 * b <= Len(d)
    PROVE  SubSeq(d, 8 * a + 1, 8 * b) \in ByteStrings /\ Len(SubSeq(d, 8 * a + 1, 8 * b)) = 8 * b - 8 * a
<1>1. /\ 8 * a + 1 \in Int /\ 8 * b \in Int /\ 1 <= 8 * a + 1 /\ 8 * a + 1 <= 8 * b + 1
      /\ 8 * b + 1 - (8 * a + 1) = 8 * (b - a) /\ b - a \in Nat /\ 8 * (b - a) = 8 * b - 8 * a
  OBVIOUS
<1>2. /\ SubSeq(d, 8 * a + 1, 8 * b) \in Seq(Bit)
      /\ Len(SubSeq(d, 8 * a + 1, 8 * b)) = 8 * b + 1 - (8 * a + 1)
  BY <1>1, PartOf
<1>3. SubSeq(d, 8 * a + 1, 8 * b) \in ByteStrings
  BY <1>1, <1>2, WholeBytes
<1>4. QED
  BY <1>1, <1>2, <1>3

-----------------------------------------------------------------------------
(* The streams are cut out of the body.                                    *)

\* A length of two bytes.
LEMMA LengthType ==
    ASSUME NEW d \in Seq(Bit), NEW k \in 1..3, Len(d) >= 48
    PROVE  ValueOf(SubSeq(d, 16 * k - 15, 16 * k)) \in Nat
<1>1. 16 * k - 15 \in Int /\ 16 * k \in Int /\ 1 <= 16 * k - 15 /\ 16 * k <= 48 /\ 16 * k - 15 <= 16 * k + 1
  OBVIOUS
<1>2. 16 * k <= Len(d)
  BY <1>1
<1>3. QED
  BY <1>1, <1>2, PartOf

\* The streams are strings of bytes, no longer together than what they are cut out of.
LEMMA PiecesType ==
    ASSUME NEW payload \in ByteStrings, NEW p \in Pieces(payload)
    PROVE  p \in Seq(ByteStrings) /\ Unread(p) <= Len(payload)
<1>1. payload \in Seq(Bit) /\ Len(payload) \in Nat /\ Len(payload) % 8 = 0
  BY DEF ByteStrings
<1>2. CASE section.streams = 1
  <2>1. p = <<payload>>
    BY <1>2 DEF Pieces
  <2>2. QED
    BY <1>1, <2>1, OneUnread
<1>3. CASE section.streams # 1
  <2> DEFINE v(k) == ValueOf(SubSeq(payload, 16 * k - 15, 16 * k))
             j1 == 8 * v(1)
             j2 == 8 * v(1) + 8 * v(2)
             j3 == 8 * v(1) + 8 * v(2) + 8 * v(3)
             rest == SubSeq(payload, 49, Len(payload))
  <2>1. /\ Len(payload) >= 48 /\ j3 <= Len(rest)
        /\ p = <<SubSeq(rest, 0 + 1, j1), SubSeq(rest, j1 + 1, j2), SubSeq(rest, j2 + 1, j3),
                 SubSeq(rest, j3 + 1, Len(rest))>>
    <3> DEFINE len(k) == 8 * ValueOf(SubSeq(payload, 16 * k - 15, 16 * k))
               jump(k) == IF k = 0 THEN 0 ELSE IF k = 1 THEN len(1) ELSE IF k = 2 THEN len(1) + len(2)
                          ELSE len(1) + len(2) + len(3)
    <3>1. p \in IF Len(payload) < 48 \/ jump(3) > Len(rest) THEN {}
                ELSE {[k \in 1..4 |-> SubSeq(rest, jump(k - 1) + 1, IF k = 4 THEN Len(rest) ELSE jump(k))]}
      BY <1>3, Zenon DEF Pieces
    <3>2. jump(0) = 0 /\ jump(1) = j1 /\ jump(2) = j2 /\ jump(3) = j3
      OBVIOUS
    <3> HIDE DEF jump, j1, j2, j3, rest
    <3>3. /\ ~(Len(payload) < 48 \/ jump(3) > Len(rest))
          /\ p = [k \in 1..4 |-> SubSeq(rest, jump(k - 1) + 1, IF k = 4 THEN Len(rest) ELSE jump(k))]
      BY <3>1
    <3>4. p = <<SubSeq(rest, jump(0) + 1, jump(1)), SubSeq(rest, jump(1) + 1, jump(2)),
                SubSeq(rest, jump(2) + 1, jump(3)), SubSeq(rest, jump(3) + 1, Len(rest))>>
      <4> DEFINE f(k) == SubSeq(rest, jump(k - 1) + 1, IF k = 4 THEN Len(rest) ELSE jump(k))
      <4>1. /\ f(1) = SubSeq(rest, jump(0) + 1, jump(1)) /\ f(2) = SubSeq(rest, jump(1) + 1, jump(2))
            /\ f(3) = SubSeq(rest, jump(2) + 1, jump(3)) /\ f(4) = SubSeq(rest, jump(3) + 1, Len(rest))
        <5>1. 1 - 1 = 0 /\ 2 - 1 = 1 /\ 3 - 1 = 2 /\ 4 - 1 = 3
          OBVIOUS
        <5>2. QED
          BY <5>1
      <4>2. p = [k \in 1..4 |-> f(k)]
        BY <3>3
      <4> HIDE DEF f
      <4>3. [k \in 1..4 |-> f(k)] = <<f(1), f(2), f(3), f(4)>>
        OBVIOUS
      <4>4. p = <<f(1), f(2), f(3), f(4)>>
        BY <4>2, <4>3
      <4>5. QED
        BY <4>1, <4>4
    <3>5. Len(payload) >= 48 /\ j3 <= Len(rest)
      <4>1. Len(rest) \in Int /\ j3 \in Int
        <5>1. v(1) \in Nat /\ v(2) \in Nat /\ v(3) \in Nat
          <6>1. Len(payload) >= 48
            BY <1>1, <3>3
          <6> HIDE DEF v
          <6>2. \A k \in 1..3 : v(k) \in Nat
            BY <1>1, <6>1, LengthType DEF v
          <6>3. QED
            BY <6>2
        <5> HIDE DEF v
        <5>2. j3 \in Int
          BY <5>1 DEF j3
        <5>3. rest \in Seq(Bit)
          <6>1. /\ 49 \in Int /\ Len(payload) \in Int /\ 1 <= 49 /\ 49 <= Len(payload) + 1
            BY <1>1, <3>3
          <6>2. QED
            BY <1>1, <6>1, PartOf DEF rest
        <5>4. QED
          BY <5>2, <5>3
      <4>2. QED
        BY <1>1, <3>2, <3>3, <4>1
    <3>6. QED
      BY <3>2, <3>4, <3>5
  <2> DEFINE a == v(1)
             b == v(1) + v(2)
             c == v(1) + v(2) + v(3)
             n == (Len(payload) \div 8) - 6
  <2>2. v(1) \in Nat /\ v(2) \in Nat /\ v(3) \in Nat
    <3> HIDE DEF v
    <3>1. \A k \in 1..3 : v(k) \in Nat
      BY <1>1, <2>1, LengthType DEF v
    <3>2. QED
      BY <3>1
  <2> HIDE DEF v
  <2>3. a \in Nat /\ b \in Nat /\ c \in Nat /\ a <= b /\ b <= c /\ j1 = 8 * a /\ j2 = 8 * b /\ j3 = 8 * c
    BY <2>2
  <2>4. n \in Nat /\ 8 * n = Len(payload) - 48
    BY <1>1, <2>1
  <2>5. rest \in Seq(Bit) /\ Len(rest) = 8 * n
    <3>1. 49 \in Int /\ Len(payload) \in Int /\ 1 <= 49 /\ 49 <= Len(payload) + 1
          /\ Len(payload) + 1 - 49 = Len(payload) - 48
      BY <1>1, <2>1
    <3>2. /\ SubSeq(payload, 49, Len(payload)) \in Seq(Bit)
          /\ Len(SubSeq(payload, 49, Len(payload))) = Len(payload) + 1 - 49
      <4> DEFINE l == Len(payload)
      <4>1. l \in Int /\ 49 <= l + 1 /\ l <= Len(payload)
        BY <1>1, <3>1
      <4> HIDE DEF l
      <4>2. SubSeq(payload, 49, l) \in Seq(Bit) /\ Len(SubSeq(payload, 49, l)) = l + 1 - 49
        BY <1>1, <3>1, <4>1, PartOf
      <4>3. QED
        BY <4>2 DEF l
    <3>3. QED
      BY <2>4, <3>1, <3>2
  <2> HIDE DEF a, b, c, n, j1, j2, j3, rest
  <2>6. c <= n
    BY <2>1, <2>3, <2>4, <2>5
  <2> DEFINE p1 == SubSeq(rest, 8 * 0 + 1, 8 * a)
             p2 == SubSeq(rest, 8 * a + 1, 8 * b)
             p3 == SubSeq(rest, 8 * b + 1, 8 * c)
             p4 == SubSeq(rest, 8 * c + 1, 8 * n)
  <2>7. p = <<p1, p2, p3, p4>>
    <3>1. 0 + 1 = 8 * 0 + 1
      OBVIOUS
    <3>2. QED
      BY <2>1, <2>3, <2>5, <3>1
  <2>8. /\ 0 <= a /\ 8 * a <= Len(rest) /\ 8 * b <= Len(rest) /\ 8 * c <= Len(rest) /\ 8 * n <= Len(rest) /\ 0 \in Nat
    BY <2>3, <2>4, <2>5, <2>6
  <2>9. p1 \in ByteStrings /\ Len(p1) = 8 * a - 8 * 0
    BY <2>3, <2>5, <2>8, BytesWithin
  <2>10. p2 \in ByteStrings /\ Len(p2) = 8 * b - 8 * a
    BY <2>3, <2>5, <2>8, BytesWithin
  <2>11. p3 \in ByteStrings /\ Len(p3) = 8 * c - 8 * b
    BY <2>3, <2>5, <2>8, BytesWithin
  <2>12. p4 \in ByteStrings /\ Len(p4) = 8 * n - 8 * c
    BY <2>3, <2>4, <2>5, <2>6, <2>8, BytesWithin
  <2> HIDE DEF p1, p2, p3, p4
  <2>13. p \in Seq(ByteStrings) /\ Unread(p) = Len(p1) + Len(p2) + Len(p3) + Len(p4)
    <3>1. /\ <<p1, p2, p3, p4>> \in Seq(ByteStrings)
          /\ Unread(<<p1, p2, p3, p4>>) = Len(p1) + Len(p2) + Len(p3) + Len(p4)
      <4>1. p1 \in ByteStrings /\ p2 \in ByteStrings /\ p3 \in ByteStrings /\ p4 \in ByteStrings
        BY <2>9, <2>10, <2>11, <2>12
      <4>2. QED
        BY <4>1, FourUnread
    <3>2. QED
      BY <2>7, <3>1, Zenon
  <2>14. Len(p1) + Len(p2) + Len(p3) + Len(p4) = 8 * n
    BY <2>3, <2>4, <2>9, <2>10, <2>11, <2>12, SMTT(30)
  <2>15. QED
    BY <1>1, <2>4, <2>13, <2>14
<1>4. QED
  BY <1>2, <1>3

-----------------------------------------------------------------------------
(* The invariant is kept.                                                  *)

\* A symbol takes its code, and leaves a state that the table has.
LEMMA SymbolStep ==
    ASSUME IInv, Symbol
    PROVE  LET e == tree.decode[states[1]]
           IN  /\ e.num_bits \in Nat /\ e.num_bits >= 1 /\ e.num_bits <= tree.max /\ e.symbol \in 0..255
               /\ BitsRemaining(reader.r) \in Int
               /\ BitsRemaining(reader'.r) = BitsRemaining(reader.r) - e.num_bits
               /\ ReaderInv' /\ StatesInv'
<1> DEFINE e == tree.decode[states[1]]
           n == e.num_bits
           max == tree.max
           D == DOMAIN tree.decode
           low == ValueOf(Peek(reader.bits, reader.r, n))
<1>1. phase = "symbols" /\ UNCHANGED <<tree, phase>>
  BY DEF Symbol, In
<1>2. /\ reader' = [reader EXCEPT !.r = Consume(reader.bits, reader.r, n)]
      /\ states' = <<Shifted(states[1], n) + low>>
  BY DEF Symbol
<1>3. InStep /\ reader.bits \in ByteStrings
  BY DEF IInv, ReaderInv
<1>4. states[1] \in D
  <2>1. states \in Seq(D) /\ Len(states) = 1
    BY <1>1 DEF IInv, StatesInv
  <2> HIDE DEF D
  <2>2. QED
    BY <2>1
<1>5. max \in Nat /\ max \in 0..MaxRead /\ D = 0..(2^max - 1)
  BY <1>1, TreeTable, SMTT(30)
<1>6. n \in 1..max /\ n \in 0..MaxRead /\ e.symbol \in 0..255
  <2>1. \A a \in DOMAIN tree.decode :
           /\ tree.decode[a].num_bits \in 1..tree.max /\ tree.decode[a].num_bits \in 0..MaxRead
           /\ tree.decode[a].symbol \in 0..255
    BY <1>1, TreeTable, ZenonT(60)
  <2>2. QED
    BY <1>4, <2>1
<1> HIDE DEF e, n, max
<1>7. AheadAgrees(reader.bits, reader.r)
  BY <1>3 DEF InStep, ReaderAgrees
<1>8. low \in Nat /\ low < 2^n
  BY <1>3, <1>6, <1>7, ReadBelow
<1> HIDE DEF low
<1> DEFINE c == Consume(reader.bits, reader.r, n)
<1>9. AheadAgrees(reader.bits, c) /\ BitsRemaining(c) = BitsRemaining(reader.r) - n
      /\ BitsRemaining(reader.r) \in Int
  BY <1>3, <1>6, <1>7, ConsumeAgrees, AheadNumbers
<1>10. reader' = [bits |-> reader.bits, r |-> c]
  BY <1>2, <1>3 DEF InStep
<1> HIDE DEF c
<1>11. ReaderInv' /\ BitsRemaining(reader'.r) = BitsRemaining(reader.r) - n
  BY <1>3, <1>9, <1>10 DEF ReaderInv, InStep, ReaderAgrees
<1>12. Shifted(states[1], n) + low \in D
  <2> DEFINE code == states[1]
             all == 2^max
             shifted == (code * 2^n) % all
  <2>1. all \in Nat /\ code \in 0..(all - 1)
    BY <1>4, <1>5, PowType
  <2>2. Cardinality(D) = all
    <3> HIDE DEF all, D
    <3>1. D = 0..(all - 1)
      BY <1>5 DEF all
    <3>2. QED
      BY <2>1, <3>1, CardUpTo
  <2>3. Shifted(code, n) = shifted
    BY <2>2 DEF Shifted, D
  <2>4. shifted \in Nat /\ shifted + low < all
    <3>1. n \in Nat /\ n <= max /\ code \in Nat
      BY <1>5, <1>6, <2>1
    <3> HIDE DEF code
    <3>2. QED
      BY <1>5, <1>8, <3>1, FilledBelow
  <2>5. D = 0..(all - 1)
    BY <1>5
  <2> HIDE DEF code, all, shifted, D
  <2>6. shifted + low \in 0..(all - 1)
    BY <1>8, <2>1, <2>4
  <2>7. Shifted(code, n) + low \in D
    BY <2>3, <2>5, <2>6
  <2>8. QED
    BY <2>7 DEF code
<1>13. StatesInv'
  <2> DEFINE x == Shifted(states[1], n) + low
  <2>1. x \in D /\ states' = <<x>> /\ D = DOMAIN tree'.decode
    BY <1>1, <1>2, <1>12
  <2> HIDE DEF x, D
  <2>2. <<x>> \in Seq(D) /\ Len(<<x>>) = 1
    BY <2>1, SingleOf
  <2>3. QED
    BY <1>1, <2>1, <2>2 DEF StatesInv
<1>14. n \in Nat /\ n >= 1 /\ n <= max
  BY <1>5, <1>6
<1>15. QED
  BY <1>6, <1>9, <1>11, <1>13, <1>14 DEF e, n, max

\* Every step keeps the reader in step, and the states within their tables.
LEMMA ReaderNext == ASSUME IInv, [Next]_vars PROVE ReaderInv' /\ StatesInv'
<1>1. ReaderInv /\ StatesInv
  BY DEF IInv
<1>2. CASE BuildFseTable
  BY <1>2, FseStates
<1>3. CASE Weight
  BY <1>3, WeightStates
<1>4. CASE OpenStream
  BY <1>4, StreamStates
<1>5. CASE Symbol
  BY <1>5, SymbolStep
<1>6. CASE UNCHANGED reader /\ phase' \notin {"weights", "symbols"}
  BY <1>1, <1>6 DEF ReaderInv, InStep, ReaderAgrees, StatesInv
<1>7. CASE UNCHANGED <<reader, states, phase, fse, tree>>
  BY <1>1, <1>7 DEF ReaderInv, InStep, ReaderAgrees, StatesInv
<1>8. CASE PlainLiterals \/ CodedLiterals \/ DirectTreeHeader \/ FseTreeHeader
  BY <1>6, <1>8 DEF PlainLiterals, CodedLiterals, DirectTreeHeader, FseTreeHeader, In
<1>9. CASE Probability \/ RunOfZeros
  BY <1>6, <1>9 DEF Probability, RunOfZeros, In
<1>10. CASE BuildTable \/ EndOfStream
  BY <1>6, <1>10 DEF BuildTable, EndOfStream
<1>11. CASE EmptyStream \/ EndOfSection \/ Refuse \/ Returned \/ UNCHANGED vars
  BY <1>7, <1>11 DEF EmptyStream, EndOfSection, Refuse, Returned, vars
<1>12. QED
  BY <1>2, <1>3, <1>4, <1>5, <1>8, <1>9, <1>10, <1>11 DEF Next

\* The Huffman table is built once, from the weights that stay.
LEMMA TreeNext == ASSUME IInv, [Next]_vars PROVE TreeInv'
<1>1. TreeInv
  BY DEF IInv
<1>2. CASE UNCHANGED tree /\ phase' \notin {"streams", "symbols"}
  BY <1>1, <1>2 DEF TreeInv
<1>3. CASE UNCHANGED <<tree, weights>> /\ (phase' \in {"streams", "symbols"} => phase \in {"streams", "symbols"})
  BY <1>1, <1>3 DEF TreeInv
<1>4. CASE DirectTreeHeader \/ FseTreeHeader
  <2>1. ASSUME NEW used \in Nat, tree' = [tree EXCEPT !.used = used], phase' \in {"table", "probabilities"}
        PROVE  TreeInv'
    <3>1. tree' = [used |-> used, max |-> tree.max, decode |-> tree.decode]
      BY <1>1, <2>1 DEF TreeInv
    <3>2. QED
      BY <1>1, <2>1, <3>1 DEF TreeInv
  <2>2. BodyInv /\ phase = "tree"
    BY <1>4 DEF IInv, DirectTreeHeader, FseTreeHeader, In
  <2>3. TreeHeader \in 0..255
    BY <2>2, TreeHeaderType
  <2>4. CASE DirectTreeHeader
    <3>1. TreeHeader >= 128
      BY <2>4 DEF DirectTreeHeader, DirectWeights
    <3>2. 1 + Half(TreeHeader - 127) \in Nat
      BY <2>3, <3>1 DEF Half
    <3>3. tree' = [tree EXCEPT !.used = 1 + Half(TreeHeader - 127)] /\ phase' = "table"
      BY <2>4 DEF DirectTreeHeader
    <3>4. QED
      BY <2>1, <3>2, <3>3
  <2>5. CASE FseTreeHeader
    <3>1. tree' = [tree EXCEPT !.used = 1 + TreeHeader] /\ phase' = "probabilities"
      BY <2>5 DEF FseTreeHeader
    <3>2. 1 + TreeHeader \in Nat
      BY <2>3
    <3>3. QED
      BY <2>1, <3>1, <3>2
  <2>6. QED
    BY <1>4, <2>4, <2>5
<1>5. CASE BuildTable
  <2>1. PICK t \in Tables : tree' = [tree EXCEPT !.max = t.table.max, !.decode = t.table.decode]
    BY <1>5 DEF BuildTable
  <2>2. t.table \in HuffmanTables(weights)
    BY DEF Tables
  <2> DEFINE table == t.table
  <2>3. tree' = [used |-> tree.used, max |-> table.max, decode |-> table.decode]
    BY <1>1, <2>1 DEF TreeInv
  <2>4. table \in HuffmanTables(weights)
    BY <2>2
  <2> HIDE DEF table
  <2>5. weights \in Seq(Nat)
    <3>1. weights \in Seq(0..MaxSymbol)
      BY DEF IInv, WeightsInv
    <3>2. 0..MaxSymbol \subseteq Nat
      OBVIOUS
    <3>3. QED
      BY <3>1, <3>2, SeqWithin
  <2>6. table.max \in 0..MaxMaxNumBits
    BY <2>4, <2>5, TableDecodes
  <2>7. weights' = weights /\ tree.used \in Nat
    BY <1>1, <1>5, SMTT(30) DEF BuildTable, TreeInv
  <2>8. QED
    BY <2>3, <2>4, <2>6, <2>7 DEF TreeInv
<1>6. CASE PlainLiterals \/ CodedLiterals \/ Probability \/ RunOfZeros \/ BuildFseTable \/ Weight
  BY <1>2, <1>6 DEF PlainLiterals, CodedLiterals, Probability, RunOfZeros, BuildFseTable, Weight, In
<1>7. CASE OpenStream \/ EndOfStream \/ EmptyStream \/ Symbol
  BY <1>3, <1>7 DEF OpenStream, EndOfStream, EmptyStream, Symbol, In
<1>8. CASE EndOfSection \/ Refuse \/ Returned \/ UNCHANGED vars
  BY <1>3, <1>8 DEF EndOfSection, Refuse, Returned, vars
<1>9. QED
  BY <1>4, <1>5, <1>6, <1>7, <1>8 DEF Next

\* What is decoded is paid for by the bits of the body.
LEMMA PlainOut == ASSUME IInv, PlainLiterals PROVE OutInv'
<1>1. phase = "section" /\ phase' = phase /\ streams' = streams /\ out' \in Plain /\ status' = "ok"
  BY DEF PlainLiterals, In
<1>2. DataIn /\ streams \in Seq(ByteStrings)
  BY DEF IInv, DataIn, PhaseInv, OutInv
<1>3. out' \in Seq(0..255)
  BY <1>1, <1>2, PlainType
<1>4. QED
  BY <1>1, <1>2, <1>3 DEF OutInv

\* The pieces are cut out of what is behind the tree.
LEMMA TableOut == ASSUME IInv, BuildTable PROVE OutInv'
<1>1. /\ phase = "table" /\ phase' = "streams" /\ UNCHANGED <<out, section>>
      /\ \E t \in Tables : streams' = t.pieces
  BY DEF BuildTable, In
<1>2. PICK t \in Tables : streams' = t.pieces
  BY <1>1
<1> DEFINE payload == SubSeq(Body, 8 * tree.used + 1, Len(Body))
<1>3. 8 * tree.used < Len(Body) /\ streams' \in Pieces(payload)
  BY <1>2 DEF Tables
<1>4. Body \in Seq(Bit) /\ Len(Body) \in Nat /\ Len(Body) % 8 = 0 /\ tree.used \in Nat
  BY DEF IInv, BodyInv, Body, ByteStrings, TreeInv
<1>5. payload \in ByteStrings /\ Len(payload) <= Len(Body)
  <2> DEFINE a == tree.used
             b == Len(Body) \div 8
  <2>1. a \in Nat /\ b \in Nat /\ a <= b /\ 8 * b = Len(Body)
    BY <1>3, <1>4
  <2> HIDE DEF a, b
  <2>2. SubSeq(Body, 8 * a + 1, 8 * b) \in ByteStrings /\ Len(SubSeq(Body, 8 * a + 1, 8 * b)) = 8 * b - 8 * a
    BY <1>4, <2>1, BytesWithin
  <2>3. payload = SubSeq(Body, 8 * a + 1, 8 * b)
    BY <2>1 DEF a
  <2> HIDE DEF payload
  <2>4. QED
    BY <2>1, <2>2, <2>3
<1> HIDE DEF payload
<1>6. streams' \in Seq(ByteStrings) /\ Unread(streams') <= Len(payload)
  BY <1>3, <1>5, PiecesType
<1>7. Unread(streams') \in Nat
  BY <1>6, LengthsType
<1>8. Len(payload) \in Nat
  BY <1>5, LengthOf
<1>9. out' = <<>> /\ Len(out') = 0 /\ out' \in Seq(0..255) /\ Body' = Body
  BY <1>1 DEF IInv, OutInv, Body
<1>10. Len(out') + Unread(streams') <= Len(Body)
  BY <1>4, <1>5, <1>6, <1>7, <1>8, <1>9
<1>11. QED
  BY <1>1, <1>6, <1>9, <1>10 DEF OutInv, Unread

\* An open stream pays by its own bits, of which one ends the padding.
LEMMA OpenOut == ASSUME IInv, OpenStream PROVE OutInv'
<1> DEFINE s == Head(streams)
           max == tree.max
<1>1. /\ phase = "streams" /\ phase' = "symbols" /\ UNCHANGED <<out, section, tree>>
      /\ streams # <<>> /\ streams' = Tail(streams)
      /\ \E r \in Opened(s) : reader' = [bits |-> s, r |-> Consume(s, r, max)]
  BY DEF OpenStream, In
<1>2. PICK n \in 1..8 : reader'.r = Consume(s, Consume(s, NewReversed(s), n), max)
  BY <1>1 DEF Opened
<1>3. /\ streams \in Seq(ByteStrings) /\ out \in Seq(0..255) /\ Len(out) + Unread(streams) <= Len(Body)
      /\ Len(Body) \in Nat
  <2>1. Body \in ByteStrings
    BY <1>1, TreeHeaderType DEF IInv
  <2>2. QED
    BY <1>1, <2>1, LengthOf DEF IInv, OutInv
<1>4. /\ s \in ByteStrings /\ Tail(streams) \in Seq(ByteStrings) /\ Len(s) \in Nat /\ Unread(Tail(streams)) \in Nat
      /\ Unread(streams) = Len(s) + Unread(Tail(streams))
  BY <1>1, <1>3, UnreadNext
<1>5. max \in Nat /\ max \in 0..MaxRead
  BY <1>1, TreeTable
<1>6. BitsRemaining(reader'.r) = Len(s) - n - max
  <2> DEFINE r0 == NewReversed(s)
             r1 == Consume(s, r0, n)
  <2>1. n \in 0..MaxRead
    BY ReadsFit
  <2> HIDE DEF s, max
  <2>2. AheadAgrees(s, r0) /\ BitsRemaining(r0) = Len(s)
    BY <1>4, NewAgrees
  <2> HIDE DEF r0
  <2>3. AheadAgrees(s, r1) /\ BitsRemaining(r1) = Len(s) - n
    BY <1>4, <2>1, <2>2, ConsumeAgrees
  <2>4. reader'.r = Consume(s, r1, max)
    BY <1>2 DEF r0
  <2> HIDE DEF r1
  <2>5. BitsRemaining(Consume(s, r1, max)) = BitsRemaining(r1) - max
    BY <1>4, <1>5, <2>3, ConsumeAgrees
  <2>6. QED
    BY <2>3, <2>4, <2>5
<1> HIDE DEF s, max
<1> DEFINE rest == Unread(Tail(streams))
           left == BitsRemaining(reader'.r)
           size == Len(Body)
           m == Len(out)
<1>7. /\ rest \in Nat /\ left = Len(s) - n - max /\ size \in Nat /\ m \in Nat /\ Len(s) \in Nat
      /\ m + (Len(s) + rest) <= size
  BY <1>3, <1>4, <1>6
<1>8. Body' = Body /\ Len(out') = m /\ Unread(streams)' = rest
  BY <1>1 DEF Body, Unread
<1> HIDE DEF rest, left, size, m
<1>9. m + rest <= size /\ m + left + max + rest <= size
  BY <1>5, <1>7
<1>10. tree'.max = max /\ out' \in Seq(0..255) /\ streams' \in Seq(ByteStrings)
  BY <1>1, <1>3, <1>4 DEF max
<1>11. Len(out') + Unread(streams)' <= Len(Body') /\ Len(out') + left + tree'.max + Unread(streams)' <= Len(Body')
  BY <1>8, <1>9, <1>10 DEF size
<1>12. QED
  BY <1>1, <1>10, <1>11 DEF OutInv, left

\* A symbol is paid for by the bits it takes, as long as there are some.
LEMMA SymbolOut == ASSUME IInv, Symbol PROVE OutInv'
<1> DEFINE e == tree.decode[states[1]]
           n == e.num_bits
<1>1. /\ phase = "symbols" /\ UNCHANGED <<phase, section, tree, streams>> /\ ~Exhausted
      /\ out' = Append(out, e.symbol)
  BY SMTT(30) DEF Symbol, In
<1>2. /\ n \in Nat /\ n >= 1 /\ e.symbol \in 0..255 /\ BitsRemaining(reader.r) \in Int
      /\ BitsRemaining(reader'.r) = BitsRemaining(reader.r) - n
  BY SymbolStep
<1>3. /\ streams \in Seq(ByteStrings) /\ out \in Seq(0..255)
      /\ Len(out) + BitsRemaining(reader.r) + tree.max + Unread(streams) <= Len(Body) /\ Len(Body) \in Nat
  <2>1. Body \in ByteStrings
    BY <1>1, TreeHeaderType DEF IInv
  <2>2. QED
    BY <1>1, <2>1, LengthOf DEF IInv, OutInv
<1>4. tree.max \in Nat
  BY <1>1, TreeTable
<1>5. Unread(streams) \in Nat
  BY <1>3, LengthsType
<1> HIDE DEF e, n
<1> DEFINE rest == Unread(streams)
           left == BitsRemaining(reader.r)
           left2 == BitsRemaining(reader'.r)
           size == Len(Body)
           m == Len(out)
           max == tree.max
<1>6. out' \in Seq(0..255) /\ Len(out') = m + 1 /\ m \in Nat
  BY <1>1, <1>2, <1>3
<1>7. left > -max
  BY <1>1, <1>2, <1>4 DEF Exhausted
<1>8. /\ rest \in Nat /\ left \in Int /\ left2 = left - n /\ size \in Nat /\ max \in Nat
      /\ m + left + max + rest <= size
  BY <1>2, <1>3, <1>4, <1>5
<1>9. Body' = Body /\ Unread(streams)' = rest /\ tree'.max = max /\ streams' = streams
  BY <1>1 DEF Body, Unread
<1> HIDE DEF rest, left, left2, size, m, max
<1>10. (m + 1) + rest <= size /\ (m + 1) + left2 + max + rest <= size
  BY <1>2, <1>6, <1>7, <1>8
<1>11. /\ Len(out') + Unread(streams)' <= Len(Body')
       /\ Len(out') + left2 + tree'.max + Unread(streams)' <= Len(Body')
  BY <1>6, <1>9, <1>10 DEF size
<1>12. QED
  BY <1>1, <1>3, <1>6, <1>9, <1>11 DEF OutInv, left2

\* Every step keeps what is decoded paid for.
LEMMA OutNext == ASSUME IInv, [Next]_vars PROVE OutInv'
<1>1. OutInv
  BY DEF IInv
<1>2. CASE PlainLiterals
  BY <1>2, PlainOut
<1>3. CASE BuildTable
  BY <1>3, TableOut
<1>4. CASE OpenStream
  BY <1>4, OpenOut
<1>5. CASE Symbol
  BY <1>5, SymbolOut
<1>6. CASE EmptyStream
  <2>1. /\ phase = "streams" /\ phase' = phase /\ streams # <<>> /\ Head(streams) = <<>> /\ streams' = Tail(streams)
        /\ UNCHANGED <<out, section>>
    BY <1>6 DEF EmptyStream, In
  <2>2. streams \in Seq(ByteStrings) /\ Len(out) + Unread(streams) <= Len(Body) /\ out \in Seq(0..255)
    BY <1>1, <2>1 DEF OutInv
  <2>3. /\ Tail(streams) \in Seq(ByteStrings) /\ Unread(Tail(streams)) \in Nat
        /\ Unread(streams) = Len(Head(streams)) + Unread(Tail(streams))
    BY <2>1, <2>2, UnreadNext
  <2>4. Unread(streams') = Unread(streams)
    BY <2>1, <2>3
  <2>5. Body' = Body
    BY <2>1 DEF Body
  <2>6. QED
    BY <2>1, <2>2, <2>3, <2>4, <2>5 DEF OutInv, Unread
<1>7. CASE UNCHANGED <<streams, out>> /\ out = <<>> /\ phase' \notin {"streams", "symbols"}
  BY <1>1, <1>7 DEF OutInv
<1>8. CASE CodedLiterals
  BY <1>1, <1>7, <1>8 DEF OutInv, CodedLiterals, In
<1>9. CASE DirectTreeHeader \/ FseTreeHeader \/ BuildFseTable
  BY <1>1, <1>7, <1>9 DEF OutInv, DirectTreeHeader, FseTreeHeader, BuildFseTable, In
<1>10. CASE Probability \/ RunOfZeros
  BY <1>1, <1>7, <1>10 DEF OutInv, Probability, RunOfZeros, In
<1>11. CASE Weight
  BY <1>1, <1>7, <1>11 DEF OutInv, Weight, In
<1>12. CASE EndOfStream
  BY <1>1, <1>12 DEF OutInv, EndOfStream, In, Body, Unread
<1>13. CASE EndOfSection
  BY <1>1, <1>13 DEF OutInv, EndOfSection, In, Body, Unread
<1>14. CASE Refuse
  BY <1>1, <1>14 DEF OutInv, Refuse, In, Body, Unread
<1>15. CASE Returned \/ UNCHANGED vars
  BY <1>1, <1>15 DEF OutInv, Returned, vars, Body, Unread
<1>16. QED
  BY <1>2, <1>3, <1>4, <1>5, <1>6, <1>8, <1>9, <1>10, <1>11, <1>12, <1>13, <1>14, <1>15 DEF Next

\* Every step keeps all of it.
LEMMA NextInv == ASSUME IInv, [Next]_vars PROVE IInv'
<1>1. PhaseInv' /\ BodyInv'
  BY PhaseNext, BodyNext DEF IInv
<1>2. FseInv' /\ WeightsInv' /\ ReaderInv' /\ StatesInv' /\ TreeInv' /\ OutInv'
  BY FseNext, WeightsNext, ReaderNext, TreeNext, OutNext
<1>3. QED
  BY <1>1, <1>2 DEF IInv

-----------------------------------------------------------------------------
(* What follows for every run of the decoder.                              *)

\* The inductive invariant holds of every run: what a phase leaves behind is what
\* the next one relies on, whatever the section says.
THEOREM LiteralsInvariant == Spec => []IInv
<1>1. Init => IInv
  BY InitInv
<1>2. IInv /\ [Next]_vars => IInv'
  BY NextInv
<1>3. QED
  BY <1>1, <1>2, PTL DEF Spec

\* What the invariant says of the types.
LEMMA TypesFollow == ASSUME IInv PROVE TypeOK
<1>1. /\ data \in ByteStrings /\ status \in {"running", "ok", "error"}
      /\ phase \in {"section", "tree", "probabilities", "zeros", "weights", "table", "streams", "symbols"}
  BY DEF IInv, PhaseInv
<1>2. weights \in Seq(0..MaxSymbol) /\ out \in Seq(0..255) /\ fse.probs \in Seq(Nat \cup {-1})
  BY DEF IInv, WeightsInv, OutInv, FseInv, Probabilities
<1>3. section \in [size : Nat, body : ByteStrings, streams : {1, 4}] /\ streams \in Seq(ByteStrings)
  BY DEF IInv, BodyInv, OutInv
<1>4. reader.bits \in ByteStrings /\ fse.log \in 0..MaxAccuracyLog /\ tree.max \in 0..MaxMaxNumBits
  BY DEF IInv, ReaderInv, FseInv, TreeInv
<1>5. phase = "weights" => Len(states) = 2 /\ \A k \in 1..2 : states[k] \in DOMAIN fse.decode
  <2> DEFINE D == DOMAIN fse.decode
  <2>1. phase = "weights" => Len(states) = 2 /\ states \in Seq(D)
    BY DEF IInv, StatesInv
  <2> HIDE DEF D
  <2>2. phase = "weights" => Len(states) = 2 /\ \A k \in 1..2 : states[k] \in D
    BY <2>1
  <2>3. QED
    BY <2>2 DEF D
<1>6. phase = "weights" => \A c \in DOMAIN fse.decode : fse.decode[c].num_bits \in 0..fse.log
  BY FseTable DEF IInv
<1>7. phase = "symbols" => Len(states) = 1 /\ states[1] \in DOMAIN tree.decode
  <2> DEFINE D == DOMAIN tree.decode
  <2>1. phase = "symbols" => Len(states) = 1 /\ states \in Seq(D)
    BY DEF IInv, StatesInv
  <2> HIDE DEF D
  <2>2. phase = "symbols" => Len(states) = 1 /\ states[1] \in D
    BY <2>1
  <2>3. QED
    BY <2>2 DEF D
<1>8. phase = "symbols" => \A c \in DOMAIN tree.decode : tree.decode[c].num_bits \in 0..tree.max
  <2>1. SUFFICES ASSUME phase = "symbols", NEW c \in DOMAIN tree.decode
                 PROVE  tree.decode[c].num_bits \in 0..tree.max
    OBVIOUS
  <2>2. tree.decode[c].num_bits \in 1..tree.max
    BY <2>1, TreeTable
  <2>3. QED
    BY <2>2
<1>9. QED
  BY <1>1, <1>2, <1>3, <1>4, <1>5, <1>6, <1>7, <1>8 DEF TypeOK

\* Every variable keeps its type, and no state is one that its table does not
\* have: get_bits, the tables and the loops never index out of what they built.
THEOREM LiteralsTyped == Spec => []TypeOK
<1>1. IInv => TypeOK
  BY TypesFollow
<1>2. QED
  BY <1>1, LiteralsInvariant, PTL

\* The reader reads every string from its end, bit for bit.
THEOREM ReaderStaysInStep == Spec => []ReaderAgrees
<1>1. IInv => ReaderAgrees
  BY DEF IInv, ReaderInv, InStep
<1>2. QED
  BY <1>1, LiteralsInvariant, PTL

\* Nothing is kept beyond what the section pays for: the number of weights is
\* bounded though it is looked at after every second one only, and each symbol
\* has a bit of the body of its own, over all streams.
THEOREM LiteralsLimited == Spec => []LimitsHeld
<1>1. ASSUME IInv PROVE LimitsHeld
  <2>1. Len(weights) <= MaxWeights + 2 /\ Len(section.body) <= 8 * MaxLiterals
    BY <1>1 DEF IInv, WeightsInv, BodyInv, Body
  <2>2. ASSUME phase # "section" PROVE Len(out) <= Len(section.body)
    <3>1. Body \in ByteStrings
      BY <1>1, <2>2, TreeHeaderType DEF IInv
    <3>2. Len(Body) \in Nat
      BY <3>1, LengthOf
    <3>3. CASE phase \in {"streams", "symbols"}
      <4>1. out \in Seq(0..255) /\ streams \in Seq(ByteStrings) /\ Len(out) + Unread(streams) <= Len(Body)
        BY <1>1, <3>3 DEF IInv, OutInv
      <4>2. Unread(streams) \in Nat
        BY <4>1, LengthsType
      <4>3. Len(out) \in Nat
        BY <4>1
      <4>4. QED
        BY <3>2, <4>1, <4>2, <4>3 DEF Body
    <3>4. CASE phase \notin {"streams", "symbols"}
      <4>1. out = <<>>
        BY <1>1, <2>2, <3>4 DEF IInv, PhaseInv, OutInv
      <4>2. Len(out) = 0
        BY <4>1
      <4>3. QED
        BY <3>2, <4>2 DEF Body
    <3>5. QED
      BY <3>3, <3>4
  <2>3. QED
    BY <2>1, <2>2 DEF LimitsHeld
<1>2. QED
  BY <1>1, LiteralsInvariant, PTL

\* What a step takes.
Taken ==
    /\ phase = "symbols" /\ phase' = "symbols" =>
          LET n == tree.decode[states[1]].num_bits
          IN  n >= 1 /\ BitsRemaining(reader'.r) = BitsRemaining(reader.r) - n
    /\ phase \in {"probabilities", "zeros"} /\ fse'.probs # fse.probs => fse'.at > fse.at

\* Both loops go on: a symbol takes its code and nothing else, at least a bit,
\* and a probability is never read out of no bits.
THEOREM LiteralsConsume == Spec => Consumes
<1>1. IInv /\ [Next]_vars => [Taken]_vars
  <2> SUFFICES ASSUME IInv, [Next]_vars PROVE [Taken]_vars
    BY SMTT(30)
  <2>1. CASE Symbol
    BY <2>1, SymbolStep DEF Taken, Symbol, In
  <2>2. CASE Probability
    BY <2>2, ProbabilityFse DEF Taken, Probability, In
  <2>3. CASE RunOfZeros
    BY <2>3, ZerosFse DEF Taken, RunOfZeros, In
  <2>4. CASE BuildFseTable
    <3>1. phase = "probabilities" /\ \E d \in FseDecoders : fse' = [fse EXCEPT !.decode = d.decode]
      BY <2>4 DEF BuildFseTable, In
    <3>2. fse = [log |-> fse.log, probs |-> fse.probs, at |-> fse.at, decode |-> fse.decode]
      BY DEF IInv, FseInv
    <3>3. fse'.probs = fse.probs
      BY <3>1, <3>2
    <3>4. QED
      BY <3>1, <3>3 DEF Taken
  <2>5. CASE PlainLiterals \/ CodedLiterals \/ DirectTreeHeader \/ FseTreeHeader
    BY <2>5, ZenonT(60) DEF Taken, PlainLiterals, CodedLiterals, DirectTreeHeader, FseTreeHeader, In
  <2>6. CASE Weight \/ BuildTable \/ EmptyStream \/ OpenStream \/ EndOfStream \/ EndOfSection
    BY <2>6 DEF Taken, Weight, BuildTable, EmptyStream, OpenStream, EndOfStream, EndOfSection, In
  <2>7. CASE Refuse
    <3>1. UNCHANGED <<phase, fse>> /\ phase # "symbols"
      BY <2>7 DEF Refuse, In
    <3>2. QED
      BY <3>1 DEF Taken
  <2>8. CASE Returned \/ UNCHANGED vars
    BY <2>8 DEF Taken, Returned, vars
  <2>9. QED
    BY <2>1, <2>2, <2>3, <2>4, <2>5, <2>6, <2>7, <2>8 DEF Next
<1>2. [Taken]_vars <=>
         [/\ phase = "symbols" /\ phase' = "symbols" =>
                LET n == tree.decode[states[1]].num_bits
                IN  n >= 1 /\ BitsRemaining(reader'.r) = BitsRemaining(reader.r) - n
          /\ phase \in {"probabilities", "zeros"} /\ fse'.probs # fse.probs => fse'.at > fse.at]_vars
  BY DEF Taken
<1>3. QED
  BY <1>1, <1>2, LiteralsInvariant, PTL DEF Spec, Consumes

\* An entry of a Huffman table is a symbol and a width.
LEMMA EntryIs ==
    ASSUME NEW ws, NEW t \in HuffmanTables(ws), NEW a \in DOMAIN t.decode
    PROVE  t.decode[a] = [symbol |-> t.decode[a].symbol, num_bits |-> t.decode[a].num_bits]
<1> DEFINE own(c) == [i \in DOMAIN c.bits |-> Entries(c, i)]
           owners(c, idx) == {i \in DOMAIN own(c) : idx \in own(c)[i]}
           entry(c, i) == [symbol |-> (i - 1) % 256, num_bits |-> c.bits[i]]
           at(c, idx) == IF owners(c, idx) = {} THEN [symbol |-> 0, num_bits |-> 0]
                         ELSE entry(c, CHOOSE i \in owners(c, idx) : \A j \in owners(c, idx) : j <= i)
<1>1. PICK c \in CodeBits(ws) : t = [max |-> c.max, decode |-> [idx \in 0..(2^c.max - 1) |-> at(c, idx)]]
  BY Zenon DEF HuffmanTables
<1> HIDE DEF owners
<1>2. \E x, y : at(c, a) = [symbol |-> x, num_bits |-> y]
  BY Zenon
<1> HIDE DEF at
<1>3. t.decode[a] = at(c, a)
  <2>1. t.decode = [idx \in 0..(2^c.max - 1) |-> at(c, idx)]
    BY <1>1
  <2>2. QED
    BY <2>1
<1>4. QED
  BY <1>2, <1>3

\* The table of the weights shares out what can be reached.
LEMMA FseSound ==
    ASSUME IInv, phase = "weights"
    PROVE  \A i \in {i \in DOMAIN fse.probs : fse.probs[i] # 0} :
             LET cells == {c \in DOMAIN fse.decode : fse.decode[c].symbol = i - 1}
                 reached(c) == LET e == fse.decode[c] IN e.base_line..(e.base_line + 2^e.num_bits - 1)
             IN  /\ Cardinality(cells) = Share(fse.probs[i])
                 /\ UNION {reached(c) : c \in cells} = DOMAIN fse.decode
                 /\ \A c, d \in cells : c = d \/ reached(c) \cap reached(d) = {}
<1>1. /\ Distributes(fse.log, fse.probs) /\ fse.decode \in DecodingTable(fse.log, fse.probs)
      /\ fse.probs \in Seq(Probabilities)
  BY DEF IInv, FseInv
<1>2. SUFFICES ASSUME NEW i \in DOMAIN fse.probs, fse.probs[i] # 0
      PROVE  LET cells == {c \in DOMAIN fse.decode : fse.decode[c].symbol = i - 1}
                 reached(c) == LET e == fse.decode[c] IN e.base_line..(e.base_line + 2^e.num_bits - 1)
             IN  /\ Cardinality(cells) = Share(fse.probs[i])
                 /\ UNION {reached(c) : c \in cells} = DOMAIN fse.decode
                 /\ \A c, d \in cells : c = d \/ reached(c) \cap reached(d) = {}
  OBVIOUS
<1>3. i \in 1..Len(fse.probs)
  BY <1>1
<1>4. SharesOut(fse.decode, i, fse.probs[i])
  <2> DEFINE t == fse.decode
             log == fse.log
             probs == fse.probs
  <2>1. Distributes(log, probs) /\ t \in DecodingTable(log, probs) /\ i \in 1..Len(probs) /\ probs[i] # 0
    BY <1>1, <1>2, <1>3
  <2> HIDE DEF t, log, probs
  <2>2. SharesOut(t, i, probs[i])
    BY <2>1, TableShares, SMTT(30)
  <2>3. QED
    BY <2>2, Zenon DEF t, probs
<1>5. QED
  BY <1>4, Zenon DEF SharesOut, Reaches

\* Whatever bits follow those of a code, the table says the same.
LEMMA TreeSound ==
    ASSUME IInv, phase = "streams"
    PROVE  \A a \in DOMAIN tree.decode :
             LET wide == 2^(tree.max - tree.decode[a].num_bits)
                 first == (a \div wide) * wide
             IN  /\ tree.decode[a].num_bits \in 1..tree.max
                 /\ tree.decode[first] = tree.decode[a]
                 /\ a = first => \A b \in first..(first + wide - 1) : tree.decode[b] = tree.decode[a]
<1>1. SUFFICES ASSUME NEW a \in DOMAIN tree.decode
      PROVE  LET wide == 2^(tree.max - tree.decode[a].num_bits)
                 first == (a \div wide) * wide
             IN  /\ tree.decode[a].num_bits \in 1..tree.max
                 /\ tree.decode[first] = tree.decode[a]
                 /\ a = first => \A b \in first..(first + wide - 1) : tree.decode[b] = tree.decode[a]
  OBVIOUS
<1> DEFINE wide == 2^(tree.max - tree.decode[a].num_bits)
           first == (a \div wide) * wide
<1>2. /\ tree.decode[a].num_bits \in 1..tree.max
      /\ \A b \in first..(first + wide - 1) :
            /\ b \in DOMAIN tree.decode /\ tree.decode[b].symbol = tree.decode[a].symbol
            /\ tree.decode[b].num_bits = tree.decode[a].num_bits
  BY TreeTable, Zenon
<1>3. \A b \in DOMAIN tree.decode :
         tree.decode[b] = [symbol |-> tree.decode[b].symbol, num_bits |-> tree.decode[b].num_bits]
  <2>1. PICK t \in HuffmanTables(weights) : tree.max = t.max /\ tree.decode = t.decode
    BY DEF IInv, TreeInv
  <2>2. QED
    BY <2>1, EntryIs
<1>4. tree.max \in Nat /\ DOMAIN tree.decode = 0..(2^tree.max - 1)
  BY TreeTable
<1>5. wide \in Nat /\ wide > 0
  <2>1. tree.max - tree.decode[a].num_bits \in Nat
    BY <1>2, <1>4
  <2>2. QED
    BY <2>1, PowType
<1>6. first \in first..(first + wide - 1)
  <2>1. a \in Nat
    BY <1>4
  <2> HIDE DEF wide
  <2>2. first \in Nat
    BY <1>5, <2>1
  <2> HIDE DEF first
  <2>3. QED
    BY <1>5, <2>2
<1> HIDE DEF first, wide
<1>7. \A b \in first..(first + wide - 1) : tree.decode[b] = tree.decode[a]
  BY <1>2, <1>3
<1>8. QED
  BY <1>2, <1>6, <1>7 DEF first, wide

\* Both tables are what their codes need: the states of a weight share out the
\* table among them, and a code is known by its own bits.
THEOREM TablesAreSound == Spec => []TablesSound
<1>1. IInv => TablesSound
  BY FseSound, TreeSound, Zenon DEF TablesSound
<1>2. QED
  BY <1>1, LiteralsInvariant, PTL
=============================================================================
