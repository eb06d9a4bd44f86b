--------------------------- MODULE Lz4BlockProofs ---------------------------
(***************************************************************************)
(* The bounds of lz4::extract_literals for every radix, every block and    *)
(* every max_output; and that it finds the literals an encoder wrote, in   *)
(* every block of a well-formed source, whole or cut short.                *)
(***************************************************************************)
EXTENDS Lz4Block, DataLemmas

\* What is inductive: the types, and that every sequence takes a byte of its
\* own besides its literals.
IInv == TypeOK /\ CapacitySuffices

\* A byte of the block is a byte, and so is ByteMax; half a token is a number.
LEMMA ByteFacts ==
    /\ ByteMax \in Nat /\ NibbleMax \in Nat
    /\ \A b \in Bytes : b \in Nat /\ b \div (NibbleMax + 1) \in Nat /\ b % (NibbleMax + 1) \in Nat
PROOF
<1>1. NibbleMax \in Nat /\ ByteMax \in Nat
  BY FormatConstants
<1>2. ASSUME NEW b \in Bytes
      PROVE  b \in Nat /\ b \div (NibbleMax + 1) \in Nat /\ b % (NibbleMax + 1) \in Nat
  BY <1>1, <1>2 DEF Bytes
<1>3. QED
  BY <1>1, <1>2

\* A length that is read, whether in the half token or behind it, is a number,
\* and reading goes on inside the block and not before where it began.
LEMMA LengthIn ==
    ASSUME compressed \in Seq(Bytes), NEW p \in 0..Len(compressed), NEW nibble \in Nat,
           NEW r \in Length(p, nibble)
    PROVE  r.len \in Nat /\ r.next \in p..Len(compressed)
PROOF
<1>1. CASE nibble = NibbleMax
  <2>1. r \in DecodeLength(p, nibble)
    BY <1>1 DEF Length
  <2>2. PICK k \in 0..(Len(compressed) - p - 1) :
          r = [len |-> nibble + k * ByteMax + compressed[p + k + 1], next |-> p + k + 1]
    BY <2>1 DEF DecodeLength
  <2>3. Len(compressed) \in Nat /\ k \in Nat /\ p + k + 1 \in 1..Len(compressed)
    OBVIOUS
  <2>4. compressed[p + k + 1] \in Nat
    BY <2>3, ByteFacts
  <2>5. k * ByteMax \in Nat
    BY <2>3, ByteFacts
  <2>6. QED
    BY <2>2, <2>3, <2>4, <2>5
<1>2. CASE nibble # NibbleMax
  BY <1>2 DEF Length
<1>3. QED
  BY <1>1, <1>2

\* The run of a sequence lies behind its token and within the block.
LEMMA RunIn ==
    ASSUME TypeOK, More, NEW r \in Run
    PROVE  /\ r.len \in Nat /\ r.next \in Nat
           /\ r.next >= pos + 1
           /\ r.next + r.len <= Len(compressed)
PROOF
<1>1. compressed \in Seq(Bytes) /\ pos \in 0..Len(compressed) /\ pos < Len(compressed)
  BY DEF TypeOK, More
<1>2. pos + 1 \in 0..Len(compressed) /\ compressed[pos + 1] \in Bytes
  BY <1>1
<1>3. compressed[pos + 1] \div (NibbleMax + 1) \in Nat
  BY <1>2, ByteFacts
<1>4. /\ r \in Length(pos + 1, compressed[pos + 1] \div (NibbleMax + 1))
      /\ r.next + r.len <= Len(compressed)
  BY DEF Run
<1>5. r.len \in Nat /\ r.next \in (pos + 1)..Len(compressed)
  BY <1>1, <1>2, <1>3, <1>4, LengthIn
<1>6. QED
  BY <1>1, <1>4, <1>5

\* The copy behind the run ends no earlier than the run and within the block.
LEMMA AfterCopyIn ==
    ASSUME TypeOK, More, NEW p \in 0..Len(compressed), NEW next \in AfterCopy(p)
    PROVE  next \in p..Len(compressed)
PROOF
<1>1. compressed \in Seq(Bytes) /\ pos \in 0..Len(compressed) /\ pos < Len(compressed)
  BY DEF TypeOK, More
<1>2. compressed[pos + 1] % (NibbleMax + 1) \in Nat
  BY <1>1, ByteFacts
<1>3. CASE p >= Len(compressed)
  BY <1>1, <1>3 DEF AfterCopy
<1>4. CASE ~(p >= Len(compressed))
  <2>1. PICK m \in Length(p + 2, compressed[pos + 1] % (NibbleMax + 1)) :
          p + 2 <= Len(compressed) /\ next = m.next
    BY <1>4 DEF AfterCopy
  <2>2. p + 2 \in 0..Len(compressed)
    BY <1>1, <2>1
  <2>3. m.next \in (p + 2)..Len(compressed)
    BY <1>1, <1>2, <2>1, <2>2, LengthIn
  <2>4. QED
    BY <1>1, <2>1, <2>3
<1>5. QED
  BY <1>3, <1>4

\* Taking a run appends at most its length and stops at the cap.
LEMMA TakeIn ==
    ASSUME TypeOK, More, NEW r \in Run
    PROVE  /\ Take(r) \in Seq(Bytes)
           /\ Len(Take(r)) <= max_output
           /\ Len(Take(r)) <= Len(literals) + r.len
PROOF
<1>1. /\ compressed \in Seq(Bytes) /\ literals \in Seq(Bytes)
      /\ max_output \in Nat /\ Len(literals) < max_output
  BY BlockConstants DEF TypeOK, More
<1>2. r.len \in Nat /\ r.next \in Nat /\ r.next + r.len <= Len(compressed)
  BY RunIn
<1> DEFINE n == Least(r.len, max_output - Len(literals))
<1>3. n \in Nat /\ n <= r.len /\ n <= max_output - Len(literals)
  BY <1>1, <1>2 DEF Least
<1> HIDE DEF n
<1> DEFINE taken == SubSeq(compressed, r.next + 1, r.next + n)
<1>4. taken \in Seq(Bytes) /\ Len(taken) = n
  <2>1. r.next + 1 \in Int /\ r.next + n \in Int
    BY <1>2, <1>3
  <2>2. ASSUME NEW i \in (r.next + 1)..(r.next + n) PROVE compressed[i] \in Bytes
    <3>1. i \in 1..Len(compressed)
      BY <1>2, <1>3, <2>2
    <3>2. QED
      BY <1>1, <3>1
  <2> DEFINE first == r.next + 1
             last == r.next + n
  <2>3. first \in Int /\ last \in Int /\ \A i \in first..last : compressed[i] \in Bytes
    BY <2>1, <2>2
  <2>4. (IF first <= last THEN last - first + 1 ELSE 0) = n
    BY <1>2, <1>3
  <2> HIDE DEF first, last
  <2>5. /\ SubSeq(compressed, first, last) \in Seq(Bytes)
        /\ Len(SubSeq(compressed, first, last)) = IF first <= last THEN last - first + 1 ELSE 0
    BY <2>3, SubSeqProperties
  <2>6. QED
    BY <2>4, <2>5 DEF first, last
<1>5. Take(r) = literals \o taken
  BY DEF Take, n
<1> HIDE DEF taken
<1>6. Take(r) \in Seq(Bytes) /\ Len(Take(r)) = Len(literals) + n
  <2>1. literals \o taken \in Seq(Bytes) /\ Len(literals \o taken) = Len(literals) + Len(taken)
    BY <1>1, <1>4
  <2>2. QED
    BY <1>4, <1>5, <2>1
<1>7. QED
  BY <1>1, <1>2, <1>3, <1>6

-----------------------------------------------------------------------------
(* What an encoder writes, read back.                                      *)

\* A byte holds two halves of a token.
LEMMA Radix ==
  /\ NibbleMax \in Nat /\ NibbleMax > 0 /\ ByteMax \in Nat /\ ByteMax > 0 /\ MinMatch \in Nat
  /\ ByteMax + 1 = (NibbleMax + 1) * (NibbleMax + 1)
<1>1. NibbleMax \in Nat /\ NibbleMax > 0 /\ MinMatch \in Nat
  BY FormatConstants
<1>2. ByteMax = NibbleMax * (NibbleMax + 1) + NibbleMax
  BY FormatConstants
<1>3. NibbleMax * (NibbleMax + 1) \in Nat
  BY <1>1
<1>4. QED
  BY <1>1, <1>2, <1>3

\* Two halves of a token come apart again.
LEMMA TokenHalves ==
  ASSUME NEW a \in 0..NibbleMax, NEW b \in 0..NibbleMax
  PROVE  /\ a * (NibbleMax + 1) + b \in Bytes
         /\ (a * (NibbleMax + 1) + b) \div (NibbleMax + 1) = a
         /\ (a * (NibbleMax + 1) + b) % (NibbleMax + 1) = b
<1> DEFINE m == NibbleMax + 1
<1>1. a \in Nat /\ b \in Nat /\ m \in Nat /\ b < m /\ NibbleMax \in Nat /\ ByteMax = NibbleMax * m + NibbleMax
  BY FormatConstants
<1> HIDE DEF m
<1>2. (a * m + b) \div m = a /\ (a * m + b) % m = b
  BY <1>1, DivMod
<1>3. a * m + b \in 0..ByteMax
  <2>1. PICK d \in Nat : NibbleMax = a + d
    <3>1. NibbleMax - a \in Nat /\ NibbleMax = a + (NibbleMax - a)
      BY <1>1
    <3>2. QED
      BY <3>1
  <2>2. NibbleMax * m = a * m + d * m /\ d * m \in Nat /\ a * m \in Nat
    BY <1>1, <2>1
  <2>3. QED
    BY <1>1, <2>2
<1>4. QED
  BY <1>2, <1>3 DEF m, Bytes

\* The bytes of a length: all but the last are full.
LEMMA LengthBytesAre ==
  ASSUME NEW n \in Nat
  PROVE  /\ LengthBytes(n) \in Seq(Bytes)
         /\ n < NibbleMax => LengthBytes(n) = <<>>
         /\ n >= NibbleMax =>
              \E q \in Nat : \E r \in 0..(ByteMax - 1) :
                 /\ n = NibbleMax + q * ByteMax + r /\ Len(LengthBytes(n)) = q + 1
                 /\ LengthBytes(n)[q + 1] = r /\ \A j \in 1..q : LengthBytes(n)[j] = ByteMax
<1>1. CASE n < NibbleMax
  <2>1. LengthBytes(n) = <<>>
    BY <1>1 DEF LengthBytes
  <2>2. <<>> \in Seq(Bytes) /\ ~(n >= NibbleMax)
    BY <1>1, Radix
  <2>3. QED
    BY <2>1, <2>2
<1>2. CASE ~(n < NibbleMax)
  <2> DEFINE d == n - NibbleMax
             q == d \div ByteMax
             r == d % ByteMax
             full == [i \in 1..q |-> ByteMax]
  <2>1. d \in Nat /\ n = NibbleMax + d
    BY <1>2, Radix
  <2> HIDE DEF d
  <2>2. q \in Nat /\ r \in 0..(ByteMax - 1) /\ d = ByteMax * q + r
    BY <2>1, Radix
  <2> HIDE DEF q, r
  <2>3. LengthBytes(n) = full \o <<r>>
    BY <1>2 DEF LengthBytes, d, q, r
  <2>4. full \in Seq(Bytes) /\ Len(full) = q /\ \A j \in 1..q : full[j] = ByteMax
    <3>1. ByteMax \in Bytes
      BY Radix DEF Bytes
    <3>2. QED
      BY <2>2, <3>1
  <2>5. <<r>> \in Seq(Bytes) /\ Len(<<r>>) = 1 /\ <<r>>[1] = r
    <3>1. r \in Bytes
      BY <2>2, Radix DEF Bytes
    <3>2. QED
      BY <3>1
  <2> HIDE DEF full
  <2> DEFINE w == <<r>>
  <2>6. full \o w \in Seq(Bytes) /\ Len(full \o w) = q + 1 /\ (full \o w)[q + 1] = r
        /\ \A j \in 1..q : (full \o w)[j] = ByteMax
    <3>1. w \in Seq(Bytes) /\ Len(w) = 1 /\ w[1] = r
      BY <2>5
    <3> HIDE DEF w
    <3>a. /\ full \o w \in Seq(Bytes) /\ Len(full \o w) = Len(full) + Len(w)
          /\ \A j \in 1..(Len(full) + Len(w)) :
                (full \o w)[j] = IF j <= Len(full) THEN full[j] ELSE w[j - Len(full)]
      BY <2>4, <3>1, ConcatProperties, Zenon
    <3>2. full \o w \in Seq(Bytes) /\ Len(full \o w) = q + 1
          /\ \A j \in 1..(q + 1) : (full \o w)[j] = IF j <= q THEN full[j] ELSE w[j - q]
      BY <2>4, <3>1, <3>a
    <3>3. q + 1 \in 1..(q + 1) /\ ~(q + 1 <= q) /\ (q + 1) - q = 1
      BY <2>2
    <3>4. \A j \in 1..q : j \in 1..(q + 1) /\ j <= q
      BY <2>2
    <3>5. QED
      BY <2>4, <3>1, <3>2, <3>3, <3>4
  <2>7. q * ByteMax = ByteMax * q
    BY <2>2, Radix
  <2>8. n = NibbleMax + q * ByteMax + r
    BY <2>1, <2>2, <2>7, Radix
  <2>9. ~(n < NibbleMax)
    BY <1>2
  <2>10. QED
    BY <2>2, <2>3, <2>6, <2>8, <2>9
<1>3. QED
  BY <1>1, <1>2

\* decode_length reads back the length that was written at p, if its bytes are
\* all there, and refuses it otherwise.
LEMMA ReadsLength ==
  ASSUME compressed \in Seq(Bytes), MaxBlockSize \in Nat, NEW n \in Nat, n <= MaxBlockSize,
         NEW p \in 0..Len(compressed),
         \A j \in 1..Len(LengthBytes(n)) :
            p + j <= Len(compressed) => compressed[p + j] = LengthBytes(n)[j]
  PROVE  Length(p, Least(n, NibbleMax)) =
           IF p + Len(LengthBytes(n)) <= Len(compressed)
           THEN {[len |-> n, next |-> p + Len(LengthBytes(n))]} ELSE {}
<1>1. CASE n < NibbleMax
  <2>1. LengthBytes(n) = <<>> /\ Len(LengthBytes(n)) = 0 /\ Least(n, NibbleMax) = n /\ n # NibbleMax
    BY <1>1, LengthBytesAre, Radix DEF Least
  <2>2. p + 0 = p /\ p <= Len(compressed)
    OBVIOUS
  <2>3. QED
    BY <2>1, <2>2 DEF Length
<1>2. CASE ~(n < NibbleMax)
  <2>1. n >= NibbleMax /\ Least(n, NibbleMax) = NibbleMax
    BY <1>2, Radix DEF Least
  <2>2. PICK q \in Nat, r \in 0..(ByteMax - 1) :
           /\ n = NibbleMax + q * ByteMax + r /\ Len(LengthBytes(n)) = q + 1
           /\ LengthBytes(n)[q + 1] = r /\ \A j \in 1..q : LengthBytes(n)[j] = ByteMax
    BY <2>1, LengthBytesAre
  <2> DEFINE ks == {k \in 0..(Len(compressed) - p - 1) :
                      /\ compressed[p + k + 1] < ByteMax
                      /\ \A j \in 0..(k - 1) : compressed[p + j + 1] = ByteMax
                      /\ k > 0 => NibbleMax + k * ByteMax <= MaxBlockSize}
             l == Len(compressed)
  <2>3. Length(p, Least(n, NibbleMax)) =
          {[len |-> NibbleMax + k * ByteMax + compressed[p + k + 1], next |-> p + k + 1] : k \in ks}
    BY <2>1 DEF Length, DecodeLength
  <2>4. l \in Nat /\ p \in Nat /\ p <= l
    OBVIOUS
  <2>5. \A j \in 0..(q - 1) : p + j + 1 <= l => compressed[p + j + 1] = ByteMax
    <3>1. SUFFICES ASSUME NEW j \in 0..(q - 1), p + j + 1 <= l PROVE compressed[p + j + 1] = ByteMax
      OBVIOUS
    <3>2. j + 1 \in 1..q /\ j + 1 \in 1..(q + 1) /\ p + (j + 1) = p + j + 1
      BY <2>2, <2>4
    <3>3. QED
      BY <2>2, <3>1, <3>2
  <2>6. p + q + 1 <= l => compressed[p + q + 1] = r
    <3>1. q + 1 \in 1..(q + 1) /\ p + (q + 1) = p + q + 1
      BY <2>2, <2>4
    <3>2. QED
      BY <2>2, <3>1
  <2>7. q * ByteMax \in Nat /\ NibbleMax + q * ByteMax <= MaxBlockSize
    <3>1. q * ByteMax \in Nat
      BY <2>2, Radix
    <3>2. QED
      BY <2>2, <3>1, Radix
  <2>8. CASE p + q + 1 <= l
    <3>1. q \in ks
      <4>1. q \in 0..(l - p - 1)
        BY <2>2, <2>4, <2>8
      <4>2. compressed[p + q + 1] < ByteMax
        BY <2>2, <2>6, <2>8, Radix
      <4>3. ASSUME NEW j \in 0..(q - 1) PROVE compressed[p + j + 1] = ByteMax
        <5>1. p + j + 1 <= l
          BY <2>2, <2>4, <2>8
        <5>2. QED
          BY <2>5, <5>1
      <4>4. QED
        BY <2>7, <4>1, <4>2, <4>3
    <3>2. ASSUME NEW k \in ks PROVE k = q
      <4>1. k \in Nat /\ p + k + 1 <= l /\ compressed[p + k + 1] < ByteMax
            /\ \A j \in 0..(k - 1) : compressed[p + j + 1] = ByteMax
        BY <2>4, <3>2
      <4>2. CASE k < q
        <5>1. k \in 0..(q - 1)
          BY <2>2, <4>1, <4>2
        <5>2. compressed[p + k + 1] = ByteMax
          BY <2>5, <4>1, <5>1
        <5>3. QED
          BY <4>1, <5>2, Radix
      <4>3. CASE q < k
        <5>1. q \in 0..(k - 1)
          BY <2>2, <4>1, <4>3
        <5>2. compressed[p + q + 1] = ByteMax
          BY <4>1, <5>1
        <5>3. QED
          BY <2>2, <2>6, <2>8, <5>2, Radix
      <4>4. QED
        BY <2>2, <4>1, <4>2, <4>3
    <3> HIDE DEF ks
    <3>3. ks = {q}
      BY <3>1, <3>2
    <3>4. Length(p, Least(n, NibbleMax)) =
            {[len |-> NibbleMax + q * ByteMax + compressed[p + q + 1], next |-> p + q + 1]}
      BY <2>3, <3>3
    <3>5. compressed[p + q + 1] = r /\ p + (q + 1) = p + q + 1
      BY <2>2, <2>4, <2>6, <2>8
    <3>6. QED
      BY <2>2, <2>8, <3>4, <3>5
  <2>9. CASE ~(p + q + 1 <= l)
    <3>1. ASSUME NEW k \in ks PROVE FALSE
      <4>1. k \in Nat /\ p + k + 1 <= l /\ compressed[p + k + 1] < ByteMax
        BY <2>4, <3>1
      <4>2. k \in 0..(q - 1)
        BY <2>2, <2>4, <2>9, <4>1
      <4>3. compressed[p + k + 1] = ByteMax
        BY <2>5, <4>1, <4>2
      <4>4. QED
        BY <4>1, <4>3, Radix
    <3> HIDE DEF ks
    <3>2. ks = {}
      BY <3>1
    <3>3. Length(p, Least(n, NibbleMax)) = {}
      BY <2>3, <3>2
    <3>4. p + (q + 1) = p + q + 1
      BY <2>2, <2>4
    <3>5. QED
      BY <2>2, <2>9, <3>3, <3>4
  <2>10. QED
    BY <2>8, <2>9
<1>3. QED
  BY <1>1, <1>2

\* What is written of the length of a copy.
Match(x) == x.match - MinMatch

\* Where the parts of an encoded sequence stand: the token, the bytes b of the
\* run's length, the run, the offset, the bytes m of the copy's length.
IsSequence(e, x, last, b, m, p) ==
  /\ e \in Seq(Bytes) /\ Len(e) \in Nat /\ Len(b) \in Nat /\ p \in Nat /\ p = 1 + Len(b)
  /\ last => Len(e) = p + Len(x.lits)
  /\ ~last => Len(m) \in Nat /\ Len(e) = p + Len(x.lits) + 2 + Len(m)
  /\ e[1] \div (NibbleMax + 1) = Least(Len(x.lits), NibbleMax)
  /\ ~last => e[1] % (NibbleMax + 1) = Least(Match(x), NibbleMax)
  /\ \A j \in 1..Len(b) : e[1 + j] = b[j]
  /\ \A j \in 1..Len(x.lits) : e[p + j] = x.lits[j]
  /\ ~last => \A j \in 1..Len(m) : e[p + Len(x.lits) + 2 + j] = m[j]

\* EncodeSequence writes them there.
LEMMA SequenceIs ==
  ASSUME NEW x \in SourceSequences, NEW last \in BOOLEAN,
         ~last => Match(x) \in Nat /\ x.offset \div (ByteMax + 1) \in Bytes,
         NEW e, e = EncodeSequence(x, last),
         NEW b, b = LengthBytes(Len(x.lits)), NEW m, m = LengthBytes(Match(x)),
         NEW p, p = 1 + Len(b)
  PROVE  IsSequence(e, x, last, b, m, p)
<1> DEFINE copied == IF last THEN 0 ELSE Match(x)
           token == Least(Len(x.lits), NibbleMax) * (NibbleMax + 1) + Least(copied, NibbleMax)
           head == <<token>>
           tail == IF last THEN <<>>
                   ELSE <<x.offset % (ByteMax + 1), x.offset \div (ByteMax + 1)>> \o LengthBytes(copied)
           lits == x.lits
<1>1. e = ((head \o b) \o lits) \o tail
  BY DEF EncodeSequence, Match
<1>2. lits \in Seq(Bytes) /\ Len(lits) \in Nat /\ copied \in Nat
  BY DEF SourceSequences
<1>3. /\ token \in Bytes /\ token \div (NibbleMax + 1) = Least(Len(lits), NibbleMax)
      /\ token % (NibbleMax + 1) = Least(copied, NibbleMax)
  <2>1. Least(Len(lits), NibbleMax) \in 0..NibbleMax /\ Least(copied, NibbleMax) \in 0..NibbleMax
    BY <1>2, Radix DEF Least
  <2>2. QED
    BY <2>1, TokenHalves
<1>4. b \in Seq(Bytes) /\ Len(b) \in Nat
  BY <1>2, LengthBytesAre
<1>5. head \in Seq(Bytes) /\ Len(head) = 1 /\ head[1] = token
  BY <1>3
<1>6. /\ tail \in Seq(Bytes) /\ Len(tail) = (IF last THEN 0 ELSE 2 + Len(m))
      /\ ~last => Len(m) \in Nat /\ \A j \in 1..Len(m) : tail[2 + j] = m[j]
  <2>1. CASE last
    BY <2>1
  <2>2. CASE ~last
    <3> DEFINE o == <<x.offset % (ByteMax + 1), x.offset \div (ByteMax + 1)>>
    <3>1. x.offset % (ByteMax + 1) \in Bytes
      <4>1. x.offset \in Nat
        BY DEF SourceSequences
      <4>2. QED
        BY <4>1, Radix DEF Bytes
    <3>2. o \in Seq(Bytes) /\ Len(o) = 2
      BY <2>2, <3>1
    <3> HIDE DEF o
    <3>3. m \in Seq(Bytes) /\ Len(m) \in Nat
      BY <2>2, LengthBytesAre
    <3>4. tail = o \o m
      BY <2>2 DEF o
    <3>a. o \o m \in Seq(Bytes) /\ IsJoin(o \o m, o, m)
      BY <3>2, <3>3, Joined
    <3>5. o \o m \in Seq(Bytes) /\ Len(o \o m) = 2 + Len(m) /\ \A j \in 1..Len(m) : (o \o m)[2 + j] = m[j]
      BY <3>2, <3>3, <3>a DEF IsJoin
    <3>6. QED
      BY <2>2, <3>3, <3>4, <3>5
  <2>3. QED
    BY <2>1, <2>2
<1>7. ~last => copied = Match(x)
  OBVIOUS
<1> HIDE DEF head, tail, copied, token, lits
<1> DEFINE hb == head \o b
           hbl == hb \o lits
<1>8. /\ hb \in Seq(Bytes) /\ Len(hb) = p /\ hb[1] = token /\ p \in Nat /\ p > 0
      /\ \A j \in 1..Len(b) : hb[1 + j] = b[j]
  <2>a. head \o b \in Seq(Bytes) /\ IsJoin(head \o b, head, b)
    BY <1>4, <1>5, Joined
  <2>1. /\ hb \in Seq(Bytes) /\ Len(hb) = Len(head) + Len(b) /\ \A j \in 1..Len(head) : hb[j] = head[j]
        /\ \A j \in 1..Len(b) : hb[Len(head) + j] = b[j]
    BY <2>a DEF IsJoin
  <2>2. 1 \in 1..1
    OBVIOUS
  <2>3. QED
    BY <1>4, <1>5, <2>1, <2>2
<1> HIDE DEF hb
<1>9. /\ hbl \in Seq(Bytes) /\ Len(hbl) = p + Len(lits)
      /\ \A j \in 1..p : hbl[j] = hb[j]
      /\ \A j \in 1..Len(lits) : hbl[p + j] = lits[j]
  <2>a. hb \o lits \in Seq(Bytes) /\ IsJoin(hb \o lits, hb, lits)
    BY <1>2, <1>8, Joined
  <2>1. /\ hbl \in Seq(Bytes) /\ Len(hbl) = Len(hb) + Len(lits) /\ \A j \in 1..Len(hb) : hbl[j] = hb[j]
        /\ \A j \in 1..Len(lits) : hbl[Len(hb) + j] = lits[j]
    BY <2>a DEF IsJoin
  <2>2. QED
    BY <1>8, <2>1
<1> HIDE DEF hbl
<1>10. /\ e \in Seq(Bytes) /\ Len(e) = p + Len(lits) + Len(tail)
       /\ \A j \in 1..(p + Len(lits)) : e[j] = hbl[j]
       /\ \A j \in 1..Len(tail) : e[p + Len(lits) + j] = tail[j]
  <2>1. e = hbl \o tail
    BY <1>1 DEF hbl, hb
  <2>a. hbl \o tail \in Seq(Bytes) /\ IsJoin(hbl \o tail, hbl, tail)
    BY <1>6, <1>9, Joined
  <2>2. /\ e \in Seq(Bytes) /\ Len(e) = Len(hbl) + Len(tail) /\ \A j \in 1..Len(hbl) : e[j] = hbl[j]
        /\ \A j \in 1..Len(tail) : e[Len(hbl) + j] = tail[j]
    BY <2>1, <2>a DEF IsJoin
  <2>3. QED
    BY <1>9, <2>2
<1>11. \A j \in 1..p : e[j] = hb[j]
  <2>1. SUFFICES ASSUME NEW j \in 1..p PROVE e[j] = hb[j]
    OBVIOUS
  <2>2. j \in 1..(p + Len(lits))
    BY <1>2, <1>8
  <2>3. QED
    BY <1>9, <1>10, <2>2
<1>12. e[1] = token
  <2>1. 1 \in 1..p
    BY <1>8
  <2>2. QED
    BY <1>8, <1>11, <2>1
<1>13. \A j \in 1..Len(b) : e[1 + j] = b[j]
  <2>1. SUFFICES ASSUME NEW j \in 1..Len(b) PROVE e[1 + j] = b[j]
    OBVIOUS
  <2>2. 1 + j \in 1..p
    BY <1>4
  <2>3. QED
    BY <1>8, <1>11, <2>2
<1>14. \A j \in 1..Len(lits) : e[p + j] = lits[j]
  <2>1. SUFFICES ASSUME NEW j \in 1..Len(lits) PROVE e[p + j] = lits[j]
    OBVIOUS
  <2>2. p + j \in 1..(p + Len(lits))
    BY <1>2, <1>8
  <2>3. QED
    BY <1>9, <1>10, <2>2
<1>15. ASSUME ~last, NEW j \in 1..Len(m) PROVE e[p + Len(lits) + 2 + j] = m[j]
  <2>1. Len(m) \in Nat /\ 2 + j \in 1..Len(tail) /\ tail[2 + j] = m[j]
    BY <1>6, <1>15
  <2>2. e[p + Len(lits) + (2 + j)] = m[j]
    BY <1>10, <2>1
  <2>3. p + Len(lits) + (2 + j) = p + Len(lits) + 2 + j
    BY <1>2, <1>8, <2>1
  <2>4. QED
    BY <2>2, <2>3
<1>16. e[1] \div (NibbleMax + 1) = Least(Len(x.lits), NibbleMax)
  BY <1>3, <1>12 DEF lits
<1>17. (last => Len(e) = p + Len(x.lits)) /\ (~last => Len(m) \in Nat /\ Len(e) = p + Len(x.lits) + 2 + Len(m))
  <2>1. Len(e) = p + Len(lits) + Len(tail)
    BY <1>10
  <2>2. last => Len(tail) = 0
    BY <1>6
  <2>3. ~last => Len(m) \in Nat /\ Len(tail) = 2 + Len(m)
    BY <1>6
  <2>4. Len(lits) \in Nat /\ p \in Nat
    BY <1>2, <1>8
  <2>5. last => Len(e) = p + Len(lits)
    BY <2>1, <2>2, <2>4
  <2>6. ~last => Len(e) = p + Len(lits) + 2 + Len(m)
    BY <2>1, <2>3, <2>4, SMTT(30)
  <2>7. QED
    BY <2>3, <2>5, <2>6 DEF lits
<1>18. ~last => e[1] % (NibbleMax + 1) = Least(Match(x), NibbleMax)
  BY <1>3, <1>7, <1>12
<1>19. Len(e) \in Nat
  BY <1>10
<1>20. QED
  BY <1>4, <1>8, <1>10, <1>13, <1>14, <1>15, <1>16, <1>17, <1>18, <1>19 DEF lits, IsSequence

\* The sequences of a source as they are encoded, and their runs; what is
\* written and what is stored up to the k-th.
Pieces(s) == [i \in DOMAIN s |-> EncodeSequence(s[i], i = Len(s))]
Runs(s) == [i \in DOMAIN s |-> s[i].lits]
Written(s, k) == FlatTo(Pieces(s), k)
Stored(s, k) == FlatTo(Runs(s), k)

\* The pieces and the runs of a source are sequences of bytes, and Encode and
\* LiteralsIn lay them end to end.
LEMMA SourceIs ==
  ASSUME NEW s, Encodable(s), WellFormed(s)
  PROVE  /\ Len(s) \in Nat /\ DOMAIN s = 1..Len(s)
         /\ \A i \in 1..Len(s) :
              /\ s[i] \in SourceSequences
              /\ Len(s[i].lits) \in Nat /\ Len(s[i].lits) <= MaxBlockSize
              /\ i # Len(s) => /\ Match(s[i]) \in Nat /\ Match(s[i]) <= MaxBlockSize
                               /\ s[i].offset \div (ByteMax + 1) \in Bytes
         /\ Pieces(s) \in Seq(Seq(Bytes)) /\ Len(Pieces(s)) = Len(s)
         /\ Runs(s) \in Seq(Seq(Bytes)) /\ Len(Runs(s)) = Len(s)
         /\ Encode(s) = FlattenSeq(Pieces(s)) /\ LiteralsIn(s) = FlattenSeq(Runs(s))
<1>1. s \in Seq(SourceSequences)
  BY DEF Encodable
<1>2. Len(s) \in Nat /\ DOMAIN s = 1..Len(s) /\ \A i \in 1..Len(s) : s[i] \in SourceSequences
  BY <1>1
<1>3. ASSUME NEW i \in 1..Len(s)
      PROVE  /\ Len(s[i].lits) \in Nat /\ Len(s[i].lits) <= MaxBlockSize /\ s[i].lits \in Seq(Bytes)
             /\ i # Len(s) => /\ Match(s[i]) \in Nat /\ Match(s[i]) <= MaxBlockSize
                              /\ s[i].offset \div (ByteMax + 1) \in Bytes
  <2>1. s[i].lits \in Seq(Bytes) /\ s[i].match \in Nat
    BY <1>2 DEF SourceSequences
  <2>2. Len(s[i].lits) \in Nat /\ Len(s[i].lits) <= MaxBlockSize
    BY <1>2, <2>1 DEF Encodable
  <2>3. ASSUME i # Len(s)
        PROVE  /\ Match(s[i]) \in Nat /\ Match(s[i]) <= MaxBlockSize
               /\ s[i].offset \div (ByteMax + 1) \in Bytes
    <3>1. i \in 1..(Len(s) - 1)
      <4>1. Len(s) \in Nat /\ i \in 1..Len(s) /\ i # Len(s)
        BY <1>2, <1>3, <2>3
      <4>2. QED
        BY <4>1
    <3>2. s[i].match >= MinMatch
      BY <3>1 DEF WellFormed
    <3>3. s[i].match - MinMatch <= MaxBlockSize /\ s[i].offset \div (ByteMax + 1) \in Bytes
      BY <3>1 DEF Encodable
    <3>4. QED
      BY <2>1, <3>2, <3>3, Radix, SMTT(30) DEF Match
  <2>4. QED
    BY <2>1, <2>2, <2>3
<1>4. ASSUME NEW i \in 1..Len(s) PROVE EncodeSequence(s[i], i = Len(s)) \in Seq(Bytes)
  <2> DEFINE last == (i = Len(s))
  <2>1. last \in BOOLEAN /\ s[i] \in SourceSequences
    BY <1>2
  <2>2. ~last => Match(s[i]) \in Nat /\ s[i].offset \div (ByteMax + 1) \in Bytes
    BY <1>3
  <2> HIDE DEF last
  <2>3. EncodeSequence(s[i], last) \in Seq(Bytes)
    BY <2>1, <2>2, SequenceIs DEF IsSequence
  <2>4. QED
    BY <2>3 DEF last
<1>5. Pieces(s) \in Seq(Seq(Bytes)) /\ Len(Pieces(s)) = Len(s)
  <2> DEFINE f == Pieces(s)
  <2>1. f = [i \in 1..Len(s) |-> EncodeSequence(s[i], i = Len(s))]
    BY <1>2 DEF Pieces
  <2>2. f = [i \in 1..Len(s) |-> f[i]] /\ \A i \in 1..Len(s) : f[i] = EncodeSequence(s[i], i = Len(s))
    BY <2>1
  <2> HIDE DEF f
  <2>3. \A i \in 1..Len(s) : f[i] \in Seq(Bytes)
    BY <1>4, <2>2
  <2>4. f \in Seq(Seq(Bytes)) /\ Len(f) = Len(s)
    BY <1>2, <2>2, <2>3, ASequence
  <2>5. QED
    BY <2>4 DEF f
<1>6. Runs(s) \in Seq(Seq(Bytes)) /\ Len(Runs(s)) = Len(s)
  <2> DEFINE f == Runs(s)
  <2>1. f = [i \in 1..Len(s) |-> s[i].lits]
    BY <1>2 DEF Runs
  <2>2. f = [i \in 1..Len(s) |-> f[i]] /\ \A i \in 1..Len(s) : f[i] = s[i].lits
    BY <2>1
  <2> HIDE DEF f
  <2>3. \A i \in 1..Len(s) : f[i] \in Seq(Bytes)
    BY <1>3, <2>2
  <2>4. f \in Seq(Seq(Bytes)) /\ Len(f) = Len(s)
    BY <1>2, <2>2, <2>3, ASequence
  <2>5. QED
    BY <2>4 DEF f
<1>7. Encode(s) = FlattenSeq(Pieces(s)) /\ LiteralsIn(s) = FlattenSeq(Runs(s))
  BY DEF Encode, LiteralsIn, Pieces, Runs
<1>8. QED
  BY <1>2, <1>3, <1>5, <1>6, <1>7

\* One sequence further.
LEMMA WrittenStep ==
  ASSUME NEW s, Encodable(s), WellFormed(s), NEW k \in 1..Len(s)
  PROVE  /\ Written(s, k - 1) \in Seq(Bytes) /\ Written(s, k) \in Seq(Bytes) /\ Pieces(s)[k] \in Seq(Bytes)
         /\ IsJoin(Written(s, k), Written(s, k - 1), Pieces(s)[k])
         /\ Stored(s, k - 1) \in Seq(Bytes) /\ s[k].lits \in Seq(Bytes)
         /\ Stored(s, k) = Stored(s, k - 1) \o s[k].lits
<1>1. /\ Len(s) \in Nat /\ Pieces(s) \in Seq(Seq(Bytes)) /\ Len(Pieces(s)) = Len(s)
      /\ Runs(s) \in Seq(Seq(Bytes)) /\ Len(Runs(s)) = Len(s) /\ DOMAIN s = 1..Len(s)
  BY SourceIs
<1>2. k - 1 \in 0..Len(s) /\ k \in 0..Len(s)
  BY <1>1
<1>3. Written(s, k - 1) \in Seq(Bytes) /\ Written(s, k) \in Seq(Bytes) /\ Pieces(s)[k] \in Seq(Bytes)
  BY <1>1, <1>2, FlatToType DEF Written
<1>4. Written(s, k) = Written(s, k - 1) \o Pieces(s)[k]
  BY <1>1, FlatToSteps DEF Written
<1>5. Stored(s, k - 1) \in Seq(Bytes) /\ Runs(s)[k] = s[k].lits /\ Runs(s)[k] \in Seq(Bytes)
  <2>1. Stored(s, k - 1) \in Seq(Bytes)
    BY <1>1, <1>2, FlatToType DEF Stored
  <2>2. Runs(s)[k] = s[k].lits
    BY <1>1 DEF Runs
  <2>3. QED
    BY <1>1, <2>1, <2>2
<1>6. Stored(s, k) = Stored(s, k - 1) \o Runs(s)[k]
  BY <1>1, FlatToSteps DEF Stored
<1>7. QED
  BY <1>3, <1>4, <1>5, <1>6, Joined

\* What is written up to the k-th sequence begins the whole block.
LEMMA WrittenWithin ==
  ASSUME NEW s, Encodable(s), WellFormed(s), NEW k \in 0..Len(s)
  PROVE  /\ Written(s, k) \in Seq(Bytes) /\ Encode(s) \in Seq(Bytes)
         /\ Len(Written(s, k)) <= Len(Encode(s)) /\ Encode(s) = Written(s, Len(s))
         /\ \A j \in 1..Len(Written(s, k)) : Encode(s)[j] = Written(s, k)[j]
<1>1. /\ Len(s) \in Nat /\ Pieces(s) \in Seq(Seq(Bytes)) /\ Len(Pieces(s)) = Len(s)
      /\ Encode(s) = FlattenSeq(Pieces(s))
  BY SourceIs
<1>2. Len(s) \in 0..Len(s)
  BY <1>1
<1>3. Written(s, k) \in Seq(Bytes) /\ Written(s, Len(s)) \in Seq(Bytes)
  BY <1>1, <1>2, FlatToType DEF Written
<1>4. Encode(s) = Written(s, Len(s))
  BY <1>1, FlatToSteps DEF Written
<1>5. /\ Len(Written(s, k)) <= Len(Encode(s))
      /\ \A j \in 1..Len(Written(s, k)) : Encode(s)[j] = Written(s, k)[j]
  BY <1>1, FlatToPrefix DEF Written
<1>6. QED
  BY <1>3, <1>4, <1>5

-----------------------------------------------------------------------------
(* The bounds.                                                             *)

\* Extraction starts before the first byte with nothing gathered.
THEOREM InitInv == Init => IInv
PROOF
<1> SUFFICES ASSUME Init PROVE IInv
  OBVIOUS
<1>1. compressed \in Seq(Bytes) /\ \A s \in source : Encodable(s)
  <2>1. CASE \E s \in Sources : \E n \in 0..Len(Encode(s)) :
                source = {s} /\ compressed = SubSeq(Encode(s), 1, n)
    <3>1. PICK s \in Sources : \E n \in 0..Len(Encode(s)) :
            source = {s} /\ compressed = SubSeq(Encode(s), 1, n)
      BY <2>1
    <3>1a. Encodable(s) /\ WellFormed(s)
      BY BlockConstants
    <3>1b. Len(s) \in 0..Len(s)
      BY <3>1a, SourceIs
    <3>2. Encode(s) \in Seq(Bytes)
      BY <3>1a, <3>1b, WrittenWithin
    <3>3. PICK n \in 0..Len(Encode(s)) : source = {s} /\ compressed = SubSeq(Encode(s), 1, n)
      BY <3>1
    <3>4. SubSeq(Encode(s), 1, n) \in Seq(Bytes)
      BY <3>2, SubSeqProperties
    <3>5. QED
      BY <3>1a, <3>3, <3>4
  <2>2. CASE source = {} /\ compressed \in Arbitrary
    BY <2>2, BlockConstants
  <2>3. QED
    BY <2>1, <2>2 DEF Init
<1>2. max_output \in Nat
  BY BlockConstants DEF Init
<1>3. QED
  BY <1>1, <1>2 DEF Init, IInv, TypeOK, CapacitySuffices

\* Each pass of the loop, and each way out of it, keeps both.
THEOREM StepInv == IInv /\ [Next]_vars => IInv'
PROOF
<1> SUFFICES ASSUME IInv, [Next]_vars PROVE IInv'
  OBVIOUS
<1>1. CASE Sequence
  <2>1. TypeOK /\ More /\ CapacitySuffices
    BY <1>1 DEF IInv, Sequence
  <2>2. PICK r \in Run : \E next \in AfterCopy(r.next + r.len) :
          pos' = next /\ literals' = Take(r) /\ sequence_count' = sequence_count + 1
    BY <1>1 DEF Sequence
  <2>p. PICK next \in AfterCopy(r.next + r.len) :
          pos' = next /\ literals' = Take(r) /\ sequence_count' = sequence_count + 1
    BY <2>2
  <2>3. UNCHANGED <<source, compressed, max_output, status>>
    BY <1>1 DEF Sequence
  <2>4. /\ Len(compressed) \in Nat /\ pos \in 0..Len(compressed)
        /\ Len(literals) \in Nat /\ sequence_count \in Nat
        /\ Len(literals) + sequence_count <= pos
    BY <2>1 DEF TypeOK, CapacitySuffices
  <2>5. /\ r.len \in Nat /\ r.next \in Nat /\ r.next >= pos + 1
        /\ r.next + r.len <= Len(compressed)
    BY <2>1, <2>2, RunIn
  <2>6. r.next + r.len \in 0..Len(compressed)
    BY <2>4, <2>5
  <2>7. next \in (r.next + r.len)..Len(compressed)
    BY <2>1, <2>p, <2>6, AfterCopyIn
  <2>8. /\ Take(r) \in Seq(Bytes) /\ Len(Take(r)) \in Nat
        /\ Len(Take(r)) <= max_output
        /\ Len(Take(r)) <= Len(literals) + r.len
    BY <2>1, <2>2, TakeIn
  <2>9. TypeOK'
    <3>1. pos' \in 0..Len(compressed')
      BY <2>p, <2>3, <2>4, <2>6, <2>7
    <3>2. literals' \in Seq(Bytes) /\ Len(literals') <= max_output'
      BY <2>p, <2>3, <2>8
    <3>3. sequence_count' \in Nat
      BY <2>p, <2>4
    <3>4. QED
      BY <2>1, <2>3, <3>1, <3>2, <3>3 DEF TypeOK
  <2>10. CapacitySuffices'
    <3>1. Len(literals') + sequence_count' <= pos'
      BY <2>p, <2>4, <2>5, <2>7, <2>8
    <3>2. QED
      BY <3>1 DEF CapacitySuffices
  <2>11. QED
    BY <2>9, <2>10 DEF IInv
<1>2. CASE Refuse
  BY <1>2 DEF IInv, TypeOK, CapacitySuffices, Refuse
<1>3. CASE Return
  BY <1>3 DEF IInv, TypeOK, CapacitySuffices, Return
<1>4. CASE UNCHANGED vars
  BY <1>4 DEF IInv, TypeOK, CapacitySuffices, vars
<1>5. QED
  BY <1>1, <1>2, <1>3, <1>4 DEF Next

\* The invariant holds of every reachable state.
THEOREM Invariance == Spec => []IInv
PROOF
<1>1. QED
  BY InitInv, StepInv, PTL DEF Spec

\* extract_literals never reads past the block nor gathers past max_output.
THEOREM TypeCorrect == Spec => []TypeOK
PROOF
<1>1. IInv => TypeOK
  BY DEF IInv
<1>2. QED
  BY <1>1, Invariance, PTL

\* The capacity reserved up front is never outgrown: the literals and the
\* sequences together are no more than the bytes read.
THEOREM CapacitySufficesCorrect == Spec => []CapacitySuffices
PROOF
<1>1. IInv => CapacitySuffices
  BY DEF IInv
<1>2. QED
  BY <1>1, Invariance, PTL

-----------------------------------------------------------------------------
(* The parser follows the encoder.                                         *)

\* As much of g as the cap allows.
Cut(g, max) == SubSeq(g, 1, Least(Len(g), max))

\* The block is what was encoded, whole or cut short.
CutFrom(s) == \E n \in 0..Len(Encode(s)) : compressed = SubSeq(Encode(s), 1, n)

\* The parser stands behind as many sequences as it has counted, or at the end
\* of a block that was cut within the last of them, and has gathered their runs
\* up to the cap.
Follows(s) ==
  /\ CutFrom(s)
  /\ sequence_count <= Len(s)
  /\ pos <= Len(Written(s, sequence_count))
  /\ pos < Len(compressed) => pos = Len(Written(s, sequence_count))
  /\ literals = Cut(Stored(s, sequence_count), max_output)
  /\ status = "error" /\ Intact(s) => Len(s) >= MaxSequences
  /\ status = "ok" => ~More

\* What stands at the position, if the loop goes on, is the next sequence.
LEMMA AtPiece ==
  ASSUME NEW s, Encodable(s), WellFormed(s), TypeOK, More, Follows(s)
  PROVE  /\ sequence_count + 1 \in 1..Len(s) /\ pos = Len(Written(s, sequence_count))
         /\ Len(Written(s, sequence_count + 1)) = pos + Len(Pieces(s)[sequence_count + 1])
         /\ Len(compressed) <= Len(Encode(s))
         /\ Len(Written(s, sequence_count + 1)) <= Len(Encode(s))
         /\ \A j \in 1..Len(Pieces(s)[sequence_count + 1]) :
              pos + j <= Len(compressed) => compressed[pos + j] = Pieces(s)[sequence_count + 1][j]
<1> DEFINE k == sequence_count
           w == Encode(s)
           l == Len(compressed)
<1>1. k \in Nat /\ l \in Nat /\ pos \in Nat /\ Len(s) \in Nat
  BY SourceIs DEF TypeOK
<1>2. k <= Len(s) /\ pos < l /\ pos = Len(Written(s, k))
  BY DEF More, Follows
<1>3. PICK n \in 0..Len(w) : compressed = SubSeq(w, 1, n)
  BY DEF Follows, CutFrom
<1>4. k \in 0..Len(s) /\ Len(s) \in 0..Len(s)
  BY <1>1, <1>2
<1>5. w \in Seq(Bytes) /\ w = Written(s, Len(s))
  BY <1>4, WrittenWithin
<1>6. l = n /\ l <= Len(w) /\ \A j \in 1..l : compressed[j] = w[j]
  BY <1>3, <1>5
<1>7. k # Len(s)
  BY <1>1, <1>2, <1>5, <1>6
<1>8. k + 1 \in 1..Len(s) /\ k + 1 \in 0..Len(s) /\ (k + 1) - 1 = k
  BY <1>1, <1>2, <1>7
<1> DEFINE e == Pieces(s)[k + 1]
           v == Written(s, k + 1)
           u == Written(s, k)
<1>9. /\ u \in Seq(Bytes) /\ v \in Seq(Bytes) /\ e \in Seq(Bytes) /\ IsJoin(v, u, e)
  <2>1. /\ Written(s, (k + 1) - 1) \in Seq(Bytes) /\ v \in Seq(Bytes) /\ e \in Seq(Bytes)
        /\ IsJoin(v, Written(s, (k + 1) - 1), e)
    BY <1>8, WrittenStep
  <2>2. QED
    BY <1>8, <2>1
<1>10. Len(v) <= Len(w) /\ \A j \in 1..Len(v) : w[j] = v[j]
  BY <1>8, WrittenWithin
<1> HIDE DEF e, v, u, w, l
<1>11. Len(v) = pos + Len(e) /\ Len(e) \in Nat
  BY <1>2, <1>9 DEF IsJoin, u
<1>12. ASSUME NEW j \in 1..Len(e), pos + j <= l PROVE compressed[pos + j] = e[j]
  <2>1. pos + j \in 1..l /\ pos + j \in 1..Len(v)
    BY <1>1, <1>11, <1>12
  <2>2. compressed[pos + j] = v[pos + j]
    BY <1>6, <1>10, <2>1
  <2>3. v[pos + j] = e[j]
    BY <1>2, <1>9 DEF IsJoin, u
  <2>4. QED
    BY <2>2, <2>3
<1>13. QED
  BY <1>2, <1>6, <1>8, <1>10, <1>11, <1>12 DEF e, v, u, w, l

\* The sequence the parser comes to next: x, the last or not, with n literals,
\* b and m the bytes of its lengths, its run from p on and its end at v.
Parts(s, x, last, b, m, p, n, v) ==
  /\ x = s[sequence_count + 1] /\ last = (sequence_count + 1 = Len(s))
  /\ n = Len(x.lits) /\ b = LengthBytes(n) /\ m = LengthBytes(Match(x))
  /\ p = pos + 1 + Len(b) /\ v = Len(Written(s, sequence_count + 1))

\* The sequence at the position, with its parts, in as much of the block as
\* there is: v is where the encoder ended it.
IsHere(s, x, last, b, m, p, n, v) ==
  /\ v \in Nat /\ v <= Len(Encode(s)) /\ v = Len(Written(s, sequence_count + 1))
  /\ last => v = p + n
  /\ ~last => Len(m) \in Nat /\ v = p + n + 2 + Len(m)
  /\ compressed[pos + 1] \div (NibbleMax + 1) = Least(n, NibbleMax)
  /\ ~last => compressed[pos + 1] % (NibbleMax + 1) = Least(Match(x), NibbleMax)
  /\ \A j \in 1..Len(b) : pos + 1 + j <= Len(compressed) => compressed[pos + 1 + j] = b[j]
  /\ \A j \in 1..n : p + j <= Len(compressed) => compressed[p + j] = x.lits[j]
  /\ ~last => \A j \in 1..Len(m) :
                 p + n + 2 + j <= Len(compressed) => compressed[p + n + 2 + j] = m[j]

\* It is found there.
LEMMA PieceHere ==
  ASSUME NEW s, Encodable(s), WellFormed(s), TypeOK, More, Follows(s),
         NEW x, NEW last, NEW b, NEW m, NEW p, NEW n, NEW v, Parts(s, x, last, b, m, p, n, v)
  PROVE  /\ sequence_count \in Nat /\ Len(s) \in Nat /\ sequence_count + 1 \in 1..Len(s) /\ last \in BOOLEAN
         /\ pos \in Nat /\ pos = Len(Written(s, sequence_count))
         /\ compressed \in Seq(Bytes) /\ Len(compressed) \in Nat /\ pos + 1 <= Len(compressed)
         /\ Len(compressed) <= Len(Encode(s))
         /\ Len(b) \in Nat /\ n \in Nat /\ n <= MaxBlockSize /\ p \in Nat /\ x.lits \in Seq(Bytes)
         /\ ~last => Match(x) \in Nat /\ Match(x) <= MaxBlockSize
         /\ IsHere(s, x, last, b, m, p, n, v)
<1> DEFINE k == sequence_count + 1
           e == Pieces(s)[k]
           z == 1 + Len(b)
           l == Len(compressed)
           w == Len(Encode(s))
<1>1. /\ k \in 1..Len(s) /\ pos = Len(Written(s, sequence_count)) /\ v = pos + Len(e)
      /\ l <= w /\ v <= w
      /\ \A j \in 1..Len(e) : pos + j <= l => compressed[pos + j] = e[j]
  BY AtPiece DEF Parts
<1>2. sequence_count \in Nat /\ pos \in Nat /\ compressed \in Seq(Bytes) /\ l \in Nat /\ pos + 1 <= l
  BY DEF TypeOK, More
<1>3. /\ Len(s) \in Nat /\ DOMAIN s = 1..Len(s) /\ x \in SourceSequences
      /\ n \in Nat /\ n <= MaxBlockSize
      /\ ~last => Match(x) \in Nat /\ Match(x) <= MaxBlockSize
  BY <1>1, SourceIs DEF Parts
<1>o. ~last => x.offset \div (ByteMax + 1) \in Bytes
  BY <1>1, SourceIs DEF Parts
<1>4. e = EncodeSequence(x, last) /\ last \in BOOLEAN /\ x.lits \in Seq(Bytes)
  BY <1>1, <1>3 DEF Parts, Pieces, SourceSequences
<1> HIDE DEF e, z, l, w
<1>5. IsSequence(e, x, last, b, m, z)
  BY <1>3, <1>o, <1>4, SequenceIs DEF z, Parts
<1>a. Len(b) \in Nat /\ z = 1 + Len(b)
  BY <1>5 DEF IsSequence
<1>b. z \in Nat /\ z > 0 /\ Len(b) < z /\ p \in Nat /\ p = pos + z
  BY <1>2, <1>a DEF Parts
<1>c. n = Len(x.lits) /\ v = Len(Written(s, k))
  BY DEF Parts
<1>6. /\ Len(e) \in Nat
      /\ last => Len(e) = z + n
      /\ ~last => Len(m) \in Nat /\ Len(e) = z + n + 2 + Len(m)
  BY <1>5, <1>c DEF IsSequence
<1>7. z + n <= Len(e)
  <2>1. last => z + n <= Len(e)
    BY <1>3, <1>b, <1>6
  <2>2. ~last => z + n <= Len(e)
    BY <1>3, <1>b, <1>6
  <2>3. QED
    BY <2>1, <2>2
<1>8. v \in Nat /\ (last => v = p + n) /\ (~last => v = p + n + 2 + Len(m))
  <2>a. v = pos + Len(e) /\ pos \in Nat /\ p = pos + z /\ z \in Nat /\ n \in Nat
    BY <1>1, <1>2, <1>3, <1>b
  <2>1. last => v = p + n
    BY <2>a, <1>6
  <2>2. ~last => v = p + n + 2 + Len(m)
    BY <2>a, <1>6
  <2>3. v \in Nat
    BY <1>1, <1>2, <1>b, <1>6
  <2>4. QED
    BY <2>1, <2>2, <2>3
<1>9. compressed[pos + 1] = e[1]
  <2>1. 1 \in 1..Len(e)
    BY <1>3, <1>b, <1>6, <1>7
  <2>2. QED
    BY <1>1, <1>2, <2>1
<1>10. /\ compressed[pos + 1] \div (NibbleMax + 1) = Least(n, NibbleMax)
       /\ ~last => compressed[pos + 1] % (NibbleMax + 1) = Least(Match(x), NibbleMax)
  BY <1>5, <1>9, <1>c DEF IsSequence
<1>11. ASSUME NEW j \in 1..Len(b), pos + 1 + j <= l PROVE compressed[pos + 1 + j] = b[j]
  <2>1. 1 + j \in 1..Len(e) /\ pos + (1 + j) = pos + 1 + j
    BY <1>2, <1>3, <1>b, <1>6, <1>7
  <2>2. e[1 + j] = b[j]
    BY <1>5 DEF IsSequence
  <2>3. QED
    BY <1>1, <1>11, <2>1, <2>2
<1>12. ASSUME NEW j \in 1..n, p + j <= l PROVE compressed[p + j] = x.lits[j]
  <2>1. z + j \in 1..Len(e) /\ pos + (z + j) = p + j
    BY <1>2, <1>3, <1>b, <1>6, <1>7
  <2>2. e[z + j] = x.lits[j]
    BY <1>5, <1>c DEF IsSequence
  <2>3. QED
    BY <1>1, <1>12, <2>1, <2>2
<1>13. ASSUME ~last, NEW j \in 1..Len(m), p + n + 2 + j <= l PROVE compressed[p + n + 2 + j] = m[j]
  <2>1. Len(m) \in Nat /\ Len(e) = z + n + 2 + Len(m)
    BY <1>6, <1>13
  <2>2. z + n + 2 + j \in 1..Len(e) /\ pos + (z + n + 2 + j) = p + n + 2 + j
    BY <1>2, <1>3, <1>b, <1>6, <1>7, <2>1
  <2>3. e[z + n + 2 + j] = m[j]
    BY <1>5, <1>13, <1>c DEF IsSequence
  <2>4. QED
    BY <1>1, <1>13, <2>2, <2>3
<1>14. v <= Len(Encode(s))
  BY <1>1 DEF w
<1>15. IsHere(s, x, last, b, m, p, n, v)
  BY <1>6, <1>8, <1>c, <1>10, <1>11, <1>12, <1>13, <1>14 DEF IsHere, l
<1>16. QED
  BY <1>1, <1>2, <1>3, <1>4, <1>a, <1>b, <1>c, <1>15 DEF l, w

\* The run that is found is the run that was written, or none if it was cut.
LEMMA RunIs ==
  ASSUME NEW s, Encodable(s), WellFormed(s), TypeOK, More, Follows(s),
         NEW x, NEW last, NEW b, NEW m, NEW p, NEW n, NEW v, Parts(s, x, last, b, m, p, n, v)
  PROVE  Run = IF p + n <= Len(compressed) THEN {[len |-> n, next |-> p]} ELSE {}
<1> DEFINE l == Len(compressed)
           h == pos + 1
           nibble == compressed[pos + 1] \div (NibbleMax + 1)
           found == Length(pos + 1, nibble)
<1>1. /\ pos \in Nat /\ compressed \in Seq(Bytes) /\ l \in Nat /\ h <= l /\ Len(b) \in Nat
      /\ n \in Nat /\ n <= MaxBlockSize /\ p \in Nat
      /\ IsHere(s, x, last, b, m, p, n, v)
  BY PieceHere
<1>2. h \in 0..l /\ p = h + Len(b) /\ MaxBlockSize \in Nat
  BY <1>1, BlockConstants DEF Parts
<1>3. nibble = Least(n, NibbleMax) /\ \A j \in 1..Len(b) : h + j <= l => compressed[h + j] = b[j]
  BY <1>1 DEF IsHere
<1>4. Length(h, Least(n, NibbleMax)) = IF h + Len(b) <= l THEN {[len |-> n, next |-> h + Len(b)]} ELSE {}
  BY <1>1, <1>2, <1>3, ReadsLength DEF Parts
<1>5. Run = {r \in found : r.len <= MaxBlockSize /\ r.next + r.len <= l}
  BY DEF Run
<1> HIDE DEF h, l, nibble
<1>6. found = Length(h, Least(n, NibbleMax))
  BY <1>3 DEF h
<1> HIDE DEF found
<1>7. found = IF p <= l THEN {[len |-> n, next |-> p]} ELSE {}
  BY <1>2, <1>4, <1>6
<1>8. CASE p + n <= l
  <2>1. found = {[len |-> n, next |-> p]}
    BY <1>1, <1>7, <1>8
  <2>2. Run = {[len |-> n, next |-> p]}
    BY <1>1, <1>5, <1>8, <2>1
  <2>3. QED
    BY <1>8, <2>2 DEF l
<1>9. CASE ~(p + n <= l)
  <2>1. found \subseteq {[len |-> n, next |-> p]}
    BY <1>7
  <2>2. ASSUME NEW r \in Run PROVE FALSE
    <3>1. r = [len |-> n, next |-> p] /\ r.next + r.len <= l
      BY <1>5, <2>1
    <3>2. QED
      BY <1>9, <3>1
  <2>3. Run = {}
    BY <2>2
  <2>4. QED
    BY <1>9, <2>3 DEF l
<1>10. QED
  BY <1>8, <1>9

\* The copy behind it ends where it was written to end.
LEMMA CopyIs ==
  ASSUME NEW s, Encodable(s), WellFormed(s), TypeOK, More, Follows(s),
         NEW x, NEW last, NEW b, NEW m, NEW p, NEW n, NEW v, Parts(s, x, last, b, m, p, n, v),
         p + n <= Len(compressed)
  PROVE  AfterCopy(p + n) =
            IF p + n = Len(compressed) THEN {p + n}
            ELSE IF v <= Len(compressed) THEN {v} ELSE {}
<1> DEFINE l == Len(compressed)
           w == Len(Encode(s))
           c == compressed[pos + 1] % (NibbleMax + 1)
           q == p + n
<1>1. /\ compressed \in Seq(Bytes) /\ l \in Nat /\ Len(s) \in Nat /\ sequence_count \in Nat
      /\ n \in Nat /\ p \in Nat /\ l <= w /\ last \in BOOLEAN
      /\ ~last => Match(x) \in Nat /\ Match(x) <= MaxBlockSize
      /\ IsHere(s, x, last, b, m, p, n, v)
  BY PieceHere
<1>2. AfterCopy(q) =
        IF q >= l THEN {q} ELSE {r.next : r \in {r \in Length(q + 2, c) : q + 2 <= l}}
  BY DEF AfterCopy
<1>3. q \in Nat /\ q <= l /\ l \in Nat
  BY <1>1
<1>4. v \in Nat /\ v <= w /\ (last => v = q) /\ (~last => Len(m) \in Nat /\ v = q + 2 + Len(m))
  BY <1>1 DEF IsHere
<1>5. ~last => /\ c = Least(Match(x), NibbleMax)
               /\ \A j \in 1..Len(m) : q + 2 + j <= l => compressed[q + 2 + j] = m[j]
  BY <1>1 DEF IsHere
<1>6. last => v = w
  <2>1. SUFFICES ASSUME last PROVE v = w
    OBVIOUS
  <2>a. sequence_count + 1 = Len(s) /\ v = Len(Written(s, sequence_count + 1))
    BY <2>1 DEF Parts
  <2>2. sequence_count + 1 = Len(s) /\ Len(s) \in 0..Len(s) /\ v = Len(Written(s, sequence_count + 1))
    BY <1>1, <2>a
  <2>3. Encode(s) = Written(s, Len(s))
    BY <2>2, WrittenWithin
  <2>4. QED
    BY <2>2, <2>3
<1> HIDE DEF c, l, w, q
<1>7. CASE q = l
  <2>1. AfterCopy(q) = {q}
    BY <1>2, <1>3, <1>7
  <2>2. QED
    BY <1>7, <2>1 DEF q, l
<1>8. CASE q # l
  <2>1. ~last
    <3>1. w \in Int
      <4>1. sequence_count + 1 \in Int /\ Len(s) \in 0..Len(s)
        BY <1>1
      <4>2. Encode(s) \in Seq(Bytes)
        BY <4>1, WrittenWithin
      <4>3. QED
        BY <4>2 DEF w
    <3>2. l <= w
      BY <1>1 DEF w, l
    <3>3. QED
      BY <1>3, <1>4, <1>6, <1>8, <3>1, <3>2
  <2>2. v = q + 2 + Len(m) /\ Len(m) \in Nat
    BY <1>4, <2>1
  <2>3. AfterCopy(q) = {r.next : r \in {r \in Length(q + 2, c) : q + 2 <= l}}
    BY <1>2, <1>3, <1>8
  <2>4. CASE q + 2 <= l
    <3>1. q + 2 \in 0..Len(compressed) /\ MaxBlockSize \in Nat
      BY <1>3, <2>4, BlockConstants DEF l
    <3>2. Length(q + 2, Least(Match(x), NibbleMax)) =
            IF q + 2 + Len(m) <= l THEN {[len |-> Match(x), next |-> q + 2 + Len(m)]} ELSE {}
      <4>1. Match(x) \in Nat /\ Match(x) <= MaxBlockSize /\ compressed \in Seq(Bytes)
        BY <1>1, <2>1
      <4>2. \A j \in 1..Len(m) : q + 2 + j <= l => compressed[q + 2 + j] = m[j]
        BY <1>5, <2>1
      <4>3. QED
        BY <3>1, <4>1, <4>2, ReadsLength DEF l, Parts
    <3>3. Length(q + 2, c) = IF v <= l THEN {[len |-> Match(x), next |-> v]} ELSE {}
      BY <1>5, <2>1, <2>2, <3>2
    <3>4. CASE v <= l
      <4>1. Length(q + 2, c) = {[len |-> Match(x), next |-> v]}
        BY <3>3, <3>4
      <4>2. AfterCopy(q) = {v}
        BY <2>3, <2>4, <4>1
      <4>3. QED
        BY <1>8, <3>4, <4>2 DEF q, l
    <3>5. CASE ~(v <= l)
      <4>1. Length(q + 2, c) = {}
        BY <3>3, <3>5
      <4>2. AfterCopy(q) = {}
        BY <2>3, <4>1
      <4>3. QED
        BY <1>8, <3>5, <4>2 DEF q, l
    <3>6. QED
      BY <3>4, <3>5
  <2>5. CASE ~(q + 2 <= l)
    <3>1. AfterCopy(q) = {}
      BY <2>3, <2>5
    <3>2. ~(v <= l)
      BY <1>3, <2>2, <2>5
    <3>3. QED
      BY <1>8, <3>1, <3>2 DEF q, l
  <2>6. QED
    BY <2>4, <2>5
<1>9. QED
  BY <1>7, <1>8

\* As far as the block goes, n literals stand behind p.
RunAt(p, n, lits) == \A j \in 1..n : p + j <= Len(compressed) => compressed[p + j] = lits[j]

\* What Take makes of them.
Taken(a, p, n, max) == a \o SubSeq(compressed, p + 1, p + Least(n, max - Len(a)))

\* What is taken of the run is what the encoder stored, up to the cap.
LEMMA TakeIs ==
  ASSUME NEW g \in Seq(Bytes), NEW lits \in Seq(Bytes), NEW max \in Nat, compressed \in Seq(Bytes),
         NEW n, n = Len(lits), NEW p \in Nat, p + n <= Len(compressed),
         RunAt(p, n, lits),
         Len(Cut(g, max)) < max
  PROVE  Taken(Cut(g, max), p, n, max) = Cut(g \o lits, max)
<1>0. Len(SubSeq(g, 1, Least(Len(g), max))) < max
  BY DEF Cut
<1>r. \A j \in 1..n : p + j <= Len(compressed) => compressed[p + j] = lits[j]
  BY DEF RunAt
<1>1. Len(g) \in Nat /\ n \in Nat /\ Len(g) < max /\ Least(Len(g), max) = Len(g)
  <2>1. Len(g) \in Nat /\ n \in Nat
    OBVIOUS
  <2>2. CASE Len(g) <= max
    <3>1. Least(Len(g), max) = Len(g)
      BY <2>1, <2>2 DEF Least
    <3>2. Len(SubSeq(g, 1, Len(g))) = Len(g)
      BY <2>1
    <3>3. QED
      BY <1>0, <2>1, <3>1, <3>2
  <2>3. CASE ~(Len(g) <= max)
    <3>1. Least(Len(g), max) = max /\ max \in 0..Len(g)
      BY <2>1, <2>3 DEF Least
    <3>2. Len(SubSeq(g, 1, max)) = max
      BY <2>1, <3>1
    <3>3. QED
      BY <1>0, <3>1, <3>2
  <2>4. QED
    BY <2>2, <2>3
<1>2. SubSeq(g, 1, Least(Len(g), max)) = g
  BY <1>1
<1> DEFINE c == Least(n, max - Len(g))
           run == SubSeq(compressed, p + 1, p + c)
           a == g \o run
           h == g \o lits
           d == Least(Len(h), max)
           f == SubSeq(h, 1, d)
<1>3. c \in Nat /\ c <= n /\ p + c <= Len(compressed)
  BY <1>1 DEF Least
<1>4. run \in Seq(Bytes) /\ Len(run) = c /\ \A j \in 1..c : run[j] = compressed[p + j]
  <2> HIDE DEF c
  <2>1. p + 1 \in Int /\ p + c \in Int /\ \A i \in (p + 1)..(p + c) : compressed[i] \in Bytes
    <3>1. \A i \in (p + 1)..(p + c) : i \in 1..Len(compressed)
      BY <1>3
    <3>2. QED
      BY <1>3, <3>1
  <2>2. /\ run \in Seq(Bytes) /\ Len(run) = IF p + 1 <= p + c THEN (p + c) - (p + 1) + 1 ELSE 0
        /\ \A j \in 1..((p + c) - (p + 1) + 1) : run[j] = compressed[(p + 1) + j - 1]
    BY <2>1, SubSeqProperties
  <2>3. (p + c) - (p + 1) + 1 = c /\ (~(p + 1 <= p + c) => c = 0) /\ \A j \in 1..c : (p + 1) + j - 1 = p + j
    BY <1>3
  <2>4. QED
    BY <2>2, <2>3
<1>5. h \in Seq(Bytes) /\ IsJoin(h, g, lits)
  BY Joined
<1> HIDE DEF run, h
<1>6. a \in Seq(Bytes) /\ IsJoin(a, g, run)
  BY <1>4, Joined
<1>7. Len(h) = Len(g) + n /\ d = Len(g) + c /\ d \in 0..Len(h)
  <2>1. Len(h) = Len(g) + n
    BY <1>5 DEF IsJoin
  <2>2. d = Len(g) + c
    BY <1>1, <2>1 DEF Least
  <2> HIDE DEF c, d
  <2>3. QED
    BY <1>1, <1>3, <2>1, <2>2
<1> HIDE DEF d, c
<1>8. f \in Seq(Bytes) /\ Len(f) = d /\ \A j \in 1..d : f[j] = h[j]
  BY <1>5, <1>7
<1> HIDE DEF f, a
<1>9. Len(a) = d
  BY <1>4, <1>6, <1>7 DEF IsJoin
<1>10. ASSUME NEW j \in 1..d PROVE a[j] = f[j]
  <2>1. CASE j <= Len(g)
    <3>1. j \in 1..Len(g)
      BY <1>1, <1>7, <2>1
    <3>2. QED
      BY <1>5, <1>6, <1>8, <3>1 DEF IsJoin
  <2>2. CASE ~(j <= Len(g))
    <3>1. PICK i \in 1..c : j = Len(g) + i
      <4>1. j - Len(g) \in 1..c /\ j = Len(g) + (j - Len(g))
        BY <1>1, <1>3, <1>7, <2>2
      <4>2. QED
        BY <4>1
    <3>2. i \in 1..n /\ p + i <= Len(compressed) /\ i \in 1..Len(run) /\ i \in 1..Len(lits)
      BY <1>1, <1>3, <1>4
    <3>3. a[j] = run[i] /\ h[j] = lits[i]
      BY <1>5, <1>6, <3>1, <3>2 DEF IsJoin
    <3>4. run[i] = lits[i]
      BY <1>r, <1>4, <3>1, <3>2
    <3>5. QED
      BY <1>8, <3>3, <3>4
  <2>3. QED
    BY <2>1, <2>2
<1>11. a = f
  BY <1>6, <1>8, <1>9, <1>10, SeqEqual
<1>12. QED
  BY <1>2, <1>11 DEF a, f, h, d, run, c, Cut, Taken

\* A pass of the loop takes the parser from one sequence to the next, or to the
\* end of a block that was cut behind a run.
LEMMA SequenceFollows ==
  ASSUME NEW s, Encodable(s), WellFormed(s), TypeOK, Follows(s), Sequence
  PROVE  Follows(s)'
<1>1. /\ status = "running" /\ More /\ sequence_count' = sequence_count + 1
      /\ UNCHANGED <<source, compressed, max_output, status>>
  BY DEF Sequence
<1>2. PICK r \in Run : \E next \in AfterCopy(r.next + r.len) :
         pos' = next /\ literals' = Take(r)
  BY DEF Sequence
<1>3. PICK next \in AfterCopy(r.next + r.len) : pos' = next /\ literals' = Take(r)
  BY <1>2
<1> DEFINE x == s[sequence_count + 1]
           n == Len(x.lits)
           b == LengthBytes(n)
           m == LengthBytes(Match(x))
           last == (sequence_count + 1 = Len(s))
           p == pos + 1 + Len(b)
           v == Len(Written(s, sequence_count + 1))
           l == Len(compressed)
           k == sequence_count + 1
<1>4. Parts(s, x, last, b, m, p, n, v)
  BY DEF Parts
<1> HIDE DEF x, n, b, m, last, p, v
<1>5. /\ sequence_count \in Nat /\ Len(s) \in Nat /\ k \in 1..Len(s) /\ last \in BOOLEAN
      /\ compressed \in Seq(Bytes) /\ l \in Nat /\ n \in Nat /\ p \in Nat /\ x.lits \in Seq(Bytes)
      /\ IsHere(s, x, last, b, m, p, n, v)
  BY <1>1, <1>4, PieceHere
<1>6. v \in Nat /\ p + n <= v /\ \A j \in 1..n : p + j <= l => compressed[p + j] = x.lits[j]
  <2>1. v \in Nat /\ (last => v = p + n) /\ (~last => Len(m) \in Nat /\ v = p + n + 2 + Len(m))
    BY <1>5 DEF IsHere
  <2>2. \A j \in 1..n : p + j <= l => compressed[p + j] = x.lits[j]
    BY <1>5 DEF IsHere
  <2>3. p + n <= v
    <3>1. CASE last
      BY <1>5, <2>1, <3>1
    <3>2. CASE ~last
      BY <1>5, <2>1, <3>2
    <3>3. QED
      BY <3>1, <3>2
  <2>4. QED
    BY <2>1, <2>2, <2>3
<1>7. p + n <= l /\ r = [len |-> n, next |-> p]
  <2>1. Run = IF p + n <= l THEN {[len |-> n, next |-> p]} ELSE {}
    BY <1>1, <1>4, RunIs
  <2>2. QED
    BY <2>1
<1>8. r.next + r.len = p + n
  BY <1>7
<1>9. pos' <= v /\ (pos' < l => pos' = v)
  <2>1. AfterCopy(p + n) = IF p + n = l THEN {p + n} ELSE IF v <= l THEN {v} ELSE {}
    <3>1. p + n <= Len(compressed)
      BY <1>7
    <3>2. AfterCopy(p + n) = IF p + n = Len(compressed) THEN {p + n}
                             ELSE IF v <= Len(compressed) THEN {v} ELSE {}
      BY <1>1, <1>4, <3>1, CopyIs
    <3>3. QED
      BY <3>2
  <2>2. next \in AfterCopy(p + n)
    BY <1>8
  <2>3. next = v \/ (next = p + n /\ p + n = l)
    BY <2>1, <2>2
  <2> HIDE DEF l
  <2>4. QED
    BY <1>3, <1>5, <1>6, <2>3
<1>10. literals' = Cut(Stored(s, k), max_output)
  <2> DEFINE g == Stored(s, sequence_count)
  <2>1. literals = Cut(g, max_output) /\ Len(literals) < max_output /\ max_output \in Nat
    BY <1>1, BlockConstants DEF Follows, More, TypeOK
  <2>2. k - 1 = sequence_count
    BY <1>5
  <2>3. g \in Seq(Bytes) /\ Stored(s, k) = g \o x.lits
    <3>1. Stored(s, k - 1) \in Seq(Bytes) /\ Stored(s, k) = Stored(s, k - 1) \o s[k].lits
      BY <1>5, WrittenStep
    <3>2. QED
      BY <2>2, <3>1 DEF x
  <2>4. literals' = Taken(Cut(g, max_output), p, n, max_output)
    BY <1>3, <1>7, <2>1 DEF Take, Taken
  <2> HIDE DEF g
  <2>5. n = Len(x.lits) /\ compressed \in Seq(Bytes) /\ x.lits \in Seq(Bytes) /\ p \in Nat
        /\ p + n <= Len(compressed) /\ RunAt(p, n, x.lits)
    BY <1>5, <1>6, <1>7 DEF n, RunAt
  <2>6. Taken(Cut(g, max_output), p, n, max_output) = Cut(g \o x.lits, max_output)
    BY <2>1, <2>3, <2>5, TakeIs
  <2>7. QED
    BY <2>3, <2>4, <2>6
<1>11. CutFrom(s)'
  BY <1>1 DEF Follows, CutFrom
<1>12. sequence_count' <= Len(s)
  BY <1>1, <1>5
<1>13. status' # "error" /\ status' # "ok"
  BY <1>1
<1>14. QED
  BY <1>1, <1>9, <1>10, <1>11, <1>12, <1>13 DEF Follows, v

\* A block that is whole is refused for its number of sequences alone.
LEMMA RefuseFollows ==
  ASSUME NEW s, Encodable(s), WellFormed(s), TypeOK, Follows(s), Refuse
  PROVE  Follows(s)'
<1>1. /\ More /\ status' = "error"
      /\ UNCHANGED <<source, compressed, max_output, pos, literals, sequence_count>>
  BY DEF Refuse
<1> DEFINE x == s[sequence_count + 1]
           n == Len(x.lits)
           b == LengthBytes(n)
           m == LengthBytes(Match(x))
           last == (sequence_count + 1 = Len(s))
           p == pos + 1 + Len(b)
           v == Len(Written(s, sequence_count + 1))
           l == Len(compressed)
<1>2. Parts(s, x, last, b, m, p, n, v)
  BY DEF Parts
<1> HIDE DEF x, n, b, m, last, p, v
<1>3. /\ sequence_count \in Nat /\ Len(s) \in Nat /\ sequence_count + 1 \in 1..Len(s) /\ last \in BOOLEAN
      /\ l \in Nat /\ n \in Nat /\ p \in Nat /\ IsHere(s, x, last, b, m, p, n, v)
  BY <1>1, <1>2, PieceHere
<1>4. v \in Nat /\ v <= Len(Encode(s)) /\ (last => v = p + n) /\ (~last => Len(m) \in Nat /\ v = p + n + 2 + Len(m))
  BY <1>3 DEF IsHere
<1>5. p + n <= v
  <2>1. CASE last
    BY <1>3, <1>4, <2>1
  <2>2. CASE ~last
    BY <1>3, <1>4, <2>2
  <2>3. QED
    BY <2>1, <2>2
<1>6. ASSUME Intact(s) PROVE Len(s) >= MaxSequences
  <2>1. l = Len(Encode(s))
    BY <1>6 DEF Intact
  <2>2. p + n <= l /\ v <= l
    BY <1>3, <1>4, <1>5, <2>1
  <2>3. Run = {[len |-> n, next |-> p]}
    <3>1. Run = IF p + n <= l THEN {[len |-> n, next |-> p]} ELSE {}
      BY <1>1, <1>2, RunIs
    <3>2. QED
      BY <2>2, <3>1
  <2>4. AfterCopy(p + n) # {}
    <3>1. AfterCopy(p + n) = IF p + n = l THEN {p + n} ELSE IF v <= l THEN {v} ELSE {}
      BY <1>1, <1>2, <2>2, CopyIs
    <3>2. QED
      BY <2>2, <3>1
  <2>5. sequence_count + 1 >= MaxSequences
    <3>1. [len |-> n, next |-> p] \in Run /\ AfterCopy([len |-> n, next |-> p].next + [len |-> n, next |-> p].len) # {}
      BY <2>3, <2>4
    <3>2. QED
      BY <3>1 DEF Refuse
  <2>6. MaxSequences \in Nat
    BY BlockConstants
  <2>7. QED
    BY <1>3, <2>5, <2>6
<1>7. QED
  BY <1>1, <1>6 DEF Follows, CutFrom, Intact

\* Returning, and standing still, change nothing it depends on.
LEMMA OthersFollow ==
  ASSUME NEW s, Follows(s), Return \/ UNCHANGED vars
  PROVE  Follows(s)'
<1>1. CASE Return
  BY <1>1 DEF Return, Follows, CutFrom, Intact, More
<1>2. CASE UNCHANGED vars
  BY <1>2 DEF vars, Follows, CutFrom, Intact, More
<1>3. QED
  BY <1>1, <1>2

\* Every encoded sequence has at least its token.
LEMMA WrittenGrows ==
  ASSUME NEW s, Encodable(s), WellFormed(s), NEW k \in 1..Len(s)
  PROVE  Len(Written(s, k - 1)) < Len(Written(s, k))
<1> DEFINE x == s[k]
           last == (k = Len(s))
           e == Pieces(s)[k]
           n == Len(x.lits)
           b == LengthBytes(n)
           m == LengthBytes(Match(x))
           z == 1 + Len(b)
<1>1. /\ Len(s) \in Nat /\ DOMAIN s = 1..Len(s) /\ x \in SourceSequences /\ n \in Nat
      /\ ~last => Match(x) \in Nat /\ x.offset \div (ByteMax + 1) \in Bytes
  BY SourceIs
<1>2. e = EncodeSequence(x, last) /\ last \in BOOLEAN
  BY <1>1 DEF Pieces
<1>3. b = LengthBytes(Len(x.lits)) /\ m = LengthBytes(Match(x)) /\ z = 1 + Len(b)
  OBVIOUS
<1>4. IsJoin(Written(s, k), Written(s, k - 1), Pieces(s)[k])
  BY WrittenStep
<1>n. n = Len(x.lits)
  OBVIOUS
<1> HIDE DEF x, last, e, n, b, m, z
<1>5. IsSequence(e, x, last, b, m, z)
  BY <1>1, <1>2, <1>3, SequenceIs
<1>6. Len(e) >= 1
  <2>1. Len(b) \in Nat /\ z = 1 + Len(b)
    BY <1>5 DEF IsSequence
  <2>2. CASE last
    <3>1. Len(e) = z + n
      BY <1>5, <1>n, <2>2 DEF IsSequence
    <3>2. QED
      BY <1>1, <2>1, <3>1
  <2>3. CASE ~last
    <3>1. Len(m) \in Nat /\ Len(e) = z + n + 2 + Len(m)
      BY <1>5, <1>n, <2>3 DEF IsSequence
    <3>2. QED
      BY <1>1, <2>1, <3>1
  <2>4. QED
    BY <2>2, <2>3
<1>7. /\ Len(Written(s, k - 1)) \in Nat /\ Len(e) \in Nat
      /\ Len(Written(s, k)) = Len(Written(s, k - 1)) + Len(e)
  BY <1>4 DEF IsJoin, e
<1>8. QED
  BY <1>6, <1>7

\* A parser that follows the encoder gathers the literals.
LEMMA FollowsExtracts ==
  ASSUME TypeOK, NEW s, Encodable(s), WellFormed(s), Follows(s)
  PROVE  /\ IsPrefix(literals, LiteralsIn(s))
         /\ Intact(s) /\ status = "ok" => Len(literals) = Least(Len(LiteralsIn(s)), max_output)
         /\ Intact(s) /\ status = "error" => Len(s) >= MaxSequences
<1> DEFINE k == sequence_count
           g == Stored(s, k)
           w == LiteralsIn(s)
           d == Least(Len(g), max_output)
<1>1. /\ k \in Nat /\ max_output \in Nat /\ literals \in Seq(Bytes) /\ pos \in Nat
      /\ compressed \in Seq(Bytes) /\ pos <= Len(compressed)
  BY BlockConstants DEF TypeOK
<1>2. /\ Len(s) \in Nat /\ Runs(s) \in Seq(Seq(Bytes)) /\ Len(Runs(s)) = Len(s) /\ w = FlattenSeq(Runs(s))
  BY SourceIs
<1>3. k \in 0..Len(s) /\ Len(s) \in 0..Len(s)
  BY <1>1, <1>2 DEF Follows
<1>4. g \in Seq(Bytes) /\ w \in Seq(Bytes) /\ w = Stored(s, Len(s))
  <2>1. g \in Seq(Bytes) /\ Stored(s, Len(s)) \in Seq(Bytes)
    BY <1>2, <1>3, FlatToType DEF Stored
  <2>2. w = Stored(s, Len(s))
    BY <1>2, FlatToSteps DEF Stored
  <2>3. QED
    BY <2>1, <2>2
<1>5. Len(g) <= Len(w) /\ \A j \in 1..Len(g) : w[j] = g[j]
  BY <1>2, <1>3, FlatToPrefix DEF Stored
<1>6. literals = SubSeq(g, 1, d)
  BY DEF Follows, Cut
<1>f. Len(s) = k => w = g
  BY <1>4
<1> HIDE DEF g, w
<1>7. d \in Nat /\ d <= Len(g) /\ d <= Len(w) /\ d <= max_output
  BY <1>1, <1>4, <1>5 DEF Least
<1>8. Len(literals) = d /\ \A j \in 1..d : literals[j] = g[j]
  <2> HIDE DEF d
  <2>1. QED
    BY <1>4, <1>6, <1>7
<1>9. IsPrefix(literals, w)
  <2> HIDE DEF d
  <2> DEFINE a == SubSeq(literals, 1, Len(literals))
             c == SubSeq(w, 1, d)
  <2>1. a = literals
    BY <1>1
  <2>2. c \in Seq(Bytes) /\ Len(c) = d /\ \A j \in 1..d : c[j] = w[j]
    BY <1>4, <1>7
  <2> HIDE DEF a, c
  <2>3. \A j \in 1..d : literals[j] = c[j]
    <3>1. SUFFICES ASSUME NEW j \in 1..d PROVE literals[j] = c[j]
      OBVIOUS
    <3>2. j \in 1..Len(g)
      BY <1>4, <1>7
    <3>3. QED
      BY <1>5, <1>8, <2>2, <3>2
  <2>4. literals = c
    BY <1>1, <1>8, <2>2, <2>3, SeqEqual
  <2>5. QED
    BY <1>7, <1>8, <2>1, <2>4 DEF IsPrefix, a, c
<1>10. ASSUME Intact(s), status = "ok" PROVE Len(literals) = Least(Len(w), max_output)
  <2>1. ~More
    BY <1>10 DEF Follows
  <2>2. CASE Len(literals) >= max_output
    BY <1>1, <1>4, <1>7, <1>8, <2>2 DEF Least
  <2>3. CASE ~(Len(literals) >= max_output)
    <3>1. pos >= Len(compressed)
      BY <1>1, <2>1, <2>3 DEF More
    <3>2. Len(compressed) = Len(Encode(s)) /\ pos <= Len(Written(s, k))
      BY <1>10 DEF Follows, Intact
    <3>3. Written(s, k) \in Seq(Bytes) /\ Encode(s) \in Seq(Bytes) /\ Len(Written(s, k)) <= Len(Encode(s))
      BY <1>3, WrittenWithin
    <3>4. Len(Written(s, k)) \in Nat /\ Len(Encode(s)) \in Nat
      BY <3>3
    <3>5. ASSUME k # Len(s) PROVE FALSE
      <4>1. k + 1 \in 1..Len(s) /\ k + 1 \in 0..Len(s) /\ (k + 1) - 1 = k
        BY <1>2, <1>3, <3>5
      <4>2. Len(Written(s, (k + 1) - 1)) < Len(Written(s, k + 1))
        BY <4>1, WrittenGrows
      <4>3. Written(s, k + 1) \in Seq(Bytes) /\ Len(Written(s, k + 1)) <= Len(Encode(s))
        BY <4>1, WrittenWithin
      <4>4. Len(Written(s, k)) < Len(Written(s, k + 1)) /\ Len(Written(s, k + 1)) \in Nat
        BY <4>1, <4>2, <4>3
      <4>5. QED
        BY <1>1, <3>1, <3>2, <3>3, <3>4, <4>3, <4>4
    <3>6. w = g
      BY <1>f, <3>5
    <3>7. QED
      BY <1>8, <3>6
  <2>4. QED
    BY <2>2, <2>3
<1>11. Intact(s) /\ status = "error" => Len(s) >= MaxSequences
  BY DEF Follows
<1>12. QED
  BY <1>9, <1>10, <1>11 DEF w

-----------------------------------------------------------------------------

\* What is inductive besides: the parser follows the encoder of its source.
FInv == /\ TypeOK
        /\ source \subseteq Sources
        /\ \A s \in source : Follows(s)

\* A source is one an encoder wrote.
LEMMA SourceWellFormed ==
  ASSUME source \subseteq Sources, NEW s \in source
  PROVE  Encodable(s) /\ WellFormed(s)
BY BlockConstants

\* Before the first byte the parser stands behind no sequence.
LEMMA InitFollows ==
  ASSUME Init, NEW s \in source
  PROVE  s \in Sources /\ Follows(s)
<1>1. s \in Sources /\ CutFrom(s)
  BY DEF Init, CutFrom
<1>2. Encodable(s) /\ WellFormed(s)
  BY <1>1, BlockConstants
<1>3. Pieces(s) \in Seq(Seq(Bytes)) /\ Runs(s) \in Seq(Seq(Bytes)) /\ Len(s) \in Nat
  BY <1>2, SourceIs
<1>4. Written(s, 0) = <<>> /\ Stored(s, 0) = <<>>
  BY <1>3, FlatToSteps DEF Written, Stored
<1>5. max_output \in Nat /\ pos = 0 /\ literals = <<>> /\ sequence_count = 0 /\ status = "running"
  BY BlockConstants DEF Init
<1>6. Cut(<<>>, max_output) = <<>>
  <2>1. Least(0, max_output) = 0
    BY <1>5 DEF Least
  <2>2. QED
    BY <2>1 DEF Cut
<1>7. QED
  BY <1>1, <1>3, <1>4, <1>5, <1>6 DEF Follows

\* The parser follows the encoder in every reachable state.
THEOREM FollowsInvariance == Spec => []FInv
<1>1. Init => FInv
  BY InitInv, InitFollows DEF FInv, IInv
<1>2. IInv /\ FInv /\ [Next]_vars => FInv'
  <2> SUFFICES ASSUME IInv, FInv, [Next]_vars PROVE FInv'
    OBVIOUS
  <2>1. TypeOK' /\ source' = source
    BY StepInv DEF IInv, Next, Sequence, Refuse, Return, vars
  <2>2. ASSUME NEW s \in source PROVE Follows(s)'
    <3>1. Encodable(s) /\ WellFormed(s) /\ TypeOK /\ Follows(s)
      BY SourceWellFormed DEF FInv
    <3>2. CASE Sequence
      BY <3>1, <3>2, SequenceFollows
    <3>3. CASE Refuse
      BY <3>1, <3>3, RefuseFollows
    <3>4. CASE Return \/ UNCHANGED vars
      BY <3>1, <3>4, OthersFollow
    <3>5. QED
      BY <3>2, <3>3, <3>4 DEF Next
  <2>3. QED
    BY <2>1, <2>2 DEF FInv
<1>3. QED
  BY <1>1, <1>2, Invariance, PTL DEF Spec

\* Whatever an encoder wrote, of whatever radix and however long, the literals
\* gathered are a prefix of those it wrote; of a whole block, all up to the cap,
\* and it is refused for its number of sequences alone.
THEOREM ExtractsLiteralsCorrect == Spec => []ExtractsLiterals
<1>1. FInv => ExtractsLiterals
  BY SourceWellFormed, FollowsExtracts DEF FInv, ExtractsLiterals
<1>2. QED
  BY <1>1, FollowsInvariance, PTL

-----------------------------------------------------------------------------
(* Decoding adds no byte that is not among the literals.                   *)

\* What is decoded of the i-th sequence of s, behind what is decoded already.
DecodeStep(out, s, i) ==
  IF i = Len(s) THEN out \o s[i].lits ELSE CopyBack(out \o s[i].lits, s[i].offset, s[i].match)

\* f decodes the first n sequences of s, one after the other.
Decodes(f, s, n) == f = [i \in 0..n |-> IF i = 0 THEN <<>> ELSE DecodeStep(f[i - 1], s, i)]

\* The equation has a solution for every length.
LEMMA DecodesExists ==
  ASSUME NEW s, NEW n \in Nat
  PROVE  \E f : Decodes(f, s, n)
<1> DEFINE T == {m \in Nat : ~ \E f : Decodes(f, s, m)}
<1>1. SUFFICES ASSUME T # {} PROVE FALSE
  OBVIOUS
<1>2. PICK m \in T : \A k \in T : m <= k
  <2>1. T \subseteq Nat
    OBVIOUS
  <2> HIDE DEF T
  <2>2. QED
    BY <1>1, <2>1, LeastNat
<1>3. CASE m = 0
  <2> DEFINE f == [i \in 0..0 |-> <<>>]
  <2>1. f = [i \in 0..0 |-> IF i = 0 THEN <<>> ELSE DecodeStep(f[i - 1], s, i)]
    OBVIOUS
  <2>2. Decodes(f, s, 0)
    BY <2>1 DEF Decodes
  <2>3. QED
    BY <1>2, <1>3, <2>2
<1>4. CASE m # 0
  <2>1. m \in Nat /\ m - 1 \in Nat /\ m - 1 \notin T
    BY <1>2, <1>4
  <2>2. PICK g : Decodes(g, s, m - 1)
    BY <2>1
  <2> DEFINE f == [i \in 0..m |-> IF i < m THEN g[i] ELSE DecodeStep(g[i - 1], s, i)]
  <2>3. \A i \in 0..(m - 1) : g[i] = IF i = 0 THEN <<>> ELSE DecodeStep(g[i - 1], s, i)
    BY <2>1, <2>2, Zenon DEF Decodes
  <2>4. ASSUME NEW i \in 0..m PROVE f[i] = IF i = 0 THEN <<>> ELSE DecodeStep(f[i - 1], s, i)
    <3>1. CASE i = 0
      <4>1. i < m /\ i \in 0..(m - 1)
        BY <1>4, <2>1, <3>1
      <4>2. f[i] = g[i] /\ g[i] = <<>>
        BY <2>3, <3>1, <4>1
      <4>3. QED
        BY <3>1, <4>2
    <3>2. CASE i # 0
      <4>1. i - 1 \in 0..m /\ i - 1 < m
        BY <2>1, <3>2
      <4>2. f[i - 1] = g[i - 1]
        BY <4>1
      <4>3. i < m => i \in 0..(m - 1)
        BY <2>1
      <4>4. f[i] = DecodeStep(g[i - 1], s, i)
        BY <2>3, <3>2, <4>3
      <4>5. QED
        BY <3>2, <4>2, <4>4
    <3>3. QED
      BY <3>1, <3>2
  <2>5. f = [i \in 0..m |-> f[i]]
    OBVIOUS
  <2> HIDE DEF f
  <2>6. Decodes(f, s, m)
    BY <2>4, <2>5, Zenon DEF Decodes
  <2>7. QED
    BY <1>2, <2>6
<1>5. QED
  BY <1>3, <1>4

\* Decode takes the last value of a solution.
LEMMA DecodeIs ==
  ASSUME NEW s, Len(s) \in Nat
  PROVE  \E f : Decodes(f, s, Len(s)) /\ Decode(s) = f[Len(s)]
<1> DEFINE g == CHOOSE f : Decodes(f, s, Len(s))
<1>1. Decodes(g, s, Len(s))
  BY DecodesExists, Zenon
<1>2. Decode(s) = g[Len(s)]
  BY Zenon DEF Decode, Decodes, DecodeStep
<1>3. QED
  BY <1>1, <1>2, Zenon

\* What is decoded up to the i-th sequence depends on those before alone.
LEMMA DecodesAlike ==
  ASSUME NEW s, NEW t, Len(s) \in Nat, Len(t) \in 1..Len(s), \A i \in 1..Len(t) : t[i] = s[i],
         NEW f, Decodes(f, s, Len(s)), NEW g, Decodes(g, t, Len(t))
  PROVE  g[Len(t)] = f[Len(t) - 1] \o s[Len(t)].lits
<1> DEFINE n == Len(t)
           T == {i \in 0..(n - 1) : f[i] # g[i]}
<1>1. \A i \in 0..Len(s) : f[i] = IF i = 0 THEN <<>> ELSE DecodeStep(f[i - 1], s, i)
  BY Zenon DEF Decodes
<1>2. \A i \in 0..n : g[i] = IF i = 0 THEN <<>> ELSE DecodeStep(g[i - 1], t, i)
  BY Zenon DEF Decodes
<1>3. n \in Nat /\ n \in 1..Len(s)
  OBVIOUS
<1> HIDE DEF n
<1>4. T = {}
  <2>1. SUFFICES ASSUME T # {} PROVE FALSE
    OBVIOUS
  <2>2. PICK i \in T : \A k \in T : i <= k
    <3>1. T \subseteq Nat
      BY <1>3
    <3> HIDE DEF T
    <3>2. QED
      BY <2>1, <3>1, LeastNat
  <2>3. i \in 0..n /\ i \in 0..Len(s) /\ i < n /\ i < Len(s) /\ f[i] # g[i]
    BY <1>3, <2>2
  <2>4. CASE i = 0
    BY <1>1, <1>2, <2>3, <2>4
  <2>5. CASE i # 0
    <3>1. i - 1 \in 0..(n - 1) /\ i - 1 \notin T /\ i \in 1..n
      BY <1>3, <2>2, <2>3, <2>5
    <3>2. f[i - 1] = g[i - 1] /\ t[i] = s[i]
      BY <3>1 DEF n
    <3>3. i # Len(s) /\ i # Len(t)
      BY <1>3, <2>3 DEF n
    <3>4. DecodeStep(g[i - 1], t, i) = DecodeStep(f[i - 1], s, i)
      BY <3>2, <3>3, Zenon DEF DecodeStep
    <3>5. QED
      BY <1>1, <1>2, <2>3, <2>5, <3>4
  <2>6. QED
    BY <2>4, <2>5
<1>5. f[n - 1] = g[n - 1] /\ t[n] = s[n]
  <2>1. n - 1 \in 0..(n - 1) /\ n \in 1..n
    BY <1>3
  <2>2. f[n - 1] = g[n - 1]
    BY <1>4, <2>1
  <2>3. QED
    BY <2>1, <2>2 DEF n
<1>6. g[n] = DecodeStep(g[n - 1], t, n)
  BY <1>2, <1>3
<1>7. DecodeStep(g[n - 1], t, n) = g[n - 1] \o t[n].lits
  BY Zenon DEF DecodeStep, n
<1>8. QED
  BY <1>5, <1>6, <1>7 DEF n

\* A copy brings back what is there already.
LEMMA CopyBackKeeps ==
  ASSUME NEW S, NEW out \in Seq(S), NEW offset \in 1..Len(out), NEW n \in Nat
  PROVE  CopyBack(out, offset, n) \in Seq(S)
<1> DEFINE copy == [j \in 1..n |-> out[Len(out) - offset + 1 + ((j - 1) % offset)]]
<1>1. ASSUME NEW j \in 1..n PROVE copy[j] \in S
  <2> DEFINE r == (j - 1) % offset
  <2>1. Len(out) \in Nat /\ offset \in Nat /\ offset > 0 /\ offset <= Len(out) /\ j - 1 \in Nat
    OBVIOUS
  <2>2. r \in 0..(offset - 1)
    BY <2>1
  <2> HIDE DEF r
  <2>3. Len(out) - offset + 1 + r \in 1..Len(out)
    BY <2>1, <2>2
  <2>4. copy[j] = out[Len(out) - offset + 1 + r]
    BY DEF r
  <2>5. QED
    BY <2>3, <2>4
<1>2. copy = [j \in 1..n |-> copy[j]]
  OBVIOUS
<1>3. CopyBack(out, offset, n) = out \o copy
  BY DEF CopyBack
<1> HIDE DEF copy
<1>4. copy \in Seq(S)
  BY <1>1, <1>2, ASequence
<1>5. QED
  BY <1>3, <1>4, ConcatProperties

\* Every run of a source is among its literals.
LEMMA RunAmongLiterals ==
  ASSUME NEW s, Encodable(s), WellFormed(s), NEW i \in 1..Len(s)
  PROVE  s[i].lits \in Seq(ToSet(LiteralsIn(s)))
<1> DEFINE w == LiteralsIn(s)
           u == Stored(s, i - 1)
           v == Stored(s, i)
           lits == s[i].lits
<1>1. /\ Len(s) \in Nat /\ Runs(s) \in Seq(Seq(Bytes)) /\ Len(Runs(s)) = Len(s) /\ w = FlattenSeq(Runs(s))
  BY SourceIs
<1>2. i \in 0..Len(s) /\ Len(s) \in 0..Len(s)
  BY <1>1
<1>3. Len(v) <= Len(w) /\ \A j \in 1..Len(v) : w[j] = v[j]
  BY <1>1, <1>2, FlatToPrefix DEF Stored
<1>4. u \in Seq(Bytes) /\ lits \in Seq(Bytes) /\ v = u \o lits
  BY WrittenStep
<1>5. w \in Seq(Bytes)
  <2>1. Stored(s, Len(s)) \in Seq(Bytes) /\ w = Stored(s, Len(s))
    BY <1>1, <1>2, FlatToType, FlatToSteps DEF Stored
  <2>2. QED
    BY <2>1
<1>6. IsJoin(v, u, lits) /\ Len(w) \in Nat
  BY <1>4, <1>5, Joined
<1> HIDE DEF w, u, v, lits
<1>7. ASSUME NEW j \in 1..Len(lits) PROVE lits[j] \in ToSet(w)
  <2>1. Len(u) + j \in 1..Len(v) /\ Len(u) + j \in 1..Len(w)
    BY <1>3, <1>6 DEF IsJoin
  <2>2. w[Len(u) + j] = lits[j]
    BY <1>3, <1>6, <2>1 DEF IsJoin
  <2>3. Len(u) + j \in DOMAIN w
    BY <1>5, <2>1
  <2>4. QED
    BY <2>2, <2>3 DEF ToSet
<1>8. lits = [j \in 1..Len(lits) |-> lits[j]] /\ Len(lits) \in Nat
  BY <1>4
<1>9. lits \in Seq(ToSet(w))
  BY <1>7, <1>8, ASequence
<1>10. QED
  BY <1>9 DEF lits, w

\* So is every byte of the decoded block, by the least sequence that would
\* bring another.
LEMMA DecodeAmongLiterals ==
  ASSUME NEW s, Encodable(s), WellFormed(s)
  PROVE  ToSet(Decode(s)) \subseteq ToSet(LiteralsIn(s))
<1> DEFINE S == ToSet(LiteralsIn(s))
<1>1. Len(s) \in Nat /\ \A i \in 1..Len(s) : s[i] \in SourceSequences /\ s[i].lits \in Seq(S)
  BY SourceIs, RunAmongLiterals
<1> HIDE DEF S
<1>2. PICK f : Decodes(f, s, Len(s)) /\ Decode(s) = f[Len(s)]
  BY <1>1, DecodeIs
<1>3. \A i \in 0..Len(s) : f[i] = IF i = 0 THEN <<>> ELSE DecodeStep(f[i - 1], s, i)
  BY <1>2, Zenon DEF Decodes
<1> DEFINE T == {i \in 0..Len(s) : f[i] \notin Seq(S)}
<1>4. T = {}
  <2>1. SUFFICES ASSUME T # {} PROVE FALSE
    OBVIOUS
  <2>2. PICK i \in T : \A k \in T : i <= k
    <3>1. T \subseteq Nat
      BY <1>1
    <3> HIDE DEF T
    <3>2. QED
      BY <2>1, <3>1, LeastNat
  <2>3. i # 0
    <3>1. f[0] = <<>> /\ <<>> \in Seq(S)
      BY <1>1, <1>3
    <3>2. QED
      BY <2>2, <3>1
  <2>4. i \in 1..Len(s) /\ i - 1 \in 0..Len(s) /\ i - 1 \notin T
    BY <1>1, <2>2, <2>3
  <2>5. f[i - 1] \in Seq(S) /\ s[i].lits \in Seq(S)
    BY <1>1, <2>4
  <2> DEFINE out == f[i - 1] \o s[i].lits
  <2>6. out \in Seq(S)
    BY <2>5, ConcatProperties
  <2>7. f[i] = IF i = Len(s) THEN out ELSE CopyBack(out, s[i].offset, s[i].match)
    BY <1>3, <2>3, <2>4 DEF DecodeStep
  <2>8. CASE i = Len(s)
    BY <2>2, <2>6, <2>7, <2>8
  <2>9. CASE i # Len(s)
    <3> DEFINE t == SubSeq(s, 1, i - 1) \o <<s[i]>>
    <3>1. s \in Seq(SourceSequences)
      BY DEF Encodable
    <3>2. Len(t) = i /\ \A j \in 1..i : t[j] = s[j]
      <4> DEFINE a == SubSeq(s, 1, i - 1)
                 c == <<s[i]>>
      <4>1. a \in Seq(SourceSequences) /\ Len(a) = i - 1 /\ \A j \in 1..(i - 1) : a[j] = s[j]
        BY <2>4, <3>1
      <4>2. c \in Seq(SourceSequences) /\ Len(c) = 1 /\ c[1] = s[i]
        BY <1>1, <2>4
      <4> HIDE DEF a, c
      <4>3. IsJoin(a \o c, a, c)
        BY <4>1, <4>2, Joined
      <4>4. Len(a \o c) = i
        BY <2>4, <4>1, <4>2, <4>3 DEF IsJoin
      <4>5. ASSUME NEW j \in 1..i PROVE (a \o c)[j] = s[j]
        <5>1. CASE j = i
          <6>1. 1 \in 1..Len(c) /\ j = Len(a) + 1
            BY <2>4, <4>1, <4>2, <5>1
          <6>2. QED
            BY <4>2, <4>3, <5>1, <6>1 DEF IsJoin
        <5>2. CASE j # i
          <6>1. j \in 1..(i - 1) /\ j \in 1..Len(a)
            BY <2>4, <4>1, <5>2
          <6>2. QED
            BY <4>1, <4>3, <6>1 DEF IsJoin
        <5>3. QED
          BY <5>1, <5>2
      <4>6. QED
        BY <4>4, <4>5 DEF a, c
    <3>3. i \in 1..(Len(s) - 1)
      BY <1>1, <2>4, <2>9
    <3>4. s[i].offset \in 1..Len(Decode(t))
      BY <3>3 DEF WellFormed
    <3> HIDE DEF t
    <3>5. Len(t) \in Nat /\ Len(t) \in 1..Len(s)
      BY <1>1, <2>4, <3>2
    <3>6. PICK g : Decodes(g, t, Len(t)) /\ Decode(t) = g[Len(t)]
      BY <3>5, DecodeIs
    <3>7. Decode(t) = out
      <4>1. g[Len(t)] = f[Len(t) - 1] \o s[Len(t)].lits
        <5>1. \A j \in 1..Len(t) : t[j] = s[j]
          BY <3>2
        <5>2. Decodes(f, s, Len(s)) /\ Decodes(g, t, Len(t)) /\ Len(s) \in Nat
          BY <1>1, <1>2, <3>6
        <5>3. QED
          BY <3>5, <5>1, <5>2, DecodesAlike, ZenonT(30)
      <4>2. QED
        BY <3>2, <3>6, <4>1
    <3>8. s[i].offset \in 1..Len(out) /\ s[i].match \in Nat
      BY <1>1, <2>4, <3>4, <3>7 DEF SourceSequences
    <3> HIDE DEF out
    <3>9. CopyBack(out, s[i].offset, s[i].match) \in Seq(S)
      BY <2>6, <3>8, CopyBackKeeps
    <3>10. QED
      BY <2>2, <2>7, <2>9, <3>9
  <2>10. QED
    BY <2>8, <2>9
<1>5. Decode(s) \in Seq(S)
  <2>1. Len(s) \in 0..Len(s) /\ Len(s) \notin T
    BY <1>1, <1>4
  <2>2. QED
    BY <1>2, <2>1
<1>6. ASSUME NEW b \in ToSet(Decode(s)) PROVE b \in S
  BY <1>5 DEF ToSet
<1>7. QED
  BY <1>6 DEF S

\* No byte of the decompressed block is missing from the literals extracted, so
\* a pattern of one byte is never missed.
THEOREM AlphabetKeptCorrect == Spec => []AlphabetKept
<1>1. ASSUME FInv PROVE AlphabetKept
  <2>1. SUFFICES ASSUME NEW s \in source, status = "ok", Intact(s), Len(LiteralsIn(s)) <= max_output
                 PROVE  ToSet(Decode(s)) \subseteq ToSet(literals)
    BY DEF AlphabetKept
  <2> DEFINE w == LiteralsIn(s)
  <2>2. TypeOK /\ Encodable(s) /\ WellFormed(s) /\ Follows(s)
    BY <1>1, SourceWellFormed DEF FInv
  <2>3. IsPrefix(literals, w) /\ Len(literals) = Least(Len(w), max_output)
    BY <2>1, <2>2, FollowsExtracts
  <2>4. Len(literals) = Len(w)
    BY <2>1, <2>3 DEF Least
  <2>5. w \in Seq(Bytes)
    <3>1. /\ Len(s) \in Nat /\ Runs(s) \in Seq(Seq(Bytes)) /\ Len(Runs(s)) = Len(s)
          /\ w = FlattenSeq(Runs(s))
      BY <2>2, SourceIs
    <3>2. Len(s) \in 0..Len(Runs(s))
      BY <3>1
    <3>3. FlatTo(Runs(s), Len(s)) \in Seq(Bytes) /\ FlatTo(Runs(s), Len(s)) = w
      BY <3>1, <3>2, FlatToType, FlatToSteps
    <3>4. QED
      BY <3>3
  <2>6. literals \in Seq(Bytes)
    BY <2>2 DEF TypeOK
  <2> HIDE DEF w
  <2>7. literals = w
    <3>1. SubSeq(literals, 1, Len(literals)) = SubSeq(w, 1, Len(literals))
      BY <2>3 DEF IsPrefix
    <3>2. SubSeq(literals, 1, Len(literals)) = literals /\ SubSeq(w, 1, Len(w)) = w
      BY <2>5, <2>6
    <3>3. QED
      BY <2>4, <3>1, <3>2
  <2>8. QED
    BY <2>2, <2>7, DecodeAmongLiterals DEF w
<1>2. QED
  BY <1>1, FollowsInvariance, PTL

=============================================================================
