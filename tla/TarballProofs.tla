---------------------------- MODULE TarballProofs ----------------------------
(***************************************************************************)
(* What a scan of a compressed tar archive returns, whatever the archive   *)
(* and the limits.                                                         *)
(*                                                                         *)
(* It keeps its limits however deep the archives lie in one another: in    *)
(* every archive that is open no more members are passed than allowed, no  *)
(* more literals are kept, those of the archives within it counted, and    *)
(* the walk stands at a whole block.                                       *)
(*                                                                         *)
(* And it returns what TarballSpec says, or an error where that refuses    *)
(* the archive.  The parts are the size field (Octal reads what is         *)
(* written), the name (the recursive check finds a component of two dots), *)
(* the offsets (rounding up passes a member and its padding), and the walk *)
(* (every archive that is open has kept the contents of the members it has *)
(* passed, and stands behind them).                                        *)
(***************************************************************************)
EXTENDS TarballSpec, DataLemmas

-----------------------------------------------------------------------------
(* Size fields.                                                            *)

States == [value : Nat, found : BOOLEAN, done : BOOLEAN, ok : BOOLEAN]
Start == [value |-> 0, found |-> FALSE, done |-> FALSE, ok |-> TRUE]

\* An octal digit is worth less than eight.
LEMMA DigitWorth == ASSUME NEW c \in Digits PROVE DigitValue(c) \in 0..7
<1>1. \E n \in 0..7 : <<"0", "1", "2", "3", "4", "5", "6", "7">>[n + 1] = c
  <2>1. \E n \in 1..8 : <<"0", "1", "2", "3", "4", "5", "6", "7">>[n] = c
    BY DEF Digits
  <2>2. PICK n \in 1..8 : <<"0", "1", "2", "3", "4", "5", "6", "7">>[n] = c
    BY <2>1
  <2>3. n - 1 \in 0..7 /\ (n - 1) + 1 = n
    BY <2>2
  <2>4. QED
    BY <2>2, <2>3
<1>2. QED
  BY <1>1 DEF DigitValue

\* Reading on, the value stays a number.
LEMMA AfterByteType == ASSUME NEW s \in States, NEW c PROVE AfterByte(s, c) \in States
<1>1. CASE c \in Digits
  <2>1. 8 * s.value + DigitValue(c) \in Nat
    BY <1>1, DigitWorth DEF States
  <2> DEFINE d == DigitValue(c)
  <2>2. 8 * s.value + d \in Nat
    BY <2>1
  <2>3. AfterByte(s, c) \in {s, [s EXCEPT !.done = TRUE], [s EXCEPT !.found = TRUE, !.value = 8 * @ + d]}
    BY <1>1 DEF AfterByte
  <2> HIDE DEF d
  <2>4. QED
    BY <2>2, <2>3 DEF States
<1>2. CASE c \notin Digits
  BY <1>2 DEF AfterByte, States
<1>3. QED
  BY <1>1, <1>2

\* The first powers of two.
LEMMA PowZero == 2^0 = 1
OBVIOUS

LEMMA Eight == 2^3 = 8
OBVIOUS

\* f reads the first n bytes of a field.
Reads(f, field, n) == f = [i \in 0..n |-> IF i = 0 THEN Start ELSE AfterByte(f[i - 1], field[i])]

\* It can be read to any length.
LEMMA ReadsExists ==
  ASSUME NEW field, NEW n \in Nat
  PROVE  \E f : Reads(f, field, n)
<1> DEFINE T == {m \in Nat : ~ \E f : Reads(f, field, m)}
<1>1. SUFFICES ASSUME T # {} PROVE FALSE
  OBVIOUS
<1>2. PICK m \in T : \A k \in T : m <= k
  <2>1. T \subseteq Nat
    OBVIOUS
  <2> HIDE DEF T
  <2>2. QED
    BY <1>1, <2>1, LeastNat
<1>3. CASE m = 0
  <2> DEFINE f == [i \in 0..0 |-> Start]
  <2>1. f = [i \in 0..0 |-> IF i = 0 THEN Start ELSE AfterByte(f[i - 1], field[i])]
    OBVIOUS
  <2>2. Reads(f, field, 0)
    BY <2>1 DEF Reads
  <2>3. QED
    BY <1>2, <1>3, <2>2
<1>4. CASE m # 0
  <2>1. m \in Nat /\ m - 1 \in Nat /\ m - 1 \notin T
    BY <1>2, <1>4
  <2>2. PICK g : Reads(g, field, m - 1)
    BY <2>1
  <2> DEFINE f == [i \in 0..m |-> IF i < m THEN g[i] ELSE AfterByte(g[i - 1], field[i])]
  <2>3. \A i \in 0..(m - 1) : g[i] = IF i = 0 THEN Start ELSE AfterByte(g[i - 1], field[i])
    BY <2>1, <2>2, Zenon DEF Reads
  <2>4. ASSUME NEW i \in 0..m PROVE f[i] = IF i = 0 THEN Start ELSE AfterByte(f[i - 1], field[i])
    <3>1. CASE i = 0
      <4>1. i < m /\ i \in 0..(m - 1)
        BY <1>4, <2>1, <3>1
      <4>2. f[i] = g[i] /\ g[i] = Start
        BY <2>3, <3>1, <4>1
      <4>3. QED
        BY <3>1, <4>2
    <3>2. CASE i # 0
      <4>1. i - 1 \in 0..m /\ i - 1 < m
        BY <2>1, <3>2
      <4>2. f[i - 1] = g[i - 1]
        BY <4>1
      <4>3. i < m => i \in 0..(m - 1)
        BY <2>1
      <4>4. f[i] = AfterByte(g[i - 1], field[i])
        BY <2>3, <3>2, <4>3
      <4>5. QED
        BY <3>2, <4>2, <4>4
    <3>3. QED
      BY <3>1, <3>2
  <2>5. f = [i \in 0..m |-> f[i]]
    OBVIOUS
  <2> HIDE DEF f
  <2>6. Reads(f, field, m)
    BY <2>4, <2>5, Zenon DEF Reads
  <2>7. QED
    BY <1>2, <2>6
<1>5. QED
  BY <1>3, <1>4

\* What has been read is a number at every byte.
LEMMA ReadsType ==
  ASSUME NEW field, NEW n \in Nat, NEW f, Reads(f, field, n)
  PROVE  \A i \in 0..n : f[i] \in States
<1> DEFINE T == {i \in 0..n : f[i] \notin States}
<1>1. SUFFICES ASSUME T # {} PROVE FALSE
  OBVIOUS
<1>2. PICK i \in T : \A k \in T : i <= k
  <2>1. T \subseteq Nat
    OBVIOUS
  <2> HIDE DEF T
  <2>2. QED
    BY <1>1, <2>1, LeastNat
<1>3. f[i] = IF i = 0 THEN Start ELSE AfterByte(f[i - 1], field[i])
  BY <1>2, Zenon DEF Reads
<1>4. CASE i = 0
  <2>1. Start \in States
    BY DEF Start, States
  <2>2. f[i] = Start
    BY <1>3, <1>4
  <2>3. QED
    BY <1>2, <2>1, <2>2
<1>5. CASE i # 0
  <2>1. i - 1 \in 0..n /\ i - 1 \notin T
    BY <1>2, <1>5
  <2>2. f[i - 1] \in States
    BY <2>1
  <2>3. QED
    BY <1>2, <1>3, <1>5, <2>2, AfterByteType
<1>6. QED
  BY <1>4, <1>5

\* A size field is worth a natural number, or nothing.
LEMMA OctalType == ASSUME NEW field \in Seq(STRING) PROVE Octal(field) \subseteq Nat
<1> DEFINE after == CHOOSE f : Reads(f, field, Len(field))
<1>1. Len(field) \in Nat
  OBVIOUS
<1>2. Reads(after, field, Len(field))
  BY <1>1, ReadsExists, Zenon
<1>3. Octal(field) = IF after[Len(field)].ok THEN {after[Len(field)].value} ELSE {}
  BY Zenon DEF Octal, Reads, Start
<1> HIDE DEF after
<1>4. after[Len(field)] \in States
  <2>1. Len(field) \in 0..Len(field)
    BY <1>1
  <2>2. \A i \in 0..Len(field) : after[i] \in States
    BY <1>1, <1>2, ReadsType, Zenon
  <2>3. QED
    BY <2>1, <2>2
<1>5. QED
  BY <1>3, <1>4 DEF States

\* A number of digits and one more: eight times as much, and the digit.
LEMMA WorthNext ==
  ASSUME NEW field, NEW i \in Nat, NEW j \in Nat, i >= 1, i <= j + 1, \A k \in i..(j + 1) : field[k] \in Digits
  PROVE  Worth(field, i, j) \in Nat /\ Worth(field, i, j + 1) = 8 * Worth(field, i, j) + DigitValue(field[j + 1])
<1> DEFINE h == [k \in i..j |-> DigitValue(field[k]) * 2^(3 * (j - k))]
           g == [k \in i..(j + 1) |-> DigitValue(field[k]) * 2^(3 * (j + 1 - k))]
           S == i..j
           T == i..(j + 1)
<1>1. IsFiniteSet(S) /\ IsFiniteSet(T) /\ T \ {j + 1} = S /\ j + 1 \in T /\ S \subseteq T
  BY FS_Interval
<1>2. ASSUME NEW k \in S
      PROVE  h[k] \in Nat /\ g[k] = 8 * h[k]
  <2>1. k \in Nat /\ 3 * (j - k) \in Nat /\ 3 * (j + 1 - k) = 3 * (j - k) + 3 /\ k \in T
    OBVIOUS
  <2>2. DigitValue(field[k]) \in Nat
    BY <2>1, DigitWorth
  <2> DEFINE d == DigitValue(field[k])
             p == 2^(3 * (j - k))
  <2>3. 2^(3 * (j + 1 - k)) = p * 8 /\ p \in Nat
    <3> DEFINE m == 3 * (j - k)
    <3>1. m \in Nat /\ 3 * (j + 1 - k) = m + 3
      BY <2>1
    <3> HIDE DEF m
    <3>2. 3 \in Nat
      OBVIOUS
    <3>3. 2^(m + 3) = 2^m * 2^3 /\ 2^m \in Nat
      BY <3>1, <3>2, PowAdd, PowType
    <3>4. 2^(m + 3) = 2^m * 8
      BY <3>3, Eight, Zenon
    <3>5. 2^(3 * (j + 1 - k)) = 2^(m + 3)
      BY <3>1, Zenon
    <3>6. QED
      BY <3>3, <3>4, <3>5, Zenon DEF m
  <2>4. h[k] = d * p /\ g[k] = d * 2^(3 * (j + 1 - k))
    BY <2>1
  <2> HIDE DEF d, p, h, g
  <2>5. d * (p * 8) = 8 * (d * p) /\ d * p \in Nat
    BY <2>2, <2>3 DEF d
  <2>6. QED
    BY <2>3, <2>4, <2>5
<1>3. g[j + 1] = DigitValue(field[j + 1]) /\ g[j + 1] \in Nat
  <2>1. 3 * (j + 1 - (j + 1)) = 0 /\ 2^0 = 1
    BY PowZero
  <2>2. DigitValue(field[j + 1]) \in Nat
    BY <1>1, DigitWorth
  <2> DEFINE d == DigitValue(field[j + 1])
  <2>3. g[j + 1] = d * 2^(3 * (j + 1 - (j + 1)))
    BY <1>1
  <2> HIDE DEF d, g
  <2>4. g[j + 1] = d * 1
    BY <2>1, <2>3, Zenon
  <2>5. d * 1 = d /\ d \in Nat
    BY <2>2 DEF d
  <2>6. QED
    BY <2>4, <2>5 DEF d
<1>4. Worth(field, i, j) = SumFunctionOnSet(h, S) /\ Worth(field, i, j + 1) = SumFunctionOnSet(g, T)
  <2>1. Worth(field, i, j) = SumFunction(h)
    BY DEF Worth
  <2>0. Worth(field, i, j + 1) = SumFunction(g)
    BY DEF Worth
  <2>2. DOMAIN h = S /\ DOMAIN g = T
    OBVIOUS
  <2> HIDE DEF h, g, S, T
  <2>3. QED
    BY <2>0, <2>1, <2>2, Zenon DEF SumFunction
<1> HIDE DEF h, g, S, T
<1>5. \A k \in T : g[k] \in Nat
  <2>1. \A k \in T : k \in S \/ k = j + 1
    BY <1>1
  <2>2. QED
    BY <1>2, <1>3, <2>1
<1>6. SumFunctionOnSet(g, T) = g[j + 1] + SumFunctionOnSet(g, S)
  BY <1>1, <1>5, SumRemove
<1>7. SumFunctionOnSet(g, S) = 8 * SumFunctionOnSet(h, S)
  BY <1>1, <1>2, SumScale
<1>8. SumFunctionOnSet(h, S) \in Nat
  BY <1>1, <1>2, SumType
<1>9. QED
  BY <1>3, <1>4, <1>6, <1>7, <1>8

\* No digits are worth nothing.
LEMMA WorthNone ==
  ASSUME NEW field, NEW i \in Nat
  PROVE  Worth(field, i, i - 1) = 0
<1>1. i..(i - 1) = {}
  OBVIOUS
<1>2. QED
  BY <1>1, SumEmpty DEF Worth, SumFunction

\* What is known of a field after n bytes: nothing but blanks, the first digits, a
\* number that is over, or a byte that has no place in a number.
Blanks(field, n) == \A k \in 1..n : field[k] = Blank
OnlyDigits(field, i, j) == \A k \in i..j : field[k] \in Digits
Digit(value, done) == [value |-> value, found |-> TRUE, done |-> done, ok |-> TRUE]

NoneYet(field, n, s) == Blanks(field, n) /\ s = Start
InDigits(field, n, s) ==
  \E i \in 1..n : Blanks(field, i - 1) /\ OnlyDigits(field, i, n) /\ s = Digit(Worth(field, i, n), FALSE)
PastDigits(field, n, s) ==
  \E i \in 1..n : \E j \in i..(n - 1) :
     /\ Blanks(field, i - 1) /\ OnlyDigits(field, i, j) /\ field[j + 1] = Blank
     /\ s = Digit(Worth(field, i, j), TRUE)
Broken(field, n, s) ==
  \E i \in 1..n : \E j \in (i - 1)..(n - 1) :
     /\ Blanks(field, i - 1) /\ OnlyDigits(field, i, j) /\ field[j + 1] \notin Digits /\ field[j + 1] # Blank
     /\ s.done /\ ~s.ok

ReadAs(field, n, s) ==
  NoneYet(field, n, s) \/ InDigits(field, n, s) \/ PastDigits(field, n, s) \/ Broken(field, n, s)

\* A blank is no digit.
LEMMA BlankNoDigit == Blank \notin Digits
BY DEF Blank, Digits

\* One byte more.
LEMMA ReadAsNext ==
  ASSUME NEW field, NEW n \in Nat, NEW s, ReadAs(field, n, s)
  PROVE  ReadAs(field, n + 1, AfterByte(s, field[n + 1]))
<1> DEFINE c == field[n + 1]
           t == AfterByte(s, c)
<1>1. n + 1 \in 1..(n + 1) /\ (n + 1) - 1 = n /\ n \in Nat /\ n + 1 \in Nat
      /\ \A k \in 1..(n + 1) : k \in 1..n \/ k = n + 1
  OBVIOUS
<1>2. CASE NoneYet(field, n, s)
  <2>1. s = Start /\ ~s.done /\ ~s.found /\ s.value = 0 /\ s.ok /\ Blanks(field, n)
    BY <1>2 DEF NoneYet, Start
  <2>2. CASE c = Blank
    <3>1. t = s
      BY <2>1, <2>2 DEF AfterByte
    <3>2. Blanks(field, n + 1)
      BY <1>1, <2>1, <2>2 DEF Blanks
    <3>3. QED
      BY <2>1, <3>1, <3>2 DEF ReadAs, NoneYet
  <2>3. CASE c \in Digits
    <3>1. c # Blank
      BY <2>3, BlankNoDigit
    <3>2. t = [s EXCEPT !.found = TRUE, !.value = 8 * @ + DigitValue(c)]
      BY <2>1, <2>3, <3>1 DEF AfterByte
    <3>3. DigitValue(c) \in Nat
      BY <2>3, DigitWorth
    <3>4. Worth(field, n + 1, n) = 0
      BY <1>1, WorthNone
    <3>5. OnlyDigits(field, n + 1, n + 1) /\ \A k \in (n + 1)..(n + 1) : field[k] \in Digits
      BY <1>1, <2>3 DEF OnlyDigits
    <3>6. Worth(field, n + 1, n + 1) = 8 * 0 + DigitValue(c)
      BY <1>1, <3>4, <3>5, WorthNext
    <3> DEFINE d == DigitValue(c)
               w == Worth(field, n + 1, n + 1)
    <3>7. t = [value |-> 8 * 0 + d, found |-> TRUE, done |-> FALSE, ok |-> TRUE]
      BY <2>1, <3>2 DEF Start
    <3> HIDE DEF d, w, t
    <3>8. t = Digit(w, FALSE)
      BY <3>6, <3>7 DEF Digit, d, w
    <3>9. \E i \in 1..(n + 1) : Blanks(field, i - 1) /\ OnlyDigits(field, i, n + 1) /\ t = Digit(Worth(field, i, n + 1), FALSE)
      BY <1>1, <2>1, <3>5, <3>8, Zenon DEF w
    <3>10. QED
      BY <3>9 DEF ReadAs, InDigits, t
  <2>4. CASE c # Blank /\ c \notin Digits
    <3>1. t = [s EXCEPT !.done = TRUE, !.ok = FALSE]
      BY <2>1, <2>4 DEF AfterByte
    <3>2. t.done /\ ~t.ok
      BY <2>1, <3>1 DEF Start
    <3>3. n \in ((n + 1) - 1)..((n + 1) - 1) /\ OnlyDigits(field, n + 1, n)
      BY DEF OnlyDigits
    <3>4. Broken(field, n + 1, t)
      BY <1>1, <2>1, <2>4, <3>2, <3>3, Zenon DEF Broken
    <3>5. QED
      BY <3>4 DEF ReadAs
  <2>5. QED
    BY <2>2, <2>3, <2>4
<1>3. CASE InDigits(field, n, s)
  <2>1. PICK i \in 1..n : Blanks(field, i - 1) /\ OnlyDigits(field, i, n) /\ s = Digit(Worth(field, i, n), FALSE)
    BY <1>3 DEF InDigits
  <2>2. i \in Nat /\ i >= 1 /\ i <= n + 1 /\ i \in 1..(n + 1) /\ n \in i..((n + 1) - 1) /\ n \in (i - 1)..((n + 1) - 1)
    BY <1>1, <2>1
  <2>3. s.value = Worth(field, i, n) /\ s.found /\ ~s.done /\ s.ok
    BY <2>1 DEF Digit
  <2>4. CASE c = Blank
    <3>1. t = [s EXCEPT !.done = TRUE]
      BY <2>3, <2>4 DEF AfterByte
    <3> DEFINE w == Worth(field, i, n)
    <3>2. t = Digit(w, TRUE)
      <4>1. s = Digit(w, FALSE)
        BY <2>1
      <4> HIDE DEF w, t
      <4>2. QED
        BY <3>1, <4>1 DEF Digit
    <3>3. PastDigits(field, n + 1, t)
      BY <2>1, <2>2, <2>4, <3>2, Zenon DEF PastDigits
    <3>4. QED
      BY <3>3 DEF ReadAs
  <2>5. CASE c \in Digits
    <3>1. c # Blank
      BY <2>5, BlankNoDigit
    <3>2. t = [s EXCEPT !.found = TRUE, !.value = 8 * @ + DigitValue(c)]
      BY <2>3, <2>5, <3>1 DEF AfterByte
    <3>3. OnlyDigits(field, i, n + 1)
      <4>1. \A k \in i..(n + 1) : k \in i..n \/ k = n + 1
        BY <2>2
      <4>2. QED
        BY <2>1, <2>5, <4>1 DEF OnlyDigits
    <3> DEFINE w == Worth(field, i, n)
               v == Worth(field, i, n + 1)
               d == DigitValue(c)
    <3>4. v = 8 * w + d
      <4>1. \A k \in i..(n + 1) : field[k] \in Digits
        BY <3>3 DEF OnlyDigits
      <4>2. QED
        BY <2>2, <4>1, WorthNext
    <3>5. t = Digit(v, FALSE)
      <4>1. s = Digit(w, FALSE)
        BY <2>1
      <4>2. t = [s EXCEPT !.found = TRUE, !.value = 8 * @ + d]
        BY <3>2
      <4> HIDE DEF w, t, v, d
      <4>3. t = [value |-> 8 * w + d, found |-> TRUE, done |-> FALSE, ok |-> TRUE]
        BY <4>1, <4>2 DEF Digit
      <4>4. QED
        BY <3>4, <4>3 DEF Digit
    <3>6. InDigits(field, n + 1, t)
      BY <2>1, <2>2, <3>3, <3>5, Zenon DEF InDigits
    <3>7. QED
      BY <3>6 DEF ReadAs
  <2>6. CASE c # Blank /\ c \notin Digits
    <3>1. t = [s EXCEPT !.done = TRUE, !.ok = FALSE]
      BY <2>3, <2>6 DEF AfterByte
    <3>2. t.done /\ ~t.ok
      BY <2>1, <3>1 DEF Digit
    <3>3. Broken(field, n + 1, t)
      BY <2>1, <2>2, <2>6, <3>2, Zenon DEF Broken
    <3>4. QED
      BY <3>3 DEF ReadAs
  <2>7. QED
    BY <2>4, <2>5, <2>6
<1>4. CASE PastDigits(field, n, s)
  <2>1. s.done
    BY <1>4 DEF PastDigits, Digit
  <2>2. t = s
    BY <2>1 DEF AfterByte
  <2>3. \A i \in 1..n : i \in 1..(n + 1) /\ \A j \in i..(n - 1) : j \in i..((n + 1) - 1)
    OBVIOUS
  <2>4. PastDigits(field, n + 1, s)
    BY <1>4, <2>3, Zenon DEF PastDigits
  <2>5. QED
    BY <2>2, <2>4 DEF ReadAs
<1>5. CASE Broken(field, n, s)
  <2>1. s.done
    BY <1>5 DEF Broken
  <2>2. t = s
    BY <2>1 DEF AfterByte
  <2>3. \A i \in 1..n : i \in 1..(n + 1) /\ \A j \in (i - 1)..(n - 1) : j \in (i - 1)..((n + 1) - 1)
    OBVIOUS
  <2>4. Broken(field, n + 1, s)
    BY <1>5, <2>3, Zenon DEF Broken
  <2>5. QED
    BY <2>2, <2>4 DEF ReadAs
<1>6. QED
  BY <1>2, <1>3, <1>4, <1>5 DEF ReadAs

\* All of a field.
LEMMA ReadAsAll ==
  ASSUME NEW field, NEW n \in Nat, NEW f, Reads(f, field, n)
  PROVE  ReadAs(field, n, f[n])
<1> DEFINE P == {k \in 0..n : ReadAs(field, k, f[k])}
<1>1. \A i \in 0..n : f[i] = IF i = 0 THEN Start ELSE AfterByte(f[i - 1], field[i])
  BY Zenon DEF Reads
<1>2. 0 \in P
  <2>1. 0 \in 0..n
    OBVIOUS
  <2>2. f[0] = Start /\ Blanks(field, 0)
    BY <1>1, <2>1 DEF Blanks
  <2>3. QED
    BY <2>1, <2>2 DEF ReadAs, NoneYet
<1>3. ASSUME NEW k \in 0..(n - 1), k \in P PROVE k + 1 \in P
  <2>1. k \in Nat /\ k + 1 \in 0..n /\ k + 1 # 0 /\ (k + 1) - 1 = k /\ ReadAs(field, k, f[k])
    BY <1>3
  <2>2. f[k + 1] = AfterByte(f[k], field[k + 1])
    BY <1>1, <2>1
  <2>3. ReadAs(field, k + 1, f[k + 1])
    BY <2>1, <2>2, ReadAsNext
  <2>4. QED
    BY <2>1, <2>3
<1> HIDE DEF P
<1>4. \A k \in 0..n : k \in P
  <2>1. \A k \in 0..(n - 1) : k \in P => k + 1 \in P
    BY <1>3
  <2>2. QED
    BY <1>2, <2>1, UpTo
<1>5. n \in P
  BY <1>4
<1>6. QED
  BY <1>5 DEF P

\* The digits of a field are where they are.
LEMMA DigitsOnce ==
  ASSUME NEW field \in Seq(STRING),
         NEW i \in 1..(Len(field) + 1), NEW j \in 0..Len(field), DigitsOf(field, i, j),
         NEW a \in 1..(Len(field) + 1), NEW b \in 0..Len(field), DigitsOf(field, a, b)
  PROVE  i = a /\ j = b
<1>1. Len(field) \in Nat /\ i \in Nat /\ j \in Nat /\ a \in Nat /\ b \in Nat /\ i - 1 <= j /\ a - 1 <= b
  BY DEF DigitsOf
<1>2. ~(i < a)
  <2>1. SUFFICES ASSUME i < a PROVE FALSE
    OBVIOUS
  <2>2. i \in 1..(a - 1) /\ i <= Len(field)
    BY <1>1, <2>1
  <2>3. field[i] = Blank /\ i <= j
    BY <2>2 DEF DigitsOf
  <2>4. i \in i..j
    BY <1>1, <2>3
  <2>5. QED
    BY <2>3, <2>4, BlankNoDigit DEF DigitsOf
<1>3. ~(a < i)
  <2>1. SUFFICES ASSUME a < i PROVE FALSE
    OBVIOUS
  <2>2. a \in 1..(i - 1) /\ a <= Len(field)
    BY <1>1, <2>1
  <2>3. field[a] = Blank /\ a <= b
    BY <2>2 DEF DigitsOf
  <2>4. a \in a..b
    BY <1>1, <2>3
  <2>5. QED
    BY <2>3, <2>4, BlankNoDigit DEF DigitsOf
<1>4. i = a
  BY <1>1, <1>2, <1>3
<1>5. ~(j < b)
  <2>1. SUFFICES ASSUME j < b PROVE FALSE
    OBVIOUS
  <2>2. j < Len(field) /\ j + 1 \in a..b
    BY <1>1, <1>4, <2>1
  <2>3. QED
    BY <2>2, BlankNoDigit DEF DigitsOf
<1>6. ~(b < j)
  <2>1. SUFFICES ASSUME b < j PROVE FALSE
    OBVIOUS
  <2>2. b < Len(field) /\ b + 1 \in i..j
    BY <1>1, <1>4, <2>1
  <2>3. QED
    BY <2>2, BlankNoDigit DEF DigitsOf
<1>7. QED
  BY <1>1, <1>4, <1>5, <1>6

\* So a field with digits writes what they are worth and nothing else.
LEMMA WrittenIs ==
  ASSUME NEW field \in Seq(STRING),
         NEW i \in 1..(Len(field) + 1), NEW j \in 0..Len(field), DigitsOf(field, i, j)
  PROVE  Written(field) = {Worth(field, i, j)}
<1> DEFINE Q == {q \in (1..(Len(field) + 1)) \X (0..Len(field)) : DigitsOf(field, q[1], q[2])}
<1>1. ASSUME NEW q \in Q PROVE q[1] = i /\ q[2] = j
  <2>1. q[1] \in 1..(Len(field) + 1) /\ q[2] \in 0..Len(field) /\ DigitsOf(field, q[1], q[2])
    OBVIOUS
  <2>2. QED
    BY <2>1, DigitsOnce
<1>2. <<i, j>> \in Q
  OBVIOUS
<1>3. Written(field) = {Worth(field, q[1], q[2]) : q \in Q}
  BY Zenon DEF Written
<1> HIDE DEF Q
<1>4. <<i, j>>[1] = i /\ <<i, j>>[2] = j
  OBVIOUS
<1>5. QED
  BY <1>1, <1>2, <1>3, <1>4

\* The parser reads what is written: parse_tar_octal_usize is right about every field.
LEMMA OctalIsWritten ==
  ASSUME NEW field \in Seq(STRING)
  PROVE  Octal(field) = Written(field)
<1> DEFINE n == Len(field)
           after == CHOOSE f : Reads(f, field, n)
           s == after[n]
<1>1. n \in Nat
  OBVIOUS
<1>2. Reads(after, field, n)
  BY <1>1, ReadsExists, Zenon
<1>3. Octal(field) = IF s.ok THEN {s.value} ELSE {}
  BY Zenon DEF Octal, Reads, Start
<1> HIDE DEF after
<1>4. ReadAs(field, n, s)
  BY <1>1, <1>2, ReadAsAll, Zenon
<1> HIDE DEF s
<1>5. CASE NoneYet(field, n, s)
  <2>1. s.ok /\ s.value = 0 /\ Blanks(field, n)
    BY <1>5 DEF NoneYet, Start
  <2>2. n + 1 \in 1..(n + 1) /\ n \in 0..n /\ (n + 1) - 1 = n
    BY <1>1
  <2>3. DigitsOf(field, n + 1, n)
    BY <1>1, <2>1, <2>2 DEF DigitsOf, Blanks
  <2>4. Worth(field, n + 1, n) = 0
    BY <1>1, <2>2, WorthNone
  <2>5. Written(field) = {Worth(field, n + 1, n)}
    BY <2>2, <2>3, WrittenIs
  <2>6. QED
    BY <1>3, <2>1, <2>4, <2>5
<1>6. CASE InDigits(field, n, s)
  <2>1. PICK i \in 1..n : Blanks(field, i - 1) /\ OnlyDigits(field, i, n) /\ s = Digit(Worth(field, i, n), FALSE)
    BY <1>6 DEF InDigits
  <2>2. i \in 1..(n + 1) /\ n \in 0..n /\ i - 1 <= n /\ i <= n /\ ~(n < n)
    BY <1>1
  <2>3. DigitsOf(field, i, n)
    BY <2>1, <2>2 DEF DigitsOf, Blanks, OnlyDigits
  <2>4. Written(field) = {Worth(field, i, n)}
    BY <2>2, <2>3, WrittenIs
  <2>5. s.ok /\ s.value = Worth(field, i, n)
    BY <2>1 DEF Digit
  <2>6. QED
    BY <1>3, <2>4, <2>5
<1>7. CASE PastDigits(field, n, s)
  <2>0. PICK i \in 1..n : \E j \in i..(n - 1) :
           /\ Blanks(field, i - 1) /\ OnlyDigits(field, i, j) /\ field[j + 1] = Blank
           /\ s = Digit(Worth(field, i, j), TRUE)
    BY <1>7 DEF PastDigits
  <2>1. PICK j \in i..(n - 1) :
           /\ Blanks(field, i - 1) /\ OnlyDigits(field, i, j) /\ field[j + 1] = Blank
           /\ s = Digit(Worth(field, i, j), TRUE)
    BY <2>0
  <2>2. i \in 1..(n + 1) /\ j \in 0..n /\ i - 1 <= j /\ i <= j
    BY <1>1
  <2>3. DigitsOf(field, i, j)
    BY <2>1, <2>2 DEF DigitsOf, Blanks, OnlyDigits
  <2>4. Written(field) = {Worth(field, i, j)}
    BY <2>2, <2>3, WrittenIs
  <2>5. s.ok /\ s.value = Worth(field, i, j)
    BY <2>1 DEF Digit
  <2>6. QED
    BY <1>3, <2>4, <2>5
<1>8. CASE Broken(field, n, s)
  <2>0. PICK i \in 1..n : \E j \in (i - 1)..(n - 1) :
           /\ Blanks(field, i - 1) /\ OnlyDigits(field, i, j) /\ field[j + 1] \notin Digits /\ field[j + 1] # Blank
           /\ s.done /\ ~s.ok
    BY <1>8 DEF Broken
  <2>1. PICK j \in (i - 1)..(n - 1) :
           /\ Blanks(field, i - 1) /\ OnlyDigits(field, i, j) /\ field[j + 1] \notin Digits /\ field[j + 1] # Blank
           /\ s.done /\ ~s.ok
    BY <2>0
  <2>2. ASSUME NEW a \in 1..(n + 1), NEW b \in 0..n, DigitsOf(field, a, b) PROVE FALSE
    <3>1. i \in Nat /\ j \in Nat /\ a \in Nat /\ b \in Nat /\ a - 1 <= b /\ i <= j + 1 /\ j < n /\ i <= n
      BY <1>1, <2>2 DEF DigitsOf
    <3>2. ~(a < i)
      <4>1. SUFFICES ASSUME a < i PROVE FALSE
        OBVIOUS
      <4>2. a \in 1..(i - 1) /\ a <= n
        BY <3>1, <4>1
      <4>3. field[a] = Blank /\ a <= b
        BY <2>1, <2>2, <4>2 DEF DigitsOf, Blanks
      <4>4. a \in a..b
        BY <3>1, <4>3
      <4>5. QED
        BY <2>2, <4>3, <4>4, BlankNoDigit DEF DigitsOf
    <3>3. ~(i < a)
      <4>1. SUFFICES ASSUME i < a PROVE FALSE
        OBVIOUS
      <4>2. i \in 1..(a - 1)
        BY <3>1, <4>1
      <4>3. field[i] = Blank
        BY <2>2, <4>2 DEF DigitsOf
      <4>4. i \in i..j \/ i = j + 1
        BY <3>1
      <4>5. QED
        BY <2>1, <4>3, <4>4, BlankNoDigit DEF OnlyDigits
    <3>4. i = a /\ i <= b
      <4>1. i = a
        BY <3>1, <3>2, <3>3
      <4>2. QED
        BY <2>2, <3>1, <4>1 DEF DigitsOf
    <3>5. ~(b < j)
      <4>1. SUFFICES ASSUME b < j PROVE FALSE
        OBVIOUS
      <4>2. b < n /\ b + 1 \in i..j
        BY <3>1, <3>4, <4>1
      <4>3. QED
        BY <2>1, <2>2, <4>2, BlankNoDigit DEF DigitsOf, OnlyDigits
    <3>6. b # j
      BY <2>1, <2>2, <3>1 DEF DigitsOf
    <3>7. j + 1 \in a..b
      BY <3>1, <3>4, <3>5, <3>6
    <3>8. QED
      BY <2>1, <2>2, <3>7 DEF DigitsOf
  <2> DEFINE Q == {q \in (1..(n + 1)) \X (0..n) : DigitsOf(field, q[1], q[2])}
  <2>3. Q = {}
    <3>1. SUFFICES ASSUME NEW q \in Q PROVE FALSE
      OBVIOUS
    <3>2. q[1] \in 1..(n + 1) /\ q[2] \in 0..n /\ DigitsOf(field, q[1], q[2])
      OBVIOUS
    <3>3. QED
      BY <2>2, <3>2
  <2>4. Written(field) = {Worth(field, q[1], q[2]) : q \in Q}
    BY Zenon DEF Written
  <2> HIDE DEF Q
  <2>5. Written(field) = {}
    BY <2>3, <2>4
  <2>6. QED
    BY <1>3, <2>1, <2>5
<1>9. QED
  BY <1>4, <1>5, <1>6, <1>7, <1>8 DEF ReadAs

-----------------------------------------------------------------------------
(* Names.                                                                  *)

\* What the first bytes are, the last, and those in the middle.
LEMMA BeginsWith ==
  ASSUME NEW S, NEW q \in Seq(S), NEW a \in S, NEW b \in S, NEW c \in S
  PROVE  /\ IsPrefix(<<a, b>>, q) <=> Len(q) >= 2 /\ q[1] = a /\ q[2] = b
         /\ IsPrefix(<<a, b, c>>, q) <=> Len(q) >= 3 /\ q[1] = a /\ q[2] = b /\ q[3] = c
<1>1. Len(q) \in Nat /\ \A i \in 1..Len(q) : q[i] \in S
  OBVIOUS
<1>2. ASSUME Len(q) >= 2 PROVE SubSeq(q, 1, 2) = <<a, b>> <=> q[1] = a /\ q[2] = b
  <2> DEFINE r == SubSeq(q, 1, 2)
  <2>1. \A k \in 1..2 : q[k] \in S
    BY <1>1, <1>2
  <2>2. /\ r \in Seq(S) /\ Len(r) = IF 1 <= 2 THEN 2 - 1 + 1 ELSE 0
        /\ \A k \in 1..(2 - 1 + 1) : r[k] = q[1 + k - 1]
    BY <2>1, SubSeqProperties
  <2>3. Len(r) = 2 /\ r[1] = q[1] /\ r[2] = q[2]
    <3> HIDE DEF r
    <3>1. 1 \in 1..(2 - 1 + 1) /\ 2 \in 1..(2 - 1 + 1) /\ 1 + 1 - 1 = 1 /\ 1 + 2 - 1 = 2
      OBVIOUS
    <3>2. QED
      BY <2>2, <3>1
  <2> HIDE DEF r
  <2>4. <<a, b>> \in Seq(S) /\ Len(<<a, b>>) = 2 /\ <<a, b>>[1] = a /\ <<a, b>>[2] = b
    OBVIOUS
  <2>5. ASSUME q[1] = a, q[2] = b PROVE r = <<a, b>>
    <3>1. \A k \in 1..2 : k = 1 \/ k = 2
      OBVIOUS
    <3>2. Len(r) = Len(<<a, b>>) /\ \A k \in 1..Len(r) : r[k] = <<a, b>>[k]
      BY <2>3, <2>4, <2>5, <3>1
    <3>3. QED
      BY <2>2, <2>4, <3>2, SeqEqual
  <2>6. r = <<a, b>> => q[1] = a /\ q[2] = b
    BY <2>3, <2>4
  <2>7. QED
    BY <2>5, <2>6 DEF r
<1>3. ASSUME Len(q) >= 3 PROVE SubSeq(q, 1, 3) = <<a, b, c>> <=> q[1] = a /\ q[2] = b /\ q[3] = c
  <2> DEFINE r == SubSeq(q, 1, 3)
             s == <<a, b, c>>
  <2>1. \A k \in 1..3 : q[k] \in S
    BY <1>1, <1>3
  <2>2. /\ r \in Seq(S) /\ Len(r) = IF 1 <= 3 THEN 3 - 1 + 1 ELSE 0
        /\ \A k \in 1..(3 - 1 + 1) : r[k] = q[1 + k - 1]
    BY <2>1, SubSeqProperties
  <2>3. Len(r) = 3 /\ r[1] = q[1] /\ r[2] = q[2] /\ r[3] = q[3]
    <3> HIDE DEF r
    <3>1. 1 \in 1..(3 - 1 + 1) /\ 2 \in 1..(3 - 1 + 1) /\ 3 \in 1..(3 - 1 + 1) /\ 1 + 1 - 1 = 1 /\ 1 + 2 - 1 = 2 /\ 1 + 3 - 1 = 3
      OBVIOUS
    <3>2. QED
      BY <2>2, <3>1
  <2>4. s \in Seq(S) /\ Len(s) = 3 /\ s[1] = a /\ s[2] = b /\ s[3] = c
    OBVIOUS
  <2> HIDE DEF r, s
  <2>5. ASSUME q[1] = a, q[2] = b, q[3] = c PROVE r = s
    <3>1. \A k \in 1..3 : k = 1 \/ k = 2 \/ k = 3
      OBVIOUS
    <3>2. Len(r) = Len(s) /\ \A k \in 1..Len(r) : r[k] = s[k]
      BY <2>3, <2>4, <2>5, <3>1
    <3>3. QED
      BY <2>2, <2>4, <3>2, SeqEqual
  <2>6. r = s => q[1] = a /\ q[2] = b /\ q[3] = c
    BY <2>3, <2>4
  <2>7. QED
    BY <2>5, <2>6 DEF r, s
<1>4. SubSeq(<<a, b>>, 1, 2) = <<a, b>> /\ SubSeq(<<a, b, c>>, 1, 3) = <<a, b, c>>
  <2>1. <<a, b>> \in Seq(S) /\ <<a, b, c>> \in Seq(S) /\ Len(<<a, b>>) = 2 /\ Len(<<a, b, c>>) = 3
    OBVIOUS
  <2>2. \A x \in Seq(S) : SubSeq(x, 1, Len(x)) = x
    OBVIOUS
  <2>3. QED
    BY <2>1, <2>2
<1>5. Len(<<a, b>>) = 2 /\ Len(<<a, b, c>>) = 3
  OBVIOUS
<1>6. IsPrefix(<<a, b>>, q) <=> Len(q) >= 2 /\ SubSeq(q, 1, 2) = <<a, b>>
  BY <1>1, <1>4, <1>5 DEF IsPrefix
<1>7. IsPrefix(<<a, b, c>>, q) <=> Len(q) >= 3 /\ SubSeq(q, 1, 3) = <<a, b, c>>
  BY <1>1, <1>4, <1>5 DEF IsPrefix
<1>8. QED
  BY <1>2, <1>3, <1>6, <1>7

LEMMA EndsWith ==
  ASSUME NEW S, NEW q \in Seq(S), NEW a \in S, NEW b \in S, NEW c \in S
  PROVE  IsSuffix(<<a, b, c>>, q)
         <=> Len(q) >= 3 /\ q[Len(q) - 2] = a /\ q[Len(q) - 1] = b /\ q[Len(q)] = c
<1> DEFINE n == Len(q)
           r == Reverse(q)
<1>1. n \in Nat /\ DOMAIN q = 1..n /\ \A i \in 1..n : q[i] \in S
  OBVIOUS
<1>2. r \in Seq(S) /\ Len(r) = n /\ \A i \in 1..n : r[i] = q[(n - i) + 1]
  <2>1. r = [i \in 1..n |-> q[(n - i) + 1]]
    BY DEF Reverse
  <2>2. \A i \in 1..n : (n - i) + 1 \in 1..n
    BY <1>1
  <2> HIDE DEF n, r
  <2>3. \A i \in 1..n : r[i] = q[(n - i) + 1] /\ r[i] \in S
    BY <1>1, <2>1, <2>2
  <2>4. r = [i \in 1..n |-> r[i]]
    BY <2>1
  <2>5. QED
    BY <1>1, <2>3, <2>4, ASequence
<1>3. Reverse(<<a, b, c>>) = <<c, b, a>>
  <2> DEFINE s == <<a, b, c>>
             t == <<c, b, a>>
  <2>1. Len(s) = 3 /\ s[1] = a /\ s[2] = b /\ s[3] = c
    OBVIOUS
  <2>2. t = [i \in 1..3 |-> t[i]] /\ t[1] = c /\ t[2] = b /\ t[3] = a
    OBVIOUS
  <2> HIDE DEF s, t
  <2>3. \A i \in 1..3 : s[(3 - i) + 1] = t[i]
    <3>1. \A i \in 1..3 : i = 1 \/ i = 2 \/ i = 3
      OBVIOUS
    <3>2. (3 - 1) + 1 = 3 /\ (3 - 2) + 1 = 2 /\ (3 - 3) + 1 = 1
      OBVIOUS
    <3>3. QED
      BY <2>1, <2>2, <3>1, <3>2
  <2>4. Reverse(s) = [i \in 1..3 |-> s[(3 - i) + 1]]
    BY <2>1 DEF Reverse
  <2>5. Reverse(s) = t
    BY <2>2, <2>3, <2>4
  <2>6. QED
    BY <2>5 DEF s, t
<1> HIDE DEF r
<1>4. IsPrefix(<<c, b, a>>, r) <=> Len(r) >= 3 /\ r[1] = c /\ r[2] = b /\ r[3] = a
  BY <1>2, BeginsWith
<1>5. n >= 3 => r[1] = q[n] /\ r[2] = q[n - 1] /\ r[3] = q[n - 2]
  <2>1. SUFFICES ASSUME n >= 3 PROVE r[1] = q[n] /\ r[2] = q[n - 1] /\ r[3] = q[n - 2]
    OBVIOUS
  <2>2. 1 \in 1..n /\ 2 \in 1..n /\ 3 \in 1..n /\ (n - 1) + 1 = n /\ (n - 2) + 1 = n - 1 /\ (n - 3) + 1 = n - 2
    BY <1>1, <2>1
  <2>3. QED
    BY <1>2, <2>2
<1>6. QED
  BY <1>2, <1>3, <1>4, <1>5 DEF IsSuffix, r

LEMMA FourInside ==
  ASSUME NEW S, NEW q \in Seq(S), NEW i \in 1..(Len(q) - 3),
         NEW a \in S, NEW b \in S, NEW c \in S, NEW d \in S
  PROVE  SubSeq(q, i, i + 3) = <<a, b, c, d>> <=> q[i] = a /\ q[i + 1] = b /\ q[i + 2] = c /\ q[i + 3] = d
<1> DEFINE r == SubSeq(q, i, i + 3)
           s == <<a, b, c, d>>
<1>1. Len(q) \in Nat /\ i \in Nat /\ i >= 1 /\ i + 3 <= Len(q)
  OBVIOUS
<1>2. r \in Seq(S) /\ Len(r) = 4 /\ r[1] = q[i] /\ r[2] = q[i + 1] /\ r[3] = q[i + 2] /\ r[4] = q[i + 3]
  <2>1. i \in Int /\ i + 3 \in Int /\ \A k \in i..(i + 3) : q[k] \in S
    <3>1. \A k \in i..(i + 3) : k \in 1..Len(q)
      BY <1>1
    <3>2. QED
      BY <1>1, <3>1
  <2>2. /\ r \in Seq(S) /\ Len(r) = IF i <= i + 3 THEN (i + 3) - i + 1 ELSE 0
        /\ \A k \in 1..((i + 3) - i + 1) : r[k] = q[i + k - 1]
    BY <2>1, SubSeqProperties
  <2>3. (i + 3) - i + 1 = 4 /\ i <= i + 3 /\ i + 1 - 1 = i /\ i + 2 - 1 = i + 1 /\ i + 3 - 1 = i + 2 /\ i + 4 - 1 = i + 3
    BY <1>1
  <2> HIDE DEF r
  <2>4. 1 \in 1..4 /\ 2 \in 1..4 /\ 3 \in 1..4 /\ 4 \in 1..4
    OBVIOUS
  <2>5. QED
    BY <2>2, <2>3, <2>4
<1>3. s \in Seq(S) /\ Len(s) = 4 /\ s[1] = a /\ s[2] = b /\ s[3] = c /\ s[4] = d
  OBVIOUS
<1> HIDE DEF r, s
<1>4. r = s <=> \A k \in 1..4 : r[k] = s[k]
  <2>1. (\A k \in 1..4 : r[k] = s[k]) => r = s
    BY <1>2, <1>3, SeqEqual
  <2>2. QED
    BY <2>1
<1>5. (\A k \in 1..4 : r[k] = s[k]) <=> r[1] = s[1] /\ r[2] = s[2] /\ r[3] = s[3] /\ r[4] = s[4]
  <2>1. \A k \in 1..4 : k = 1 \/ k = 2 \/ k = 3 \/ k = 4
    OBVIOUS
  <2>2. QED
    BY <2>1
<1>6. QED
  BY <1>2, <1>3, <1>4, <1>5 DEF r, s

\* One call of the check, of which the next has answered.
Breaks(q, n, next) ==
  \/ q = <<".", ".">>
  \/ IsPrefix(<<".", ".", "/">>, q) \/ IsSuffix(<<"/", ".", ".">>, q)
  \/ \E i \in 1..(n - 3) : SubSeq(q, i, i + 3) = <<"/", ".", ".", "/">>
  \/ /\ IsPrefix(<<".", "/">>, q) /\ n > 2
     /\ SubSeq(q, 3, n)[1] = "." \/ "/" \in ToSet(SubSeq(q, 3, n))
     /\ next

\* The parent directory as a whole name, at its head, at its end, and inside: that
\* is everywhere.
LEMMA LeavesBreaks ==
  ASSUME NEW S, "." \in S, "/" \in S, NEW q \in Seq(S), LeavesDirectory(q), NEW next
  PROVE  Breaks(q, Len(q), next)
<1> DEFINE n == Len(q)
<1>1. n \in Nat /\ \A i \in 1..n : q[i] \in S
  OBVIOUS
<1>3. PICK i \in 1..(n - 1) :
        /\ q[i] = "." /\ q[i + 1] = "."
        /\ i > 1 => q[i - 1] = "/"
        /\ i + 1 < n => q[i + 2] = "/"
  BY DEF LeavesDirectory
<1>4. i \in Nat /\ i >= 1 /\ i + 1 <= n
  BY <1>1
<1>5. CASE i = 1 /\ n = 2
  <2> DEFINE p == <<".", ".">>
  <2>1. p \in Seq(S) /\ Len(p) = 2
    BY PairOf
  <2>2. p[1] = "." /\ p[2] = "."
    OBVIOUS
  <2>3. 1 + 1 = 2 /\ \A k \in 1..2 : k = 1 \/ k = 2
    OBVIOUS
  <2>4. q[1] = "." /\ q[2] = "."
    BY <1>3, <1>5, <2>3
  <2> HIDE DEF p
  <2>5. Len(q) = Len(p) /\ \A k \in 1..Len(q) : q[k] = p[k]
    BY <1>5, <2>1, <2>2, <2>3, <2>4
  <2>6. q = p
    BY <2>1, <2>5, SeqEqual
  <2>7. QED
    BY <2>6 DEF Breaks, p
<1>6. CASE i = 1 /\ n # 2
  <2>1. n >= 3 /\ i + 1 < n /\ 1 + 1 = 2 /\ 1 + 2 = 3
    <3> HIDE DEF n
    <3>1. n >= 2 /\ n >= 3 /\ 1 + 1 < n
      BY <1>1, <1>4, <1>6
    <3>2. QED
      BY <1>6, <3>1
  <2>2. q[1] = "." /\ q[2] = "." /\ q[3] = "/"
    BY <1>3, <1>6, <2>1
  <2>3. IsPrefix(<<".", ".", "/">>, q)
    BY <2>1, <2>2, BeginsWith
  <2>4. QED
    BY <2>3 DEF Breaks
<1>7. CASE i > 1 /\ i + 1 = n
  <2>1. n >= 3 /\ n - 2 = i - 1 /\ n - 1 = i /\ n = i + 1
    BY <1>1, <1>4, <1>7
  <2>2. q[n - 2] = "/" /\ q[n - 1] = "." /\ q[n] = "."
    BY <1>3, <1>7, <2>1
  <2>3. IsSuffix(<<"/", ".", ".">>, q)
    BY <2>1, <2>2, EndsWith
  <2>4. QED
    BY <2>3 DEF Breaks
<1>8. CASE i > 1 /\ i + 1 # n
  <2>1. i - 1 \in 1..(n - 3) /\ i + 1 < n /\ (i - 1) + 1 = i /\ (i - 1) + 2 = i + 1 /\ (i - 1) + 3 = i + 2
    BY <1>1, <1>4, <1>8
  <2>2. q[i - 1] = "/" /\ q[i] = "." /\ q[i + 1] = "." /\ q[i + 2] = "/"
    BY <1>3, <1>8, <2>1
  <2> DEFINE k == i - 1
  <2>3. k \in 1..(n - 3) /\ q[k] = "/" /\ q[k + 1] = "." /\ q[k + 2] = "." /\ q[k + 3] = "/"
    BY <2>1, <2>2
  <2> HIDE DEF k
  <2>4. SubSeq(q, k, k + 3) = <<"/", ".", ".", "/">>
    BY <2>3, FourInside
  <2>5. QED
    BY <2>3, <2>4 DEF Breaks
<1>9. QED
  BY <1>1, <1>4, <1>5, <1>6, <1>7, <1>8

\* What is found is there, if it is in what the next call looks at.
LEMMA BreaksLeaves ==
  ASSUME NEW S, "." \in S, "/" \in S, NEW q \in Seq(S), NEW next, Breaks(q, Len(q), next),
         next => LeavesDirectory(SubSeq(q, 3, Len(q)))
  PROVE  LeavesDirectory(q)
<1> DEFINE n == Len(q)
<1>1. n \in Nat /\ \A i \in 1..n : q[i] \in S
  OBVIOUS
<1>3. CASE q = <<".", ".">>
  <2>1. n = 2 /\ q[1] = "." /\ q[2] = "."
    BY <1>3
  <2>2. 1 \in 1..(n - 1) /\ 1 + 1 = 2 /\ ~(1 > 1) /\ ~(1 + 1 < n)
    BY <2>1
  <2>3. QED
    BY <2>1, <2>2 DEF LeavesDirectory
<1>4. CASE IsPrefix(<<".", ".", "/">>, q)
  <2>1. n >= 3 /\ q[1] = "." /\ q[2] = "." /\ q[3] = "/"
    BY <1>4, BeginsWith
  <2>2. 1 \in 1..(n - 1) /\ 1 + 1 = 2 /\ 1 + 2 = 3 /\ ~(1 > 1)
    BY <1>1, <2>1
  <2>3. QED
    BY <2>1, <2>2 DEF LeavesDirectory
<1>5. CASE IsSuffix(<<"/", ".", ".">>, q)
  <2>1. n >= 3 /\ q[n - 2] = "/" /\ q[n - 1] = "." /\ q[n] = "."
    BY <1>5, EndsWith
  <2>2. n - 1 \in 1..(n - 1) /\ (n - 1) + 1 = n /\ (n - 1) - 1 = n - 2 /\ ~((n - 1) + 1 < n)
    BY <1>1, <2>1
  <2>3. QED
    BY <2>1, <2>2 DEF LeavesDirectory
<1>6. CASE \E i \in 1..(n - 3) : SubSeq(q, i, i + 3) = <<"/", ".", ".", "/">>
  <2>1. PICK i \in 1..(n - 3) : SubSeq(q, i, i + 3) = <<"/", ".", ".", "/">>
    BY <1>6
  <2>2. q[i] = "/" /\ q[i + 1] = "." /\ q[i + 2] = "." /\ q[i + 3] = "/"
    BY <2>1, FourInside
  <2>3. i + 1 \in 1..(n - 1) /\ (i + 1) + 1 = i + 2 /\ (i + 1) - 1 = i /\ (i + 1) + 2 = i + 3
    BY <1>1
  <2>4. QED
    BY <2>2, <2>3 DEF LeavesDirectory
<1>7. CASE IsPrefix(<<".", "/">>, q) /\ n > 2 /\ next
  <2> DEFINE p == SubSeq(q, 3, n)
  <2>1. q[2] = "/"
    BY <1>7, BeginsWith
  <2>2. 3 \in Int /\ n \in Int /\ \A k \in 3..n : q[k] \in S
    <3>1. \A k \in 3..n : k \in 1..n
      BY <1>1
    <3>2. QED
      BY <1>1, <3>1
  <2>3. /\ p \in Seq(S) /\ Len(p) = IF 3 <= n THEN n - 3 + 1 ELSE 0
        /\ \A k \in 1..(n - 3 + 1) : p[k] = q[3 + k - 1]
    BY <2>2, SubSeqProperties
  <2>4. LeavesDirectory(p)
    BY <1>7
  <2> HIDE DEF p
  <2>5. Len(p) = n - 2 /\ \A k \in 1..(n - 2) : p[k] = q[k + 2]
    <3>1. n - 3 + 1 = n - 2 /\ 3 <= n /\ \A k \in 1..(n - 2) : 3 + k - 1 = k + 2
      BY <1>1, <1>7
    <3> HIDE DEF n
    <3>2. QED
      BY <2>3, <3>1
  <2>6. PICK i \in 1..(n - 3) :
          /\ p[i] = "." /\ p[i + 1] = "."
          /\ i > 1 => p[i - 1] = "/"
          /\ i + 1 < n - 2 => p[i + 2] = "/"
    <3>1. (n - 2) - 1 = n - 3
      BY <1>1
    <3>2. QED
      BY <2>4, <2>5, <3>1 DEF LeavesDirectory
  <2>7. /\ i \in 1..(n - 2) /\ i + 1 \in 1..(n - 2) /\ i > 1 => i - 1 \in 1..(n - 2) /\ (i - 1) + 2 = i + 1
        /\ (i + 1 < n - 2 => i + 2 \in 1..(n - 2) /\ (i + 2) + 2 = i + 4) /\ (i + 1) + 2 = i + 3
    BY <1>1, <2>6
  <2>8. /\ i + 2 \in 1..(n - 1) /\ (i + 2) + 1 = i + 3 /\ (i + 2) - 1 = i + 1 /\ (i + 2) + 2 = i + 4
        /\ ((i + 2) + 1 < n <=> i + 1 < n - 2) /\ (i > 1 \/ i = 1) /\ 1 + 1 = 2
    BY <1>1, <2>6
  <2>9. q[i + 2] = "." /\ q[i + 3] = "."
    BY <2>5, <2>6, <2>7
  <2>10. q[i + 1] = "/"
    BY <2>1, <2>5, <2>6, <2>7, <2>8
  <2>11. i + 1 < n - 2 => q[i + 4] = "/"
    BY <2>5, <2>6, <2>7
  <2>12. QED
    BY <2>8, <2>9, <2>10, <2>11 DEF LeavesDirectory
<1>8. QED
  BY <1>3, <1>4, <1>5, <1>6, <1>7 DEF Breaks

\* What is left of a name when n bytes of it are.
Rest(name, n) == SubSeq(name, Len(name) - n + 1, Len(name))

Checks(f, name) == f = [n \in 0..Len(name) |-> Breaks(Rest(name, n), n, f[n - 2])]

\* A name and what is left of it; behind two bytes there are two less.
LEMMA RestType ==
  ASSUME NEW S, NEW name \in Seq(S), NEW n \in 0..Len(name)
  PROVE  /\ Rest(name, n) \in Seq(S) /\ Len(Rest(name, n)) = n
         /\ Rest(name, Len(name)) = name
         /\ n > 2 => SubSeq(Rest(name, n), 3, n) = Rest(name, n - 2) /\ n - 2 \in 0..Len(name)
<1> DEFINE L == Len(name)
<1>1. L \in Nat /\ n \in Nat /\ n <= L /\ \A k \in 1..L : name[k] \in S
  OBVIOUS
<1>2. ASSUME NEW m \in 0..L
      PROVE  /\ Rest(name, m) \in Seq(S) /\ Len(Rest(name, m)) = m
             /\ \A k \in 1..m : Rest(name, m)[k] = name[L - m + k]
  <2> DEFINE r == SubSeq(name, L - m + 1, L)
  <2>1. m \in Nat /\ L - m + 1 \in Int /\ L \in Int /\ \A k \in (L - m + 1)..L : name[k] \in S
    <3>1. \A k \in (L - m + 1)..L : k \in 1..L
      BY <1>1
    <3>2. QED
      BY <1>1, <3>1
  <2>2. /\ r \in Seq(S) /\ Len(r) = IF L - m + 1 <= L THEN L - (L - m + 1) + 1 ELSE 0
        /\ \A k \in 1..(L - (L - m + 1) + 1) : r[k] = name[(L - m + 1) + k - 1]
    BY <2>1, SubSeqProperties
  <2> HIDE DEF r, L
  <2>3. L - (L - m + 1) + 1 = m /\ (L - m + 1 <= L <=> m > 0) /\ \A k \in 1..m : (L - m + 1) + k - 1 = L - m + k
    BY <1>1, <2>1
  <2>4. Len(r) = m /\ \A k \in 1..m : r[k] = name[L - m + k]
    BY <2>1, <2>2, <2>3
  <2>5. QED
    BY <2>2, <2>4 DEF Rest, r, L
<1>3. Rest(name, n) \in Seq(S) /\ Len(Rest(name, n)) = n
  BY <1>2
<1>4. Rest(name, L) = name
  <2>1. L \in 0..L /\ \A k \in 1..L : L - L + k = k
    BY <1>1
  <2>2. Rest(name, L) \in Seq(S) /\ Len(Rest(name, L)) = L /\ \A k \in 1..L : Rest(name, L)[k] = name[k]
    BY <1>2, <2>1
  <2>3. QED
    BY <2>2, SeqEqual
<1>5. ASSUME n > 2 PROVE SubSeq(Rest(name, n), 3, n) = Rest(name, n - 2) /\ n - 2 \in 0..L
  <2> DEFINE q == Rest(name, n)
             p == SubSeq(q, 3, n)
             r == Rest(name, n - 2)
  <2>1. n - 2 \in 0..L /\ n \in 0..L
    BY <1>1, <1>5
  <2>2. /\ q \in Seq(S) /\ Len(q) = n /\ \A k \in 1..n : q[k] = name[L - n + k]
        /\ r \in Seq(S) /\ Len(r) = n - 2 /\ \A k \in 1..(n - 2) : r[k] = name[L - (n - 2) + k]
    BY <1>2, <2>1
  <2> HIDE DEF q, r
  <2>3. 3 \in Int /\ n \in Int /\ \A k \in 3..n : q[k] \in S
    <3>1. \A k \in 3..n : k \in 1..n
      BY <1>1
    <3>2. QED
      BY <1>1, <2>2, <3>1
  <2>4. /\ p \in Seq(S) /\ Len(p) = IF 3 <= n THEN n - 3 + 1 ELSE 0
        /\ \A k \in 1..(n - 3 + 1) : p[k] = q[3 + k - 1]
    BY <2>3, SubSeqProperties
  <2> HIDE DEF p
  <2>5. Len(p) = n - 2 /\ \A k \in 1..(n - 2) : p[k] = r[k]
    <3> HIDE DEF L
    <3>1. n - 3 + 1 = n - 2 /\ 3 <= n
      BY <1>1, <1>5
    <3>2. ASSUME NEW k \in 1..(n - 2) PROVE p[k] = r[k]
      <4>1. 3 + k - 1 \in 1..n /\ L - n + (3 + k - 1) = L - (n - 2) + k
        BY <1>1, <1>5
      <4>2. p[k] = q[3 + k - 1] /\ q[3 + k - 1] = name[L - n + (3 + k - 1)]
        BY <2>2, <2>4, <3>1, <4>1
      <4>3. QED
        BY <2>2, <4>1, <4>2
    <3>3. QED
      BY <2>4, <3>1, <3>2
  <2>6. p = r
    BY <2>2, <2>4, <2>5, SeqEqual
  <2>7. QED
    BY <2>1, <2>6 DEF p, q, r
<1>6. QED
  BY <1>3, <1>4, <1>5

\* contains_path_traversal finds the names that leave the directory, and no others.
LEMMA TraversalIsFound ==
  ASSUME NEW name \in Seq(STRING)
  PROVE  ContainsPathTraversal(name) <=> LeavesDirectory(name)
<1> DEFINE S == STRING \cup {".", "/"}
           L == Len(name)
           leaves(n) == LeavesDirectory(Rest(name, n))
           from == CHOOSE f : Checks(f, name)
<1>1. "." \in S /\ "/" \in S /\ name \in Seq(S) /\ L \in Nat
  <2>1. STRING \subseteq S /\ "." \in S /\ "/" \in S
    OBVIOUS
  <2> HIDE DEF S
  <2>2. name \in Seq(S)
    BY <2>1, SeqWithin
  <2>3. QED
    BY <2>1, <2>2
<1> HIDE DEF S
<1>2. ASSUME NEW n \in 0..L
      PROVE  /\ leaves(n) => \A next : Breaks(Rest(name, n), n, next)
             /\ Breaks(Rest(name, n), n, FALSE) => leaves(n)
             /\ n > 2 /\ Breaks(Rest(name, n), n, leaves(n - 2)) => leaves(n)
  <2>1. Rest(name, n) \in Seq(S) /\ Len(Rest(name, n)) = n
    BY <1>1, RestType
  <2>2. n > 2 => SubSeq(Rest(name, n), 3, n) = Rest(name, n - 2)
    BY <1>1, RestType
  <2> DEFINE q == Rest(name, n)
  <2>3. q \in Seq(S) /\ Len(q) = n
    BY <2>1
  <2>4. ASSUME LeavesDirectory(q), NEW next PROVE Breaks(q, n, next)
    <3> HIDE DEF q
    <3>1. QED
      BY <1>1, <2>3, <2>4, LeavesBreaks
  <2>5. ASSUME Breaks(q, n, FALSE) PROVE LeavesDirectory(q)
    <3> HIDE DEF q
    <3>1. Breaks(q, Len(q), FALSE)
      BY <2>3, <2>5
    <3>2. QED
      BY <1>1, <2>3, <3>1, BreaksLeaves
  <2>6. ASSUME n > 2, Breaks(q, n, LeavesDirectory(SubSeq(q, 3, n))) PROVE LeavesDirectory(q)
    <3> HIDE DEF q
    <3>1. Breaks(q, Len(q), LeavesDirectory(SubSeq(q, 3, Len(q))))
      BY <2>3, <2>6
    <3>2. QED
      BY <1>1, <2>3, <3>1, BreaksLeaves
  <2>7. QED
    BY <2>2, <2>4, <2>5, <2>6
<1>3. ASSUME NEW n \in 0..L, NEW next, n > 2 => (next <=> leaves(n - 2))
      PROVE  Breaks(Rest(name, n), n, next) <=> leaves(n)
  <2>1. CASE n > 2
    <3>1. Breaks(Rest(name, n), n, next) <=> Breaks(Rest(name, n), n, leaves(n - 2))
      BY <1>3, <2>1 DEF Breaks
    <3>2. QED
      BY <1>2, <2>1, <3>1
  <2>2. CASE ~(n > 2)
    <3>1. Breaks(Rest(name, n), n, next) <=> Breaks(Rest(name, n), n, FALSE)
      BY <2>2 DEF Breaks
    <3>2. QED
      BY <1>2, <3>1
  <2>3. QED
    BY <2>1, <2>2
<1>4. Checks(from, name)
  <2> DEFINE g == [n \in 0..L |-> leaves(n)]
  <2>1. ASSUME NEW n \in 0..L PROVE g[n] = Breaks(Rest(name, n), n, g[n - 2])
    <3>1. n > 2 => n - 2 \in 0..L
      BY <1>1
    <3>2. n > 2 => (g[n - 2] <=> leaves(n - 2))
      BY <3>1
    <3>3. Breaks(Rest(name, n), n, g[n - 2]) <=> leaves(n)
      BY <1>3, <3>2
    <3>4. leaves(n) \in BOOLEAN /\ Breaks(Rest(name, n), n, g[n - 2]) \in BOOLEAN
      BY DEF LeavesDirectory, Breaks
    <3>5. g[n] = leaves(n)
      OBVIOUS
    <3>6. QED
      BY <3>3, <3>4, <3>5
  <2>2. g = [n \in 0..L |-> g[n]]
    OBVIOUS
  <2> HIDE DEF g
  <2>3. g = [n \in 0..L |-> Breaks(Rest(name, n), n, g[n - 2])]
    BY <2>1, <2>2
  <2>4. Checks(g, name)
    BY <2>3 DEF Checks
  <2>5. QED
    BY <2>4
<1>5. ContainsPathTraversal(name) = from[L]
  BY Zenon DEF ContainsPathTraversal, Checks, Breaks, Rest
<1> HIDE DEF from
<1>6. ASSUME NEW n \in 0..L PROVE from[n] = Breaks(Rest(name, n), n, from[n - 2])
  BY <1>4, Zenon DEF Checks
<1>7. \A n \in 0..L : from[n] <=> leaves(n)
  <2> DEFINE T == {n \in 0..L : ~(from[n] <=> leaves(n))}
  <2>1. SUFFICES ASSUME T # {} PROVE FALSE
    OBVIOUS
  <2>2. PICK n \in T : \A k \in T : n <= k
    <3>1. T \subseteq Nat
      OBVIOUS
    <3> HIDE DEF T
    <3>2. QED
      BY <2>1, <3>1, LeastNat
  <2>3. n \in 0..L /\ ~(from[n] <=> leaves(n))
    BY <2>2
  <2>4. n > 2 => (from[n - 2] <=> leaves(n - 2))
    <3>1. n > 2 => n - 2 \in 0..L /\ ~(n <= n - 2)
      BY <1>1, <2>3
    <3>2. n > 2 => n - 2 \notin T
      BY <2>2, <3>1
    <3>3. QED
      BY <3>1, <3>2
  <2>5. Breaks(Rest(name, n), n, from[n - 2]) <=> leaves(n)
    BY <1>3, <2>3, <2>4
  <2>6. QED
    BY <1>6, <2>3, <2>5
<1>8. Rest(name, L) = name /\ L \in 0..L
  BY <1>1, RestType
<1>9. QED
  BY <1>5, <1>7, <1>8

-----------------------------------------------------------------------------
(* The state between two passes.                                           *)

Member(a) == {a.members[k] : k \in DOMAIN a.members}

Frames == [archive : Archives, pos : Nat, members : Nat, blocks : Seq(BlockType), total : Nat]

\* One archive that is open: at a whole block, within the limits.
Within(f) ==
  /\ f \in Frames
  /\ f.pos % BlockSize = 0
  /\ f.members <= MaxMembers
  /\ f.total = Bytes(f.blocks) /\ f.total <= MaxBytes

\* Every archive that is open is one of Archives and within the limits; each is one
\* level below the one before.
IInv ==
  /\ input \in Inputs
  /\ status \in {"running", "ok", "error"}
  /\ result \in Seq(BlockType) /\ Bytes(result) <= MaxBytes
  /\ stack \in Seq(Frames) /\ Len(stack) <= MaxDepth + 1
  /\ \A d \in DOMAIN stack : Within(stack[d])

-----------------------------------------------------------------------------
(* Members.                                                                *)

\* What an archive is made of.
LEMMA MembersType ==
  ASSUME NEW a \in Archives
  PROVE  /\ a.members \in Seq(MemberType) /\ a.zeros \in Nat /\ a.cut \in Nat /\ a.magic \in BOOLEAN
         /\ Len(a.members) \in Nat /\ DOMAIN a.members = 1..Len(a.members)
         /\ \A i \in DOMAIN a.members : a.members[i] \in MemberType
<1>1. a \in [members : Seq(MemberType), zeros : Nat, cut : Nat, magic : BOOLEAN]
  BY ArchiveTypes
<1>2. QED
  BY <1>1

\* What is read of a member: a size that is a number, archives that are known, and
\* room for one more.
LEMMA ReadMemberType ==
  ASSUME NEW f \in Frames, NEW m \in ReadMember(f)
  PROVE  /\ m.size \in Nat /\ m.header.content.tar \subseteq Archives
         /\ f.members < MaxMembers
<1>1. PICK h \in HeaderAt(f.archive, f.pos) : \E n \in Octal(h.field) : m = [header |-> h, size |-> n]
  BY Zenon DEF ReadMember
<1>2. Room(f)
  BY Zenon DEF ReadMember
<1>3. PICK k \in DOMAIN f.archive.members : h = f.archive.members[k]
  BY DEF HeaderAt
<1>4. f.archive \in Archives
  BY DEF Frames
<1>5. h.field \in Seq(STRING) /\ h.content.tar \subseteq Archives
  BY <1>3, <1>4, MembersType DEF MemberType, ContentType
<1>6. PICK n \in Octal(h.field) : m = [header |-> h, size |-> n]
  BY <1>1
<1>7. n \in Nat
  BY <1>5, <1>6, OctalType
<1>8. QED
  BY <1>2, <1>5, <1>6, <1>7 DEF Room

\* The next member begins at a whole block, behind this one.
LEMMA NextMemberAtBlock ==
  ASSUME NEW pos \in Nat, pos % BlockSize = 0, NEW size \in Nat
  PROVE  NextMemberOffset(pos, size) \in Nat /\ NextMemberOffset(pos, size) % BlockSize = 0
         /\ NextMemberOffset(pos, size) >= pos + BlockSize + size
<1> DEFINE up == size + (BlockSize - 1)
           q == up \div BlockSize
           r == up % BlockSize
           p == pos \div BlockSize
<1>1. BlockSize \in Nat /\ BlockSize > 0
  BY FormatConstants
<1>2. up \in Nat
  BY <1>1
<1>3. q \in Nat /\ r \in 0..(BlockSize - 1) /\ up = BlockSize * q + r
  <2> HIDE DEF up
  <2>1. QED
    BY <1>1, <1>2
<1>4. p \in Nat /\ pos = BlockSize * p
  BY <1>1
<1> HIDE DEF p
<1>5. up - r = BlockSize * q
  <2> DEFINE t == BlockSize * q
  <2>1. t \in Int
    BY <1>1, <1>3
  <2>2. up = t + r
    BY <1>3
  <2> HIDE DEF up, q, r, t
  <2>3. up - r = t
    BY <1>2, <1>3, <2>1, <2>2
  <2>4. QED
    BY <2>3 DEF t
<1>6. NextMemberOffset(pos, size) = pos + BlockSize + (up - r)
  BY DEF NextMemberOffset
<1> HIDE DEF up, q, r
<1>7. NextMemberOffset(pos, size) = (p + 1 + q) * BlockSize + 0
  BY <1>1, <1>3, <1>4, <1>5, <1>6
<1>8. p + 1 + q \in Nat
  BY <1>3, <1>4
<1>9. NextMemberOffset(pos, size) % BlockSize = 0
  <2> DEFINE a == p + 1 + q
  <2>1. a \in Nat /\ 0 \in Nat /\ 0 < BlockSize
    BY <1>1, <1>8
  <2>2. (a * BlockSize + 0) % BlockSize = 0
    <3> HIDE DEF a
    <3>1. QED
      BY <1>1, <2>1, DivMod
  <2>3. QED
    BY <1>7, <2>2
<1>10. up - r >= size
  BY <1>1, <1>2, <1>3 DEF up
<1>11. QED
  BY <1>1, <1>2, <1>3, <1>6, <1>9, <1>10

\* A content takes up whole blocks, as many as it needs.
LEMMA RoundUp ==
  ASSUME NEW size \in Nat, NEW pos \in Nat
  PROVE  /\ BlockSize \in Nat /\ BlockSize > 0
         /\ Blocks(size) \in Nat /\ BlockSize * (1 + Blocks(size)) \in Nat
         /\ NextMemberOffset(pos, size) = pos + BlockSize * (1 + Blocks(size))
         /\ BlockSize + size <= BlockSize * (1 + Blocks(size))
<1> DEFINE up == size + (BlockSize - 1)
           q == up \div BlockSize
           r == up % BlockSize
           w == BlockSize * q
<1>1. BlockSize \in Nat /\ BlockSize > 0
  BY FormatConstants
<1>2. up \in Nat
  BY <1>1
<1>3. q \in Nat /\ r \in 0..(BlockSize - 1) /\ up = BlockSize * q + r
  <2> HIDE DEF up
  <2>1. QED
    BY <1>1, <1>2
<1>4. size + BlockSize - 1 = up
  BY <1>1
<1>5. Blocks(size) = q
  BY <1>4 DEF Blocks
<1>6. NextMemberOffset(pos, size) = pos + BlockSize + (up - r)
  BY DEF NextMemberOffset
<1>7. BlockSize * (1 + q) = BlockSize + w /\ w \in Nat
  <2> HIDE DEF q
  <2>1. QED
    BY <1>1, <1>3
<1>8. up = w + r
  BY <1>3
<1>9. up = size + (BlockSize - 1)
  OBVIOUS
<1> HIDE DEF up, q, r, w
<1>10. up - r = w /\ w >= size
  BY <1>1, <1>2, <1>3, <1>7, <1>8, <1>9
<1>11. QED
  BY <1>1, <1>3, <1>5, <1>6, <1>7, <1>10

\* Each member begins where the one before it is over, the first at the beginning.
LEMMA OffsetNext ==
  ASSUME NEW a \in Archives
  PROVE  /\ Offset(a, 1) = 0
         /\ \A i \in 1..(Len(a.members) + 1) : Offset(a, i) \in Nat
         /\ \A i \in 1..Len(a.members) :
               /\ a.members[i].size \in Nat
               /\ Offset(a, i + 1) = NextMemberOffset(Offset(a, i), a.members[i].size)
               /\ Offset(a, i) + BlockSize + a.members[i].size <= Offset(a, i + 1)
<1> DEFINE n == Len(a.members)
           size(k) == a.members[k].size
           W(k) == BlockSize * (1 + Blocks(size(k)))
           h(i) == [k \in 1..(i - 1) |-> W(k)]
<1>1. n \in Nat /\ \A k \in 1..n : size(k) \in Nat
  BY MembersType DEF MemberType
<1> HIDE DEF n
<1>2. ASSUME NEW k \in 1..n
      PROVE  W(k) \in Nat /\ size(k) \in Nat /\ BlockSize \in Nat /\ BlockSize + size(k) <= W(k)
             /\ \A p \in Nat : NextMemberOffset(p, size(k)) = p + W(k)
  <2>1. size(k) \in Nat
    BY <1>1
  <2> HIDE DEF size
  <2>2. QED
    BY <2>1, RoundUp
<1>3. ASSUME NEW i PROVE Offset(a, i) = SumFunctionOnSet(h(i), 1..(i - 1))
  <2> DEFINE g == h(i)
  <2>1. Offset(a, i) = SumFunction(g)
    BY DEF Offset
  <2>2. DOMAIN g = 1..(i - 1)
    OBVIOUS
  <2> HIDE DEF g
  <2>3. Offset(a, i) = SumFunctionOnSet(g, 1..(i - 1))
    BY <2>1, <2>2 DEF SumFunction
  <2>4. QED
    BY <2>3 DEF g
<1>4. ASSUME NEW i \in 1..(n + 1)
      PROVE  IsFiniteSet(1..(i - 1)) /\ (\A k \in 1..(i - 1) : h(i)[k] = W(k) /\ h(i)[k] \in Nat)
  <2>1. i \in Nat /\ i - 1 \in Nat /\ \A k \in 1..(i - 1) : k \in 1..n
    BY <1>1
  <2>2. IsFiniteSet(1..(i - 1))
    BY <2>1, CardUpTo
  <2> HIDE DEF W
  <2>3. \A k \in 1..(i - 1) : h(i)[k] = W(k)
    OBVIOUS
  <2>4. QED
    BY <1>2, <2>1, <2>2, <2>3
<1>5. ASSUME NEW i \in 1..(n + 1) PROVE Offset(a, i) \in Nat
  <2> HIDE DEF h, W
  <2>1. SumFunctionOnSet(h(i), 1..(i - 1)) \in Nat
    BY <1>4, SumType
  <2>2. QED
    BY <1>3, <2>1
<1>6. Offset(a, 1) = 0
  <2>1. 1..(1 - 1) = {}
    OBVIOUS
  <2> HIDE DEF h
  <2>2. SumFunctionOnSet(h(1), 1..(1 - 1)) = 0
    BY <2>1, SumEmpty
  <2>3. QED
    BY <1>3, <2>2
<1>7. ASSUME NEW i \in 1..n PROVE Offset(a, i + 1) = Offset(a, i) + W(i)
  <2>1. /\ i \in 1..(n + 1) /\ i + 1 \in 1..(n + 1) /\ (i + 1) - 1 = i /\ i \in 1..i
        /\ (1..i) \ {i} = 1..(i - 1) /\ \A k \in 1..(i - 1) : k \in 1..i
    BY <1>1
  <2> DEFINE g == h(i + 1)
             f == h(i)
  <2>2. IsFiniteSet(1..i) /\ \A k \in 1..i : g[k] = W(k) /\ g[k] \in Nat
    <3> HIDE DEF h, W
    <3>1. QED
      BY <1>4, <2>1
  <2>3. IsFiniteSet(1..(i - 1)) /\ \A k \in 1..(i - 1) : f[k] = W(k)
    <3> HIDE DEF h, W
    <3>1. QED
      BY <1>4, <2>1
  <2>4. Offset(a, i + 1) = SumFunctionOnSet(g, 1..i) /\ Offset(a, i) = SumFunctionOnSet(f, 1..(i - 1))
    <3> HIDE DEF h
    <3>1. QED
      BY <1>3, <2>1
  <2> DEFINE T == 1..i
             U == 1..(i - 1)
  <2>5. /\ IsFiniteSet(T) /\ IsFiniteSet(U) /\ i \in T /\ T \ {i} = U /\ (\A k \in T : g[k] \in Nat)
        /\ g[i] = W(i) /\ \A k \in U : g[k] = f[k]
    <3> HIDE DEF g, f, W
    <3>1. QED
      BY <2>1, <2>2, <2>3
  <2>6. Offset(a, i + 1) = SumFunctionOnSet(g, T) /\ Offset(a, i) = SumFunctionOnSet(f, U)
    BY <2>4
  <2> HIDE DEF g, f, W, T, U
  <2>7. SumFunctionOnSet(g, T) = g[i] + SumFunctionOnSet(g, U)
    <3>1. SumFunctionOnSet(g, T) = g[i] + SumFunctionOnSet(g, T \ {i})
      <4> DEFINE z == i
      <4>1. IsFiniteSet(T) /\ z \in T /\ \A x \in T : g[x] \in Nat
        BY <2>5
      <4> HIDE DEF z
      <4>2. SumFunctionOnSet(g, T) = g[z] + SumFunctionOnSet(g, T \ {z})
        BY ONLY <4>1, SumRemove
      <4>3. QED
        BY <4>2 DEF z
    <3>2. QED
      BY <2>5, <3>1, Zenon
  <2>8. SumFunctionOnSet(g, U) = SumFunctionOnSet(f, U)
    BY <2>5, SumSame
  <2>9. W(i) \in Nat /\ Offset(a, i) \in Nat
    BY <1>2, <1>5, <2>1
  <2>10. QED
    BY <2>5, <2>6, <2>7, <2>8, <2>9
<1>8. ASSUME NEW i \in 1..n
      PROVE  /\ size(i) \in Nat
             /\ Offset(a, i + 1) = NextMemberOffset(Offset(a, i), size(i))
             /\ Offset(a, i) + BlockSize + size(i) <= Offset(a, i + 1)
  <2>1. i \in 1..(n + 1)
    BY <1>1
  <2>2. Offset(a, i) \in Nat
    BY <1>5, <2>1
  <2>3. Offset(a, i + 1) = Offset(a, i) + W(i)
    BY <1>7
  <2>4. /\ W(i) \in Nat /\ size(i) \in Nat /\ BlockSize \in Nat /\ BlockSize + size(i) <= W(i)
        /\ \A p \in Nat : NextMemberOffset(p, size(i)) = p + W(i)
    BY <1>2
  <2> HIDE DEF W, size
  <2>5. QED
    BY <2>2, <2>3, <2>4
<1>9. QED
  BY <1>5, <1>6, <1>8 DEF n

\* So those behind another begin behind it, and each place is that of one.
LEMMA OffsetOrder ==
  ASSUME NEW a \in Archives, NEW i \in 1..(Len(a.members) + 1), NEW j \in 1..(Len(a.members) + 1), i < j
  PROVE  Offset(a, i) < Offset(a, j)
<1> DEFINE n == Len(a.members)
           T == {k \in (i + 1)..(n + 1) : ~(Offset(a, i) < Offset(a, k))}
<1>1. n \in Nat /\ i \in Nat /\ j \in Nat /\ j \in (i + 1)..(n + 1)
  BY MembersType
<1>2. SUFFICES ASSUME T # {} PROVE FALSE
  BY <1>1
<1>3. PICK k \in T : \A m \in T : k <= m
  <2>1. T \subseteq Nat
    BY <1>1
  <2> HIDE DEF T
  <2>2. QED
    BY <1>2, <2>1, LeastNat
<1>4. k \in (i + 1)..(n + 1) /\ ~(Offset(a, i) < Offset(a, k)) /\ k - 1 \in 1..n /\ (k - 1) + 1 = k /\ k \in Nat
  BY <1>1, <1>3
<1>5. BlockSize \in Nat /\ BlockSize > 0
  BY FormatConstants
<1>6. /\ Offset(a, k - 1) \in Nat /\ Offset(a, k) \in Nat /\ Offset(a, i) \in Nat
      /\ a.members[k - 1].size \in Nat
      /\ Offset(a, k - 1) + BlockSize + a.members[k - 1].size <= Offset(a, (k - 1) + 1)
  <2>1. k - 1 \in 1..(n + 1) /\ k \in 1..(n + 1)
    BY <1>1, <1>4
  <2>2. QED
    BY <1>4, <2>1, OffsetNext
<1>7. Offset(a, k - 1) < Offset(a, k)
  <2> DEFINE s == a.members[k - 1].size
  <2> HIDE DEF s, n, T
  <2>1. s \in Nat /\ Offset(a, k - 1) + BlockSize + s <= Offset(a, k)
    BY <1>4, <1>6 DEF s
  <2>2. QED
    BY <1>5, <1>6, <2>1
<1>8. CASE k - 1 = i
  BY <1>4, <1>7, <1>8
<1>9. CASE k - 1 # i
  <2>1. k - 1 \in (i + 1)..(n + 1) /\ ~(k <= k - 1)
    BY <1>1, <1>4, <1>9
  <2>2. k - 1 \notin T
    BY <1>3, <2>1
  <2>3. Offset(a, i) < Offset(a, k - 1)
    BY <2>1, <2>2
  <2>4. QED
    BY <1>4, <1>6, <1>7, <2>3
<1>10. QED
  BY <1>8, <1>9

\* The literals of blocks are a number of bytes, and add up.
LEMMA BytesAdd ==
  ASSUME NEW b \in Seq(BlockType), NEW c \in Seq(BlockType)
  PROVE  /\ Bytes(b) \in Nat /\ Bytes(c) \in Nat
         /\ b \o c \in Seq(BlockType) /\ Bytes(b \o c) = Bytes(b) + Bytes(c)
<1> DEFINE lens(s) == [i \in DOMAIN s |-> s[i].len]
<1>1. ASSUME NEW s \in Seq(BlockType)
      PROVE  lens(s) \in Seq(Nat) /\ Len(lens(s)) = Len(s) /\ \A i \in 1..Len(s) : lens(s)[i] = s[i].len
  <2> DEFINE n == Len(s)
             l == lens(s)
  <2>1. DOMAIN s = 1..n /\ n \in Nat /\ \A i \in 1..n : s[i] \in BlockType
    OBVIOUS
  <2>2. n \in Nat /\ l \in [1..n -> Nat] /\ \A i \in 1..n : l[i] = s[i].len
    <3>1. \A i \in 1..n : s[i].len \in Nat
      BY <2>1 DEF BlockType
    <3> HIDE DEF n
    <3>2. QED
      BY <2>1, <3>1, Zenon
  <2> HIDE DEF n, l
  <2>3. l \in Seq(Nat) /\ Len(l) = n
    <3>1. l = [i \in 1..n |-> l[i]] /\ \A i \in 1..n : l[i] \in Nat
      BY <2>2, Zenon
    <3>2. QED
      BY <2>2, <3>1, ASequence, Zenon
  <2>4. QED
    BY <2>2, <2>3 DEF n, l
<1>2. b \o c \in Seq(BlockType)
  OBVIOUS
<1>3. lens(b \o c) = lens(b) \o lens(c)
  <2> DEFINE bc == b \o c
  <2>1. /\ Len(b) \in Nat /\ Len(c) \in Nat /\ Len(bc) = Len(b) + Len(c) /\ bc \in Seq(BlockType)
        /\ \A i \in 1..Len(bc) : bc[i] = IF i <= Len(b) THEN b[i] ELSE c[i - Len(b)]
    OBVIOUS
  <2> HIDE DEF bc
  <2>2. /\ lens(b) \in Seq(Nat) /\ Len(lens(b)) = Len(b) /\ \A i \in 1..Len(b) : lens(b)[i] = b[i].len
        /\ lens(c) \in Seq(Nat) /\ Len(lens(c)) = Len(c) /\ \A i \in 1..Len(c) : lens(c)[i] = c[i].len
        /\ lens(bc) \in Seq(Nat) /\ Len(lens(bc)) = Len(bc) /\ \A i \in 1..Len(bc) : lens(bc)[i] = bc[i].len
    BY <1>1, <2>1
  <2> HIDE DEF lens
  <2> DEFINE x == lens(b)
             y == lens(c)
             z == lens(bc)
  <2>3. ASSUME NEW i \in 1..Len(bc)
        PROVE  z[i] = IF i <= Len(b) THEN x[i] ELSE y[i - Len(b)]
    <3>1. i <= Len(b) => i \in 1..Len(b)
      BY <2>1
    <3>2. ~(i <= Len(b)) => i - Len(b) \in 1..Len(c)
      BY <2>1
    <3>3. z[i] = bc[i].len
      BY <2>2
    <3>4. QED
      BY <2>1, <2>2, <3>1, <3>2, <3>3
  <2>4. x \in Seq(Nat) /\ y \in Seq(Nat) /\ z \in Seq(Nat) /\ Len(x) = Len(b) /\ Len(y) = Len(c) /\ Len(z) = Len(bc)
    BY <2>2
  <2> HIDE DEF x, y, z
  <2>5. /\ x \o y \in Seq(Nat) /\ Len(x \o y) = Len(x) + Len(y)
        /\ \A i \in 1..(Len(x) + Len(y)) : (x \o y)[i] = IF i <= Len(x) THEN x[i] ELSE y[i - Len(x)]
    BY <2>4, ConcatProperties, Zenon
  <2>6. z = x \o y
    <3>1. Len(z) = Len(x \o y) /\ \A i \in 1..Len(z) : z[i] = (x \o y)[i]
      BY <2>1, <2>3, <2>4, <2>5
    <3>2. QED
      BY <2>4, <2>5, <3>1, SeqEqual, Zenon
  <2>7. QED
    BY <2>6 DEF bc, x, y, z
<1>4. Bytes(b \o c) = SumFunction(lens(b \o c)) /\ Bytes(b) = SumFunction(lens(b)) /\ Bytes(c) = SumFunction(lens(c))
  BY DEF Bytes
<1>5. lens(b) \in Seq(Nat) /\ lens(c) \in Seq(Nat)
  BY <1>1
<1> HIDE DEF lens
<1>6. QED
  BY <1>2, <1>3, <1>4, <1>5, SumConcat, SumSeqType

-----------------------------------------------------------------------------
(* What a scan should return.                                              *)

\* An archive has a length, zero blocks behind its members included.
LEMMA LengthType ==
  ASSUME NEW a \in Archives
  PROVE  /\ Length(a) \in Nat /\ Length(a) <= WholeLength(a)
         /\ Offset(a, Len(a.members) + 1) \in Nat /\ a.zeros * BlockSize \in Nat
         /\ WholeLength(a) = Offset(a, Len(a.members) + 1) + a.zeros * BlockSize
<1>1. Len(a.members) \in Nat /\ a.zeros \in Nat /\ a.cut \in Nat
  BY MembersType
<1>2. Len(a.members) + 1 \in 1..(Len(a.members) + 1)
  BY <1>1
<1>3. Offset(a, Len(a.members) + 1) \in Nat
  BY <1>2, OffsetNext
<1>4. a.zeros * BlockSize \in Nat
  BY <1>1, FormatConstants
<1>5. a.cut <= WholeLength(a)
  BY ArchiveLayout
<1>6. WholeLength(a) = Offset(a, Len(a.members) + 1) + a.zeros * BlockSize
  BY DEF WholeLength
<1>7. Length(a) = WholeLength(a) - a.cut
  BY DEF Length
<1>8. WholeLength(a) \in Nat
  BY <1>3, <1>4, <1>6
<1>9. Length(a) \in Nat /\ Length(a) <= WholeLength(a)
  BY <1>1, <1>5, <1>7, <1>8
<1>10. QED
  BY <1>3, <1>4, <1>6, <1>9

\* The members of which something is there are the first.
LEMMA BegunIs ==
  ASSUME NEW a \in Archives
  PROVE  /\ Cardinality(Begun(a)) \in 0..Len(a.members)
         /\ Begun(a) = 1..Cardinality(Begun(a))
<1> DEFINE n == Len(a.members)
           T == {i \in 1..n : i \notin Begun(a)}
<1>1. n \in Nat /\ Length(a) \in Nat /\ DOMAIN a.members = 1..n
  BY MembersType, LengthType
<1>2. \E b \in 0..n : Begun(a) = 1..b
  <2>1. CASE T = {}
    <3>1. Begun(a) = 1..n /\ n \in 0..n
      BY <1>1, <2>1 DEF Begun
    <3>2. QED
      BY <3>1
  <2>2. CASE T # {}
    <3>1. PICK i \in T : \A k \in T : i <= k
      <4>1. T \subseteq Nat
        OBVIOUS
      <4> HIDE DEF T
      <4>2. QED
        BY <2>2, <4>1, LeastNat
    <3>2. i \in 1..n /\ i \notin Begun(a) /\ i \in Nat /\ i \in 1..(n + 1) /\ i - 1 \in 0..n
      BY <1>1, <3>1
    <3>3. ~(Offset(a, i) < Length(a)) /\ Offset(a, i) \in Nat
      <4>1. ~(Offset(a, i) < Length(a))
        BY <1>1, <3>2 DEF Begun
      <4>2. QED
        BY <3>2, <4>1, OffsetNext
    <3>4. ASSUME NEW k \in 1..n PROVE k \in Begun(a) <=> k \in 1..(i - 1)
      <4>1. k \in 1..(n + 1) /\ k \in Nat
        BY <1>1
      <4>2. CASE k < i
        <5>1. k \notin T /\ k \in 1..(i - 1)
          BY <3>1, <3>2, <4>1, <4>2
        <5>2. QED
          BY <5>1
      <4>3. CASE k = i
        BY <3>2, <4>3
      <4>4. CASE i < k
        <5>1. Offset(a, i) < Offset(a, k) /\ Offset(a, k) \in Nat
          BY <3>2, <4>1, <4>4, OffsetOrder, OffsetNext
        <5>2. ~(Offset(a, k) < Length(a))
          BY <1>1, <3>3, <5>1
        <5>3. k \notin 1..(i - 1)
          BY <3>2, <4>1, <4>4
        <5>4. QED
          BY <5>2, <5>3 DEF Begun
      <4>5. QED
        BY <3>2, <4>1, <4>2, <4>3, <4>4
    <3>5. Begun(a) \subseteq 1..n /\ 1..(i - 1) \subseteq 1..n
      BY <1>1, <3>2 DEF Begun
    <3>6. Begun(a) = 1..(i - 1)
      BY <3>4, <3>5
    <3>7. QED
      BY <3>2, <3>6
  <2>3. QED
    BY <2>1, <2>2
<1>3. PICK b \in 0..n : Begun(a) = 1..b
  BY <1>2
<1>4. b \in Nat
  BY <1>1
<1>5. Cardinality(1..b) = b
  BY <1>4, CardUpTo
<1>6. QED
  BY <1>3, <1>5

\* What is kept of a member, when it is known what the archives below hold.
Piece(below, a, i) ==
  LET m == a.members[i]
  IN  IF m.type # "file" THEN <<>>
      ELSE IF Held(m) # {} THEN below[CHOOSE h \in Held(m) : TRUE]
      ELSE <<[offset |-> Offset(a, i), len |-> m.size]>>

Pieces(below, a) == [i \in 1..Len(a.members) |-> Piece(below, a, i)]

Known == [Archives -> Seq(BlockType)]

\* A piece is a sequence of blocks.
LEMMA PiecesType ==
  ASSUME NEW below \in Known, NEW a \in Archives
  PROVE  /\ Pieces(below, a) \in Seq(Seq(BlockType)) /\ Len(Pieces(below, a)) = Len(a.members)
         /\ \A i \in 1..Len(a.members) : Pieces(below, a)[i] = Piece(below, a, i)
<1> DEFINE n == Len(a.members)
           p == Pieces(below, a)
<1>1. n \in Nat /\ \A i \in 1..n : a.members[i] \in MemberType
  BY MembersType
<1>2. ASSUME NEW i \in 1..n PROVE Piece(below, a, i) \in Seq(BlockType)
  <2> DEFINE m == a.members[i]
  <2>1. m \in MemberType
    BY <1>1
  <2>2. m.size \in Nat /\ Offset(a, i) \in Nat
    <3>1. i \in 1..(n + 1)
      BY <1>1
    <3>2. QED
      BY <2>1, <3>1, OffsetNext DEF MemberType
  <2>3. Held(m) \subseteq Archives
    <3> HIDE DEF m
    <3>1. QED
      BY <2>1 DEF Held, MemberType, ContentType
  <2>4. CASE m.type # "file"
    <3>1. Piece(below, a, i) = <<>>
      BY <2>4 DEF Piece
    <3>2. <<>> \in Seq(BlockType)
      OBVIOUS
    <3>3. QED
      BY <3>1, <3>2
  <2>5. CASE m.type = "file" /\ Held(m) # {}
    <3>1. Piece(below, a, i) = below[CHOOSE h \in Held(m) : TRUE]
      BY <2>5 DEF Piece
    <3>2. (CHOOSE h \in Held(m) : TRUE) \in Held(m)
      BY <2>5
    <3>3. QED
      BY <2>3, <3>1, <3>2 DEF Known
  <2>6. CASE m.type = "file" /\ Held(m) = {}
    <3>1. Piece(below, a, i) = <<[offset |-> Offset(a, i), len |-> m.size]>>
      BY <2>6 DEF Piece
    <3>2. [offset |-> Offset(a, i), len |-> m.size] \in BlockType
      BY <2>2 DEF BlockType
    <3>3. QED
      BY <3>1, <3>2, SingleOf
  <2>7. QED
    BY <2>4, <2>5, <2>6
<1>3. p = [i \in 1..n |-> p[i]] /\ \A i \in 1..n : p[i] = Piece(below, a, i)
  BY DEF Pieces
<1> HIDE DEF p
<1>4. \A i \in 1..n : p[i] \in Seq(BlockType)
  BY <1>2, <1>3
<1> HIDE DEF n
<1>5. p \in Seq(Seq(BlockType)) /\ Len(p) = n
  BY <1>1, <1>3, <1>4, ASequence
<1>6. QED
  BY <1>3, <1>5 DEF p, n

\* Those of the members that have begun, one behind the other.
Flat(below, a) == FlattenSeq([i \in 1..Cardinality(Begun(a)) |-> Piece(below, a, i)])

LEMMA FlatIs ==
  ASSUME NEW below \in Known, NEW a \in Archives
  PROVE  /\ Flat(below, a) = FlatTo(Pieces(below, a), Cardinality(Begun(a)))
         /\ Flat(below, a) \in Seq(BlockType)
<1> DEFINE n == Len(a.members)
           b == Cardinality(Begun(a))
           p == Pieces(below, a)
           q == [i \in 1..b |-> Piece(below, a, i)]
           r == SubSeq(p, 1, b)
<1>1. b \in 0..n /\ n \in Nat /\ b \in Nat
  BY BegunIs, MembersType
<1>2. p \in Seq(Seq(BlockType)) /\ Len(p) = n /\ \A i \in 1..n : p[i] = Piece(below, a, i)
  BY PiecesType
<1>3. r = q
  <2>1. 1 \in Int /\ b \in Int /\ \A i \in 1..b : i \in 1..n /\ p[i] \in Seq(BlockType)
    <3>1. \A i \in 1..b : i \in 1..n
      BY <1>1
    <3> HIDE DEF p, b, n
    <3>2. QED
      BY <1>1, <1>2, <3>1
  <2> HIDE DEF p, b, n
  <2>2. /\ r \in Seq(Seq(BlockType)) /\ Len(r) = IF 1 <= b THEN b - 1 + 1 ELSE 0
        /\ \A i \in 1..(b - 1 + 1) : r[i] = p[1 + i - 1]
    BY <2>1, SubSeqProperties
  <2>3. Len(r) = b /\ \A i \in 1..b : r[i] = p[i]
    <3>1. b - 1 + 1 = b /\ \A i \in 1..b : 1 + i - 1 = i
      BY <1>1
    <3> HIDE DEF r
    <3>2. QED
      BY <1>1, <2>2, <3>1
  <2>4. q = [i \in 1..b |-> q[i]] /\ \A i \in 1..b : q[i] = Piece(below, a, i)
    OBVIOUS
  <2> HIDE DEF q, r
  <2>5. \A i \in 1..b : q[i] = p[i] /\ q[i] \in Seq(BlockType)
    BY <1>2, <2>1, <2>4
  <2>6. q \in Seq(Seq(BlockType)) /\ Len(q) = b
    BY <1>1, <2>4, <2>5, ASequence
  <2>7. Len(r) = Len(q) /\ \A i \in 1..Len(r) : r[i] = q[i]
    BY <2>3, <2>5, <2>6
  <2>8. QED
    BY <2>2, <2>6, <2>7, SeqEqual
<1>4. Flat(below, a) = FlattenSeq(q) /\ FlatTo(p, b) = FlattenSeq(r)
  BY DEF Flat, FlatTo
<1>5. FlatTo(p, b) \in Seq(BlockType)
  <2> HIDE DEF p
  <2>1. QED
    BY <1>1, <1>2, FlatToType
<1>6. QED
  BY <1>3, <1>4, <1>5

\* Contents is defined level by level.
Levels == MaxDepth + 1

IsContents(f) ==
  f = [n \in 0..Levels |-> [a \in Archives |-> IF n = 0 THEN <<>> ELSE Flat(f[n - 1], a)]]

LEMMA ContentsAre ==
  /\ \A n \in 0..Levels : Contents[n] \in Known
  /\ \A n \in 1..Levels : \A a \in Archives : Contents[n][a] = Flat(Contents[n - 1], a)
<1> DEFINE none == [a \in Archives |-> <<>>]
           next == [p \in Known |-> [a \in Archives |-> Flat(p, a)]]
           g == [n \in 1..Levels |-> next]
           body(f, n) == [a \in Archives |-> IF n = 0 THEN <<>> ELSE Flat(f[n - 1], a)]
<1>1. Levels \in Nat
  BY TarballConstants DEF Levels
<1>2. none \in Known
  <2>1. <<>> \in Seq(BlockType)
    OBVIOUS
  <2>2. QED
    BY <2>1 DEF Known
<1>3. next \in [Known -> Known]
  <2>1. ASSUME NEW p \in Known PROVE [a \in Archives |-> Flat(p, a)] \in Known
    <3>1. \A a \in Archives : Flat(p, a) \in Seq(BlockType)
      BY FlatIs
    <3>2. QED
      BY <3>1 DEF Known
  <2>2. QED
    BY <2>1
<1>4. g \in [1..Levels -> [Known -> Known]]
  <2> HIDE DEF next
  <2>1. QED
    BY <1>3
<1>5. \A n \in 1..Levels, p \in Known : g[n][p] = [a \in Archives |-> Flat(p, a)]
  OBVIOUS
<1>6. PICK f : Iterates(f, Known, none, Levels, g)
  <2> HIDE DEF none, g
  <2>1. QED
    BY <1>1, <1>2, <1>4, Recursive
<1>7. f \in [0..Levels -> Known] /\ f[0] = none /\ \A n \in 1..Levels : f[n] = g[n][f[n - 1]]
  BY <1>6, Zenon DEF Iterates
<1>8. IsContents(f)
  <2>1. ASSUME NEW n \in 0..Levels PROVE f[n] = body(f, n)
    <3>1. CASE n = 0
      <4>1. none = body(f, 0)
        OBVIOUS
      <4>2. QED
        BY <1>7, <3>1, <4>1
    <3>2. CASE n # 0
      <4>1. n \in 1..Levels /\ n - 1 \in 0..Levels
        BY <1>1, <3>2
      <4>2. f[n - 1] \in Known
        BY <1>7, <4>1
      <4> HIDE DEF g
      <4>3. f[n] = [a \in Archives |-> Flat(f[n - 1], a)]
        BY <1>5, <1>7, <4>1, <4>2
      <4>4. body(f, n) = [a \in Archives |-> Flat(f[n - 1], a)]
        BY <3>2
      <4>5. QED
        BY <4>3, <4>4
    <3>3. QED
      BY <3>1, <3>2
  <2>2. f = [n \in 0..Levels |-> f[n]]
    BY <1>7
  <2> HIDE DEF body
  <2>3. f = [n \in 0..Levels |-> body(f, n)]
    BY <2>1, <2>2
  <2>4. QED
    BY <2>3 DEF IsContents, body
<1>9. IsContents(Contents)
  <2>1. Contents = CHOOSE h : IsContents(h)
    BY Zenon DEF Contents, IsContents, Flat, Piece, Levels
  <2>2. QED
    BY <1>8, <2>1
<1>10. \A n \in 0..Levels : Contents[n] = body(Contents, n)
  BY <1>9, Zenon DEF IsContents
<1>11. \A n \in 1..Levels : Contents[n] = [a \in Archives |-> Flat(Contents[n - 1], a)]
  <2>1. \A n \in 1..Levels : n \in 0..Levels /\ n # 0
    BY <1>1
  <2>2. QED
    BY <1>10, <2>1
<1>12. \A n \in 0..Levels : Contents[n] \in Known
  <2> DEFINE P == {n \in 0..Levels : Contents[n] \in Known}
  <2>1. 0 \in P
    <3>1. 0 \in 0..Levels
      BY <1>1
    <3>2. Contents[0] = none
      BY <1>10, <3>1
    <3>3. QED
      BY <1>2, <3>1, <3>2
  <2>2. ASSUME NEW n \in 0..(Levels - 1), n \in P PROVE n + 1 \in P
    <3>1. n + 1 \in 1..Levels /\ n + 1 \in 0..Levels /\ (n + 1) - 1 = n /\ Contents[n] \in Known
      BY <1>1, <2>2
    <3>2. Contents[n + 1] = [a \in Archives |-> Flat(Contents[n], a)]
      BY <1>11, <3>1
    <3>3. \A a \in Archives : Flat(Contents[n], a) \in Seq(BlockType)
      BY <3>1, FlatIs
    <3>4. Contents[n + 1] \in Known
      BY <3>2, <3>3 DEF Known
    <3>5. QED
      BY <3>1, <3>4
  <2> HIDE DEF P
  <2>3. \A n \in 0..Levels : n \in P
    <3>1. \A n \in 0..(Levels - 1) : n \in P => n + 1 \in P
      BY <2>2
    <3>2. QED
      BY <1>1, <2>1, <3>1, UpTo
  <2>4. QED
    BY <2>3 DEF P
<1>13. QED
  BY <1>11, <1>12

\* So is Refused: with no levels left everything is.
Refuses(n, below, a) ==
  \/ n = 0 \/ CutShort(a) \/ TooMany(a)
  \/ \E i \in Begun(a) :
        NotWalked(a.members[i]) \/ \E h \in Held(a.members[i]) : below[h]
  \/ Bytes(Contents[n][a]) > MaxBytes

IsRefused(f) == f = [n \in 0..Levels |-> [a \in Archives |-> Refuses(n, f[n - 1], a)]]

LEMMA RefusedAre ==
  /\ \A a \in Archives : Refused[0][a]
  /\ \A n \in 1..Levels : \A a \in Archives : Refused[n][a] <=> Refuses(n, Refused[n - 1], a)
<1> DEFINE S == [Archives -> BOOLEAN]
           every == [a \in Archives |-> TRUE]
           g == [n \in 1..Levels |-> [p \in S |-> [a \in Archives |-> Refuses(n, p, a)]]]
           body(f, n) == [a \in Archives |-> Refuses(n, f[n - 1], a)]
<1>1. Levels \in Nat
  BY TarballConstants DEF Levels
<1>2. every \in S
  OBVIOUS
<1>3. \A n, p, a : Refuses(n, p, a) \in BOOLEAN
  BY DEF Refuses
<1>4. g \in [1..Levels -> [S -> S]]
  <2>1. ASSUME NEW n, NEW p PROVE [a \in Archives |-> Refuses(n, p, a)] \in S
    BY <1>3
  <2> HIDE DEF S
  <2>2. ASSUME NEW n PROVE [p \in S |-> [a \in Archives |-> Refuses(n, p, a)]] \in [S -> S]
    BY <2>1
  <2>3. QED
    BY <2>2
<1>5. \A n \in 1..Levels, p \in S : g[n][p] = [a \in Archives |-> Refuses(n, p, a)]
  <2> HIDE DEF S
  <2>1. QED
    OBVIOUS
<1>6. PICK f : Iterates(f, S, every, Levels, g)
  <2> HIDE DEF S, every, g
  <2>1. QED
    BY <1>1, <1>2, <1>4, Recursive
<1>7. f \in [0..Levels -> S] /\ f[0] = every /\ \A n \in 1..Levels : f[n] = g[n][f[n - 1]]
  BY <1>6, Zenon DEF Iterates
<1> HIDE DEF g, S
<1>8. IsRefused(f)
  <2>1. ASSUME NEW n \in 0..Levels PROVE f[n] = body(f, n)
    <3>1. CASE n = 0
      <4>1. \A a : Refuses(0, f[0 - 1], a) = TRUE
        BY DEF Refuses
      <4>2. body(f, 0) = every
        BY <4>1
      <4>3. QED
        BY <1>7, <3>1, <4>2
    <3>2. CASE n # 0
      <4>1. n \in 1..Levels /\ n - 1 \in 0..Levels
        BY <1>1, <3>2
      <4>2. f[n - 1] \in S
        BY <1>7, <4>1
      <4>3. QED
        BY <1>5, <1>7, <4>1, <4>2
    <3>3. QED
      BY <3>1, <3>2
  <2>2. f = [n \in 0..Levels |-> f[n]]
    BY <1>7
  <2> HIDE DEF body
  <2>3. f = [n \in 0..Levels |-> body(f, n)]
    BY <2>1, <2>2
  <2>4. QED
    BY <2>3 DEF IsRefused, body
<1>9. IsRefused(Refused)
  <2>1. Refused = CHOOSE h : IsRefused(h)
    BY Zenon DEF Refused, IsRefused, Refuses, Levels
  <2>2. QED
    BY <1>8, <2>1
<1>10. \A n \in 0..Levels : Refused[n] = body(Refused, n)
  BY <1>9, Zenon DEF IsRefused
<1>11. ASSUME NEW n \in 0..Levels, NEW a \in Archives PROVE Refused[n][a] = Refuses(n, Refused[n - 1], a)
  BY <1>10
<1>12. \A n \in 1..Levels : n \in 0..Levels
  OBVIOUS
<1>13. ASSUME NEW a \in Archives PROVE Refused[0][a]
  <2>1. 0 \in 0..Levels
    BY <1>1
  <2>2. Refused[0][a] = Refuses(0, Refused[0 - 1], a)
    BY <1>11, <2>1
  <2>3. QED
    BY <2>2 DEF Refuses
<1>14. QED
  BY <1>11, <1>12, <1>13

-----------------------------------------------------------------------------
(* Frames.                                                                 *)

\* No blocks hold no literals.
LEMMA BytesNone == Bytes(<<>>) = 0
<1>1. DOMAIN [i \in DOMAIN <<>> |-> <<>>[i].len] = {}
  OBVIOUS
<1>2. QED
  BY <1>1, SumSeqEmpty DEF Bytes

\* A walk that has just begun is within every limit.
LEMMA FrameWithin == ASSUME NEW a \in Archives PROVE Within(Frame(a))
<1>1. BlockSize \in Nat /\ BlockSize > 0 /\ MaxBytes \in Nat /\ MaxMembers \in Nat
  BY FormatConstants, TarballConstants
<1>2. 0 % BlockSize = 0
  BY <1>1
<1>3. <<>> \in Seq(BlockType)
  OBVIOUS
<1>4. Frame(a) \in Frames
  BY <1>3 DEF Frame, Frames
<1>5. QED
  BY <1>1, <1>2, <1>4, BytesNone DEF Within, Frame

\* Behind a member a walk is within the limits, if the literals kept are.
LEMMA BehindWithin ==
  ASSUME NEW f, Within(f), NEW m \in ReadMember(f), NEW kept \in Seq(BlockType),
         f.total + Bytes(kept) <= MaxBytes
  PROVE  Within(Behind(f, m, kept))
<1> DEFINE g == Behind(f, m, kept)
           pos == NextMemberOffset(f.pos, m.size)
<1>1. /\ f \in Frames /\ f.archive \in Archives /\ f.pos \in Nat /\ f.members \in Nat
      /\ f.blocks \in Seq(BlockType) /\ f.total \in Nat
      /\ f.pos % BlockSize = 0 /\ f.total = Bytes(f.blocks)
  BY DEF Within, Frames
<1>2. m.size \in Nat /\ f.members < MaxMembers /\ MaxMembers \in Nat
  BY <1>1, ReadMemberType, TarballConstants
<1>3. pos \in Nat /\ pos % BlockSize = 0
  BY <1>1, <1>2, NextMemberAtBlock
<1>4. /\ f.blocks \o kept \in Seq(BlockType) /\ Bytes(kept) \in Nat
      /\ Bytes(f.blocks \o kept) = Bytes(f.blocks) + Bytes(kept)
  BY <1>1, BytesAdd
<1>5. g = [archive |-> f.archive, pos |-> pos, members |-> f.members + 1,
           blocks |-> f.blocks \o kept, total |-> f.total + Bytes(kept)]
  <2> DEFINE b == f.blocks \o kept
             t == f.total + Bytes(kept)
             k == f.members + 1
  <2>1. g = [f EXCEPT !.pos = pos, !.members = k, !.blocks = b, !.total = t]
    BY Zenon DEF Behind
  <2> HIDE DEF pos, b, t, k, g
  <2>2. g = [archive |-> f.archive, pos |-> pos, members |-> k, blocks |-> b, total |-> t]
    BY <1>1, <2>1 DEF Frames
  <2>3. QED
    BY <2>2 DEF b, t, k
<1> HIDE DEF pos, g
<1>6. g \in Frames
  BY <1>1, <1>3, <1>4, <1>5 DEF Frames
<1>7. QED
  BY <1>1, <1>2, <1>3, <1>4, <1>5, <1>6 DEF Within, g

\* So a step that goes on behind a member keeps the invariant.
LEMMA ContinueInv ==
  ASSUME IInv,
         NEW frames \in Seq(Frames), frames # <<>>, Len(frames) <= Len(stack),
         \A d \in 1..Len(frames) : frames[d] = stack[d],
         NEW m \in ReadMember(frames[Len(frames)]), NEW kept \in Seq(BlockType),
         Continue(frames, m, kept)
  PROVE  IInv'
<1> DEFINE n == Len(frames)
           f == frames[n]
           g == Behind(f, m, kept)
<1>1. n \in Nat /\ n >= 1 /\ n \in 1..n /\ DOMAIN frames = 1..n
  OBVIOUS
<1>2. /\ Len(stack) <= MaxDepth + 1 /\ Len(stack) \in Nat /\ MaxDepth \in Nat
      /\ \A d \in 1..Len(stack) : Within(stack[d])
  BY TarballConstants DEF IInv
<1>3. \A d \in 1..n : Within(frames[d])
  BY <1>1, <1>2
<1>4. Within(g)
  <2>1. Within(f) /\ f.total + Bytes(kept) <= MaxBytes
    BY <1>1, <1>3 DEF Continue
  <2> HIDE DEF f
  <2>2. m \in ReadMember(f)
    BY DEF f
  <2>3. QED
    BY <2>1, <2>2, BehindWithin
<1>5. stack' = [frames EXCEPT ![n] = g] /\ UNCHANGED <<input, status, result>>
  BY DEF Continue
<1>6. g \in Frames
  BY <1>4 DEF Within
<1> HIDE DEF n, f, g
<1>7. /\ stack' \in Seq(Frames) /\ Len(stack') = n /\ DOMAIN stack' = 1..n
      /\ \A d \in 1..n : stack'[d] = IF d = n THEN g ELSE frames[d]
  <2>1. Len(frames) = n
    BY DEF n
  <2>2. QED
    BY <1>1, <1>5, <1>6, <2>1
<1>8. \A d \in 1..n : Within(stack'[d])
  BY <1>3, <1>4, <1>7
<1>9. (\A d \in DOMAIN stack : Within(stack[d]))'
  BY <1>7, <1>8 DEF Within, Frames, Bytes
<1>10. Len(stack') <= MaxDepth + 1
  <2>1. n <= Len(stack)
    BY DEF n
  <2>2. QED
    BY <1>1, <1>2, <1>7, <2>1
<1>11. QED
  BY <1>5, <1>7, <1>9, <1>10 DEF IInv

-----------------------------------------------------------------------------
(* The invariant.                                                          *)

\* The innermost archive that is open, and the archives around it.
LEMMA StackFacts ==
  ASSUME IInv, stack # <<>>
  PROVE  /\ Len(stack) \in Nat /\ Len(stack) >= 1 /\ DOMAIN stack = 1..Len(stack)
         /\ Inner \in Frames /\ Within(Inner)
<1>1. Len(stack) \in Nat /\ Len(stack) >= 1 /\ DOMAIN stack = 1..Len(stack) /\ Len(stack) \in 1..Len(stack)
  BY DEF IInv
<1>2. QED
  BY <1>1 DEF IInv, Inner

\* Nothing is open yet and nothing is returned.
LEMMA InitInv == Init => IInv
<1>1. SUFFICES ASSUME Init PROVE IInv
  OBVIOUS
<1>2. <<>> \in Seq(BlockType) /\ <<>> \in Seq(Frames) /\ Len(<<>>) = 0 /\ DOMAIN <<>> = {}
  OBVIOUS
<1>3. MaxBytes \in Nat /\ MaxDepth \in Nat
  BY TarballConstants
<1>4. Bytes(<<>>) <= MaxBytes /\ 0 <= MaxDepth + 1
  BY <1>3, BytesNone
<1>5. input \in Inputs /\ status = "running" /\ stack = <<>> /\ result = <<>>
  BY <1>1 DEF Init
<1>6. result \in Seq(BlockType) /\ Bytes(result) <= MaxBytes
  BY <1>2, <1>4, <1>5
<1>7. stack \in Seq(Frames) /\ Len(stack) <= MaxDepth + 1 /\ DOMAIN stack = {}
  BY <1>2, <1>4, <1>5
<1>8. QED
  BY <1>5, <1>6, <1>7 DEF IInv

\* Each pass keeps the invariant.
LEMMA StepInv == IInv /\ [Next]_vars => IInv'
<1>1. SUFFICES ASSUME IInv, [Next]_vars PROVE IInv'
  OBVIOUS
<1>2. MaxBytes \in Nat /\ MaxDepth \in Nat
  BY TarballConstants
<1>3. CASE Open
  <2>1. PICK a \in Decompressed(input) :
           IF Length(a) = 0 THEN status' = "ok" /\ UNCHANGED stack
           ELSE stack' = <<Frame(a)>> /\ UNCHANGED status
    BY <1>3 DEF Open
  <2>2. a \in Archives
    BY <1>1, ArchiveTypes DEF Decompressed, IInv, ContentType
  <2>3. UNCHANGED <<input, result>>
    BY <1>3 DEF Open
  <2>4. CASE Length(a) = 0
    BY <1>1, <2>1, <2>3, <2>4 DEF IInv, Within, Frames, Bytes
  <2>5. CASE Length(a) # 0
    <3>1. Within(Frame(a)) /\ Frame(a) \in Frames
      BY <2>2, FrameWithin DEF Within
    <3> DEFINE g == Frame(a)
    <3>2. stack' = <<g>> /\ status' = status
      BY <2>1, <2>5
    <3>3. Within(g) /\ g \in Frames
      BY <3>1
    <3> HIDE DEF g
    <3>4. stack' \in Seq(Frames) /\ Len(stack') = 1 /\ DOMAIN stack' = 1..1 /\ stack'[1] = g
      BY <3>2, <3>3
    <3>5. (\A d \in DOMAIN stack : Within(stack[d]))'
      <4>1. \A d \in DOMAIN stack' : Within(stack'[d])
        BY <3>3, <3>4
      <4>2. QED
        BY <4>1 DEF Within, Frames, Bytes
    <3>6. Len(stack') <= MaxDepth + 1
      BY <1>2, <3>4
    <3>7. QED
      BY <1>1, <2>3, <3>2, <3>4, <3>5, <3>6 DEF IInv
  <2>6. QED
    BY <2>4, <2>5
<1>4. CASE RegularFile
  <2>1. PICK m \in ReadMember(Inner) : Continue(stack, m, <<[offset |-> Inner.pos, len |-> m.size]>>)
    BY <1>4 DEF RegularFile
  <2>2. stack # <<>>
    BY <1>4 DEF RegularFile, Walking
  <2>3. m.size \in Nat /\ Inner.pos \in Nat
    BY <1>1, <2>2, StackFacts, ReadMemberType DEF Frames
  <2>4. <<[offset |-> Inner.pos, len |-> m.size]>> \in Seq(BlockType)
    BY <2>3 DEF BlockType
  <2>5. stack \in Seq(Frames) /\ Len(stack) <= Len(stack) /\ m \in ReadMember(stack[Len(stack)])
    BY <1>1, <2>1, <2>2, StackFacts DEF IInv, Inner
  <2>6. QED
    BY <1>1, <2>1, <2>2, <2>4, <2>5, ContinueInv
<1>5. CASE NestedArchive
  <2>1. PICK m \in ReadMember(Inner) : \E a \in Archive(m) : stack' = Append(stack, Frame(a))
    BY <1>5 DEF NestedArchive
  <2>2. PICK a \in Archive(m) : stack' = Append(stack, Frame(a))
    BY <2>1
  <2>3. stack # <<>> /\ Depth + 1 <= MaxDepth /\ UNCHANGED <<input, status, result>>
    BY <1>5 DEF NestedArchive, Walking, DepthAllowed
  <2>4. a \in m.header.content.tar
    BY <2>2 DEF Archive, Decompressed
  <2>5. a \in Archives
    BY <1>1, <2>1, <2>3, <2>4, StackFacts, ReadMemberType
  <2> DEFINE g == Frame(a)
  <2>6. Within(g) /\ g \in Frames
    BY <2>5, FrameWithin DEF Within
  <2>7. stack' = Append(stack, g)
    BY <2>2
  <2> HIDE DEF g
  <2>8. stack \in Seq(Frames) /\ Len(stack) \in Nat /\ DOMAIN stack = 1..Len(stack)
    BY <1>1 DEF IInv
  <2>9. /\ stack' \in Seq(Frames) /\ Len(stack') = Len(stack) + 1 /\ DOMAIN stack' = 1..(Len(stack) + 1)
        /\ stack'[Len(stack) + 1] = g /\ \A d \in 1..Len(stack) : stack'[d] = stack[d]
    BY <2>6, <2>7, <2>8, Appended
  <2>10. \A d \in 1..(Len(stack) + 1) : Within(stack'[d])
    <3>1. \A d \in 1..Len(stack) : Within(stack[d])
      BY <1>1, <2>8 DEF IInv
    <3>2. \A d \in 1..(Len(stack) + 1) : d \in 1..Len(stack) \/ d = Len(stack) + 1
      BY <2>8
    <3>3. QED
      BY <2>6, <2>9, <3>1, <3>2
  <2>11. (\A d \in DOMAIN stack : Within(stack[d]))'
    BY <2>9, <2>10 DEF Within, Frames, Bytes
  <2>12. Len(stack') <= MaxDepth + 1
    BY <1>2, <2>3, <2>8, <2>9 DEF Depth
  <2>13. QED
    BY <1>1, <2>3, <2>9, <2>11, <2>12 DEF IInv
<1>6. CASE OtherMember
  <2>1. PICK m \in ReadMember(Inner) : Continue(stack, m, <<>>)
    BY <1>6 DEF OtherMember
  <2>2. stack # <<>>
    BY <1>6 DEF OtherMember, Walking
  <2>3. stack \in Seq(Frames) /\ Len(stack) <= Len(stack) /\ m \in ReadMember(stack[Len(stack)])
    BY <1>1, <2>1, <2>2, StackFacts DEF IInv, Inner
  <2>4. <<>> \in Seq(BlockType)
    OBVIOUS
  <2>5. QED
    BY <1>1, <2>1, <2>2, <2>3, <2>4, ContinueInv
<1>7. CASE EndOfNested
  <2>1. stack # <<>> /\ Depth > 0
    BY <1>7 DEF EndOfNested, Walking
  <2>2. PICK m \in ReadMember(stack[Depth]) : Continue(Front(stack), m, Inner.blocks)
    BY <1>7 DEF EndOfNested
  <2>3. Inner.blocks \in Seq(BlockType)
    BY <1>1, <2>1, StackFacts DEF Frames
  <2> DEFINE outer == Front(stack)
  <2>4. /\ outer \in Seq(Frames) /\ Len(outer) = Depth /\ Len(outer) >= 1 /\ Len(outer) <= Len(stack)
        /\ \A d \in 1..Len(outer) : outer[d] = stack[d]
    BY <1>1, <2>1, StackFacts DEF IInv, Front, Depth
  <2>5. outer # <<>>
    BY <2>4
  <2>6. outer[Len(outer)] = stack[Depth]
    BY <2>4
  <2> HIDE DEF outer
  <2>7. m \in ReadMember(outer[Len(outer)])
    BY <2>2, <2>6
  <2>8. Continue(outer, m, Inner.blocks)
    BY <2>2 DEF outer
  <2>9. QED
    BY <1>1, <2>3, <2>4, <2>5, <2>7, <2>8, ContinueInv
<1>8. CASE EndOfArchive
  <2>1. stack # <<>> /\ status' = "ok" /\ result' = Inner.blocks /\ UNCHANGED <<input, stack>>
    BY <1>8 DEF EndOfArchive, Walking
  <2>2. Inner.blocks \in Seq(BlockType) /\ Bytes(Inner.blocks) <= MaxBytes
    BY <1>1, <2>1, StackFacts DEF Within, Frames
  <2>3. result' \in Seq(BlockType) /\ (Bytes(result))' <= MaxBytes
    BY <2>1, <2>2 DEF Bytes
  <2>4. QED
    BY <1>1, <2>1, <2>3 DEF IInv
<1>9. CASE Refuse
  <2>1. status' = "error" /\ UNCHANGED <<input, stack, result>>
    BY <1>9 DEF Refuse
  <2>2. QED
    BY <1>1, <2>1 DEF IInv
<1>10. CASE UNCHANGED vars
  BY <1>1, <1>10 DEF IInv, vars
<1>11. QED
  BY <1>1, <1>3, <1>4, <1>5, <1>6, <1>7, <1>8, <1>9, <1>10 DEF Next, Returned

-----------------------------------------------------------------------------
(* A walk against what it should return.                                   *)

\* Every member that is passed is whole and nothing in it is refused, and what is
\* kept are the pieces of those members; n levels may be opened, this one counted.
Sound(a, i, n) ==
  LET m == a.members[i]
  IN  /\ Offset(a, i) + BlockSize + m.size <= Length(a)
      /\ ~NotWalked(m)
      /\ \A h \in Held(m) : ~Refused[n - 1][h]

Passed(f, n) ==
  LET a == f.archive
  IN  /\ f.members <= Len(a.members)
      /\ f.pos = Offset(a, f.members + 1)
      /\ Length(a) <= MaxBytes
      /\ \A i \in 1..f.members : Sound(a, i, n)
      /\ f.blocks = FlatTo(Pieces(Contents[n - 1], a), f.members)

\* What is read of a member is what the archive has there.
LEMMA ReadMemberIs ==
  ASSUME NEW f, Within(f), NEW n, Passed(f, n), NEW m \in ReadMember(f)
  PROVE  /\ f.members + 1 \in 1..Len(f.archive.members)
         /\ m.header = f.archive.members[f.members + 1] /\ m.size = m.header.size
         /\ m.size \in Written(m.header.field) /\ ~LeavesDirectory(m.header.name)
         /\ m.header.type \notin {"symlink", "hardlink"}
         /\ f.pos + BlockSize + m.size <= Length(f.archive)
         /\ m.header \in MemberType
<1> DEFINE a == f.archive
           i == f.members + 1
<1>1. f \in Frames /\ a \in Archives /\ f.members \in Nat /\ f.pos \in Nat
  BY DEF Within, Frames
<1>2. f.members <= Len(a.members) /\ f.pos = Offset(a, i) /\ Len(a.members) \in Nat
  BY <1>1, MembersType DEF Passed
<1>3. PICK h \in HeaderAt(a, f.pos) : \E s \in Octal(h.field) : m = [header |-> h, size |-> s]
  BY Zenon DEF ReadMember
<1>4. PICK s \in Octal(h.field) : m = [header |-> h, size |-> s]
  BY <1>3
<1>5. m.header = h /\ m.size = s
  BY <1>4
<1>6. PICK k \in DOMAIN a.members : Offset(a, k) = f.pos /\ h = a.members[k]
  BY <1>3 DEF HeaderAt
<1>7. DOMAIN a.members = 1..Len(a.members) /\ h \in MemberType
  BY <1>1, <1>6, MembersType
<1>8. k = i
  <2>1. k \in 1..(Len(a.members) + 1) /\ i \in 1..(Len(a.members) + 1) /\ k \in Nat /\ i \in Nat
    BY <1>1, <1>2, <1>6, <1>7
  <2>2. Offset(a, k) = Offset(a, i) /\ Offset(a, i) \in Nat
    BY <1>1, <1>2, <1>6
  <2> HIDE DEF i, a
  <2>3. ~(k < i) /\ ~(i < k)
    <3>1. k < i => Offset(a, k) < Offset(a, i)
      BY <1>1, <2>1, OffsetOrder
    <3>2. i < k => Offset(a, i) < Offset(a, k)
      BY <1>1, <2>1, OffsetOrder
    <3>3. QED
      BY <2>2, <3>1, <3>2
  <2>4. QED
    BY <2>1, <2>3
<1>9. h.field \in Seq(STRING) /\ h.name \in Seq(STRING)
  BY <1>7 DEF MemberType
<1>10. s \in Written(h.field) /\ s = h.size
  <2>1. s \in Written(h.field)
    BY <1>4, <1>9, OctalIsWritten
  <2>2. Written(h.field) \subseteq {h.size}
    BY <1>1, <1>6, ArchiveLayout
  <2>3. QED
    BY <2>1, <2>2
<1>11. /\ ~ContainsPathTraversal(m.header.name)
       /\ f.pos + BlockSize + m.size <= Length(a)
       /\ m.header.type \notin {"symlink", "hardlink"}
  BY Zenon DEF ReadMember
<1>12. ~LeavesDirectory(h.name)
  BY <1>5, <1>9, <1>11, TraversalIsFound
<1>13. i \in 1..Len(a.members)
  BY <1>6, <1>7, <1>8
<1>14. m.header = a.members[i]
  BY <1>5, <1>6, <1>8
<1> HIDE DEF i, a
<1>15. QED
  BY <1>5, <1>7, <1>10, <1>11, <1>12, <1>13, <1>14 DEF i, a

\* What is in a member that is read: the archive that is walked is the one it holds,
\* and one that is none is refused or holds nothing.
LEMMA ContentIs ==
  ASSUME NEW f, Within(f), NEW n, Passed(f, n), NEW m \in ReadMember(f)
  PROVE  /\ ~IsRegular(m) => Held(m.header) = {} /\ ~NotWalked(m.header)
         /\ IsRegular(m) /\ Archive(m) = {} /\ ~Unreadable(m) => Held(m.header) = {} /\ ~NotWalked(m.header)
         /\ IsRegular(m) /\ Unreadable(m) => NotWalked(m.header)
         /\ IsRegular(m) => \A h \in Archive(m) :
               /\ h \in Archives /\ Length(h) <= MaxBytes
               /\ Held(m.header) = {h} /\ ~NotWalked(m.header)
<1> DEFINE h == m.header
           tar == h.content.tar
<1>1. /\ h \in MemberType /\ m.size = h.size /\ h.size \in Written(h.field) /\ ~LeavesDirectory(h.name)
      /\ h.type \notin {"symlink", "hardlink"}
      /\ f.members + 1 \in 1..Len(f.archive.members) /\ h = f.archive.members[f.members + 1]
  BY ReadMemberIs
<1>2. f.archive \in Archives
  BY DEF Within, Frames
<1>3. (\A b, c \in tar : b = c) /\ (h.content.gzip => m.size >= 2) /\ tar \subseteq Archives
  <2>1. f.members + 1 \in DOMAIN f.archive.members
    BY <1>1, <1>2, MembersType
  <2>2. AtMostOne(h.content) /\ (h.content.gzip => h.size >= 2)
    BY <1>1, <1>2, <2>1, ArchiveLayout
  <2>3. tar \subseteq Archives
    <3> HIDE DEF h
    <3>1. QED
      BY <1>1 DEF MemberType, ContentType
  <2>4. QED
    BY <1>1, <2>2, <2>3 DEF AtMostOne
<1>4. NotWalked(h) <=> h.type = "file" /\ h.content.gzip /\ \A b \in tar : Length(b) > MaxBytes
  BY <1>1 DEF NotWalked
<1>5. ASSUME NEW b \in Archives PROVE Length(b) \in Nat /\ MaxBytes \in Nat
  BY <1>5, LengthType, TarballConstants
<1>6. IsRegular(m) <=> h.type = "file"
  BY DEF IsRegular
<1>7. IsGzip(m) <=> h.content.gzip
  BY <1>3 DEF IsGzip
<1>8. Decompressed(h.content) = {b \in tar : Length(b) <= MaxBytes}
  BY DEF Decompressed
<1>9. ASSUME NEW b PROVE b \in Held(h) <=> /\ h.type = "file" /\ h.content.gzip /\ b \in tar
                                           /\ b.magic /\ b.members # <<>> /\ Length(b) >= BlockSize
  BY DEF Held
<1>10. ASSUME NEW b PROVE b \in Archive(m) <=> /\ h.content.gzip /\ b \in tar /\ Length(b) <= MaxBytes
                                               /\ b.magic /\ b.members # <<>> /\ Length(b) >= BlockSize
  BY <1>7, <1>8 DEF Archive, IsTar
<1>11. Unreadable(m) <=> h.content.gzip /\ ~ \E b \in tar : Length(b) <= MaxBytes
  BY <1>7, <1>8 DEF Unreadable
<1> HIDE DEF tar, h
<1>12. \A b \in tar : Length(b) \in Nat /\ MaxBytes \in Nat
  BY <1>3, <1>5
<1>13. \A b \in tar : Length(b) <= MaxBytes <=> ~(Length(b) > MaxBytes)
  BY <1>12
<1>14. ~IsRegular(m) => Held(h) = {} /\ ~NotWalked(h)
  BY <1>4, <1>6, <1>9
<1>15. ASSUME IsRegular(m), Archive(m) = {}, ~Unreadable(m) PROVE Held(h) = {} /\ ~NotWalked(h)
  <2>1. CASE h.content.gzip
    <3>1. PICK b \in tar : Length(b) <= MaxBytes
      BY <1>11, <1>15, <2>1
    <3>2. ~NotWalked(h)
      BY <1>4, <1>13, <3>1
    <3>3. ~(b.magic /\ b.members # <<>> /\ Length(b) >= BlockSize)
      BY <1>10, <1>15, <2>1, <3>1
    <3>4. Held(h) = {}
      BY <1>3, <1>9, <3>1, <3>3
    <3>5. QED
      BY <3>2, <3>4
  <2>2. CASE ~h.content.gzip
    BY <1>4, <1>9, <2>2
  <2>3. QED
    BY <2>1, <2>2
<1>16. IsRegular(m) /\ Unreadable(m) => NotWalked(h)
  BY <1>4, <1>6, <1>11, <1>13
<1>17. ASSUME IsRegular(m), NEW b \in Archive(m)
       PROVE  b \in Archives /\ Length(b) <= MaxBytes /\ Held(h) = {b} /\ ~NotWalked(h)
  <2>1. /\ h.content.gzip /\ b \in tar /\ Length(b) <= MaxBytes
        /\ b.magic /\ b.members # <<>> /\ Length(b) >= BlockSize
    BY <1>10, <1>17
  <2>2. b \in Held(h)
    BY <1>6, <1>9, <1>17, <2>1
  <2>3. \A c \in Held(h) : c = b
    BY <1>3, <1>9, <2>1
  <2>4. ~NotWalked(h)
    BY <1>4, <1>13, <2>1
  <2>5. QED
    BY <1>3, <2>1, <2>2, <2>3, <2>4
<1>18. QED
  BY <1>14, <1>15, <1>16, <1>17 DEF h

\* A frame stands at one of the places where a member begins or the zero blocks do.
LEMMA PassedAt ==
  ASSUME NEW f, Within(f), NEW n \in 1..Levels, Passed(f, n)
  PROVE  LET a == f.archive
             i == f.members + 1
             p == Pieces(Contents[n - 1], a)
         IN  /\ a \in Archives /\ f.members \in Nat /\ Len(a.members) \in Nat /\ f.members <= Len(a.members)
             /\ i \in 1..(Len(a.members) + 1) /\ Length(a) \in Nat /\ Length(a) <= MaxBytes
             /\ f.pos = Offset(a, i) /\ f.pos \in Nat /\ f.members <= MaxMembers /\ MaxMembers \in Nat
             /\ BlockSize \in Nat /\ BlockSize > 0 /\ MaxBytes \in Nat
             /\ \A k \in 1..f.members : Sound(a, k, n)
             /\ f.blocks = FlatTo(p, f.members) /\ f.total = Bytes(f.blocks) /\ f.total <= MaxBytes
             /\ Contents[n - 1] \in Known /\ p \in Seq(Seq(BlockType)) /\ Len(p) = Len(a.members)
             /\ f.blocks \in Seq(BlockType) /\ f.total \in Nat
<1>1. /\ f \in Frames /\ f.archive \in Archives /\ f.members \in Nat /\ f.pos \in Nat /\ f.members <= MaxMembers
      /\ f.total = Bytes(f.blocks) /\ f.total <= MaxBytes /\ f.blocks \in Seq(BlockType) /\ f.total \in Nat
  BY DEF Within, Frames
<1>2. MaxMembers \in Nat /\ MaxBytes \in Nat /\ BlockSize \in Nat /\ BlockSize > 0
  BY TarballConstants, FormatConstants
<1>3. Len(f.archive.members) \in Nat /\ Length(f.archive) \in Nat
  BY <1>1, MembersType, LengthType
<1>4. /\ f.members <= Len(f.archive.members) /\ f.pos = Offset(f.archive, f.members + 1)
      /\ Length(f.archive) <= MaxBytes
      /\ (\A k \in 1..f.members : Sound(f.archive, k, n))
      /\ f.blocks = FlatTo(Pieces(Contents[n - 1], f.archive), f.members)
  BY DEF Passed
<1>5. f.members + 1 \in 1..(Len(f.archive.members) + 1)
  BY <1>1, <1>3, <1>4
<1>6. Contents[n - 1] \in Known
  <2>1. n - 1 \in 0..Levels
    BY TarballConstants DEF Levels
  <2>2. QED
    BY <2>1, ContentsAre
<1>7. /\ Pieces(Contents[n - 1], f.archive) \in Seq(Seq(BlockType))
      /\ Len(Pieces(Contents[n - 1], f.archive)) = Len(f.archive.members)
  BY <1>1, <1>6, PiecesType
<1>8. QED
  BY <1>1, <1>2, <1>3, <1>4, <1>5, <1>6, <1>7

\* Where the walk is at its end it has passed every member that has begun.
LEMMA AtEndIs ==
  ASSUME NEW f, Within(f), NEW n \in 1..Levels, Passed(f, n), AtEnd(f)
  PROVE  /\ f.members = Cardinality(Begun(f.archive))
         /\ ~CutShort(f.archive) /\ ~TooMany(f.archive)
<1> DEFINE a == f.archive
           i == f.members + 1
           L == Len(a.members)
<1>1. /\ a \in Archives /\ f.members \in Nat /\ L \in Nat /\ f.members <= L /\ i \in 1..(L + 1)
      /\ Length(a) \in Nat /\ f.pos = Offset(a, i) /\ f.pos \in Nat
      /\ f.members <= MaxMembers /\ MaxMembers \in Nat /\ BlockSize \in Nat /\ BlockSize > 0
      /\ \A k \in 1..f.members : Sound(a, k, n)
  BY PassedAt
<1>2. DOMAIN a.members = 1..L
  BY <1>1, MembersType
<1>3. ASSUME NEW k \in 1..(L + 1)
      PROVE  Offset(a, k) \in Nat /\ (k < i => Offset(a, k) < Offset(a, i)) /\ (i < k => Offset(a, i) < Offset(a, k))
  <2> HIDE DEF i, a
  <2>1. Offset(a, k) \in Nat
    BY <1>1, <1>3, OffsetNext DEF L
  <2>2. QED
    BY <1>1, <1>3, <2>1, OffsetOrder DEF L
<1>4. ASSUME NEW k \in 1..f.members
      PROVE  /\ k \in 1..L /\ k \in 1..(L + 1) /\ k \in Nat /\ k < i /\ a.members[k].size \in Nat
             /\ Offset(a, k) + BlockSize + a.members[k].size <= Length(a)
  <2>1. k \in 1..L /\ k \in 1..(L + 1) /\ k \in Nat /\ k < i
    BY <1>1
  <2>2. Sound(a, k, n)
    BY <1>1
  <2>3. Offset(a, k) + BlockSize + a.members[k].size <= Length(a)
    BY <2>2 DEF Sound
  <2>4. a.members[k].size \in Nat
    BY <1>1, <2>1, OffsetNext
  <2>5. QED
    BY <2>1, <2>3, <2>4
<1>5. Offset(a, i) >= Length(a) \/ (i = L + 1 /\ f.members < MaxMembers /\ Offset(a, i) + BlockSize <= Length(a))
  <2>1. CASE f.pos >= Length(a)
    BY <1>1, <2>1
  <2>2. CASE Room(f) /\ ZeroAt(a, f.pos)
    <3>1. f.members < MaxMembers /\ f.pos + BlockSize <= Length(a)
      BY <2>2 DEF Room
    <3>2. PICK k \in 1..a.zeros : f.pos = WholeLength(a) - k * BlockSize
      BY <2>2 DEF ZeroAt
    <3>3. /\ Offset(a, L + 1) \in Nat /\ a.zeros * BlockSize \in Nat
          /\ WholeLength(a) = Offset(a, L + 1) + a.zeros * BlockSize
      BY <1>1, LengthType
    <3>4. a.zeros \in Nat /\ k \in Nat /\ k <= a.zeros
      BY <1>1, MembersType
    <3>5. k * BlockSize \in Nat /\ k * BlockSize <= a.zeros * BlockSize
      <4> DEFINE z == a.zeros
                 d == z - k
      <4>1. d \in Nat /\ z = k + d
        BY <3>4
      <4> HIDE DEF d, z
      <4>2. (k + d) * BlockSize = k * BlockSize + d * BlockSize /\ k * BlockSize \in Nat /\ d * BlockSize \in Nat
        BY <1>1, <3>4, <4>1
      <4>3. z * BlockSize = k * BlockSize + d * BlockSize
        BY <4>1, <4>2
      <4>4. k * BlockSize <= z * BlockSize
        BY <4>2, <4>3
      <4>5. QED
        BY <4>2, <4>4 DEF z
    <3>6. f.pos >= Offset(a, L + 1)
      <4> DEFINE x == k * BlockSize
                 y == a.zeros * BlockSize
      <4>1. x \in Nat /\ y \in Nat /\ x <= y /\ f.pos = (Offset(a, L + 1) + y) - x /\ Offset(a, L + 1) \in Nat
        BY <3>2, <3>3, <3>5
      <4> HIDE DEF x, y
      <4>2. QED
        BY <4>1
    <3>7. i = L + 1
      <4>1. L + 1 \in 1..(L + 1)
        BY <1>1
      <4>2. i < L + 1 => Offset(a, i) < Offset(a, L + 1)
        BY <1>3, <4>1
      <4>3. ~(i < L + 1)
        BY <1>1, <3>3, <3>6, <4>2
      <4>4. QED
        BY <1>1, <4>3
    <3>8. QED
      BY <1>1, <3>1, <3>7
  <2>3. QED
    BY <2>1, <2>2 DEF AtEnd
<1> HIDE DEF a, i, L
<1>6. \A k \in 1..L : k \in Begun(a) <=> k \in 1..f.members
  <2>1. SUFFICES ASSUME NEW k \in 1..L PROVE k \in Begun(a) <=> k \in 1..f.members
    OBVIOUS
  <2>2. k \in Nat /\ k \in 1..(L + 1)
    BY <1>1
  <2>3. CASE k \in 1..f.members
    <3>1. Offset(a, k) \in Nat /\ a.members[k].size \in Nat /\ Offset(a, k) + BlockSize + a.members[k].size <= Length(a)
      BY <1>3, <1>4, <2>2, <2>3
    <3>2. Offset(a, k) < Length(a)
      <4> DEFINE s == a.members[k].size
      <4>1. s \in Nat /\ Offset(a, k) + BlockSize + s <= Length(a)
        BY <3>1
      <4> HIDE DEF s
      <4>2. QED
        BY <1>1, <3>1, <4>1
    <3>3. QED
      BY <1>2, <2>3, <3>2 DEF Begun
  <2>4. CASE k \notin 1..f.members
    <3>1. k >= f.members + 1
      BY <1>1, <2>2, <2>4
    <3>2. i = f.members + 1 /\ i \in Nat
      BY <1>1 DEF i
    <3>3. Offset(a, i) >= Length(a)
      BY <1>1, <1>5, <3>1, <3>2
    <3>4. Offset(a, k) >= Offset(a, i)
      <4>1. k = i \/ i < k
        BY <2>2, <3>1, <3>2
      <4>2. QED
        BY <1>1, <1>3, <2>2, <4>1
    <3>5. ~(Offset(a, k) < Length(a))
      BY <1>1, <1>3, <2>2, <3>3, <3>4
    <3>6. QED
      BY <2>4, <3>5 DEF Begun
  <2>5. QED
    BY <2>3, <2>4
<1>7. Begun(a) = 1..f.members
  <2>1. Begun(a) \subseteq 1..L
    BY <1>2 DEF Begun
  <2>2. 1..f.members \subseteq 1..L
    BY <1>1
  <2>3. QED
    BY <1>6, <2>1, <2>2
<1>8. f.members = Cardinality(Begun(a))
  BY <1>1, <1>7, CardUpTo
<1>9. ~CutShort(a)
  <2>1. SUFFICES ASSUME NEW k \in 1..(L + 1), Length(a) > Offset(a, k),
                        Length(a) < Offset(a, k) + BlockSize + IF k \in DOMAIN a.members THEN a.members[k].size ELSE 0
                 PROVE  FALSE
    BY DEF CutShort, L
  <2>2. k \in Nat /\ i \in Nat /\ i = f.members + 1
    BY <1>1 DEF i
  <2>3. CASE k < i
    <3>1. k \in 1..f.members
      BY <1>1, <2>2, <2>3
    <3>2. k \in DOMAIN a.members
      BY <1>2, <1>4, <3>1
    <3>3. QED
      BY <1>1, <1>3, <1>4, <2>1, <3>1, <3>2
  <2>4. CASE k >= i
    <3>1. Offset(a, k) >= Offset(a, i)
      <4>1. k = i \/ i < k
        BY <2>2, <2>4
      <4>2. QED
        BY <1>1, <1>3, <4>1
    <3>2. ~(Offset(a, i) >= Length(a))
      BY <1>1, <1>3, <2>1, <3>1
    <3>3. i = L + 1 /\ Offset(a, i) + BlockSize <= Length(a)
      BY <1>5, <3>2
    <3>4. k = i /\ k \notin DOMAIN a.members
      BY <1>1, <1>2, <2>1, <2>2, <2>4, <3>3
    <3>5. QED
      BY <1>1, <2>1, <3>3, <3>4
  <2>5. QED
    BY <2>2, <2>3, <2>4
<1>10. ~TooMany(a)
  <2>1. SUFFICES ASSUME NEW k \in 1..(L + 1), k > MaxMembers, Length(a) > Offset(a, k) PROVE FALSE
    BY DEF TooMany, L
  <2>2. k \in Nat /\ i \in Nat /\ i = f.members + 1
    BY <1>1 DEF i
  <2>3. k >= i
    BY <1>1, <2>1, <2>2
  <2>4. Offset(a, k) >= Offset(a, i)
    <3>1. k = i \/ i < k
      BY <2>2, <2>3
    <3>2. QED
      BY <1>1, <1>3, <3>1
  <2>5. ~(Offset(a, i) >= Length(a))
    BY <1>1, <1>3, <2>1, <2>4
  <2>6. i = L + 1 /\ f.members < MaxMembers
    BY <1>5, <2>5
  <2>7. k = i
    BY <1>1, <2>2, <2>3, <2>6
  <2>8. QED
    BY <1>1, <2>1, <2>2, <2>6, <2>7
<1>11. QED
  BY <1>8, <1>9, <1>10 DEF a

\* What is laid behind adds to the literals.
LEMMA FlatToBytes ==
  ASSUME NEW q \in Seq(Seq(BlockType)), NEW i \in 0..Len(q), NEW b \in i..Len(q)
  PROVE  /\ Bytes(FlatTo(q, i)) \in Nat /\ Bytes(FlatTo(q, b)) \in Nat
         /\ Bytes(FlatTo(q, i)) <= Bytes(FlatTo(q, b))
<1> DEFINE F(k) == FlatTo(q, k)
           T == {k \in i..Len(q) : ~(Bytes(F(i)) <= Bytes(F(k)))}
<1>1. Len(q) \in Nat /\ i \in Nat /\ b \in Nat /\ i <= b /\ b <= Len(q) /\ b \in 0..Len(q)
  OBVIOUS
<1>2. ASSUME NEW k \in 0..Len(q) PROVE F(k) \in Seq(BlockType) /\ Bytes(F(k)) \in Nat
  <2>1. F(k) \in Seq(BlockType)
    BY FlatToType
  <2> HIDE DEF F
  <2>2. QED
    BY <2>1, BytesAdd
<1>3. T = {}
  <2>1. SUFFICES ASSUME T # {} PROVE FALSE
    OBVIOUS
  <2>2. PICK k \in T : \A m \in T : k <= m
    <3>1. T \subseteq Nat
      BY <1>1
    <3> HIDE DEF T
    <3>2. QED
      BY <2>1, <3>1, LeastNat
  <2>3. k \in i..Len(q) /\ ~(Bytes(F(i)) <= Bytes(F(k))) /\ k \in Nat /\ k \in 0..Len(q)
    BY <1>1, <2>2
  <2>4. k # i
    <3> HIDE DEF F
    <3>1. QED
      BY <1>1, <1>2, <2>3
  <2>5. k - 1 \in i..Len(q) /\ k - 1 \in 0..Len(q) /\ k \in 1..Len(q) /\ ~(k <= k - 1)
    BY <1>1, <2>3, <2>4
  <2>6. k - 1 \notin T
    BY <2>2, <2>5
  <2>7. Bytes(F(i)) <= Bytes(F(k - 1))
    BY <2>5, <2>6
  <2>8. F(k) = F(k - 1) \o q[k] /\ q[k] \in Seq(BlockType)
    <3>1. F(k) = F(k - 1) \o q[k]
      <4>1. \A j \in 1..Len(q) : FlatTo(q, j) = FlatTo(q, j - 1) \o q[j]
        BY FlatToSteps
      <4>2. QED
        BY <2>5, <4>1
    <3>2. q[k] \in Seq(BlockType)
      BY <2>5
    <3>3. QED
      BY <3>1, <3>2
  <2> HIDE DEF F, T
  <2>9. Bytes(F(k)) = Bytes(F(k - 1)) + Bytes(q[k]) /\ Bytes(q[k]) \in Nat
    BY <1>2, <2>5, <2>8, BytesAdd
  <2> DEFINE x == Bytes(F(i))
             y == Bytes(F(k - 1))
             z == Bytes(F(k))
             w == Bytes(q[k])
  <2>10. x \in Nat /\ y \in Nat /\ w \in Nat /\ z = y + w /\ x <= y /\ ~(x <= z)
    <3>1. i \in 0..Len(q)
      OBVIOUS
    <3>2. QED
      BY <1>2, <2>3, <2>5, <2>7, <2>9, <3>1
  <2> HIDE DEF x, y, z, w
  <2>11. QED
    BY <2>10
<1>4. Bytes(F(i)) <= Bytes(F(b))
  BY <1>3
<1> HIDE DEF F
<1>5. Bytes(F(i)) \in Nat /\ Bytes(F(b)) \in Nat
  BY <1>1, <1>2
<1>6. QED
  BY <1>4, <1>5 DEF F

\* So at its end a walk has kept exactly what it should, and nothing is refused.
LEMMA AtEndExact ==
  ASSUME NEW f, Within(f), NEW n \in 1..Levels, Passed(f, n), AtEnd(f)
  PROVE  f.blocks = Contents[n][f.archive] /\ ~Refused[n][f.archive]
<1> DEFINE a == f.archive
           p == Pieces(Contents[n - 1], a)
<1>1. /\ a \in Archives /\ Contents[n - 1] \in Known /\ f.blocks = FlatTo(p, f.members)
      /\ f.total = Bytes(f.blocks) /\ f.total <= MaxBytes /\ f.total \in Nat /\ MaxBytes \in Nat
      /\ f.members \in Nat
      /\ \A k \in 1..f.members : Sound(a, k, n)
  BY PassedAt
<1>2. f.members = Cardinality(Begun(a)) /\ ~CutShort(a) /\ ~TooMany(a)
  BY AtEndIs
<1>3. Contents[n][a] = FlatTo(p, f.members)
  BY <1>1, <1>2, ContentsAre, FlatIs
<1>4. f.blocks = Contents[n][a]
  BY <1>1, <1>3
<1> HIDE DEF a, p
<1>5. ~(Bytes(Contents[n][a]) > MaxBytes)
  BY <1>1, <1>4
<1>6. ASSUME NEW i \in Begun(a) PROVE ~NotWalked(a.members[i]) /\ \A h \in Held(a.members[i]) : ~Refused[n - 1][h]
  <2>1. i \in 1..f.members
    BY <1>1, <1>2, BegunIs
  <2>2. Sound(a, i, n)
    BY <1>1, <2>1
  <2>3. QED
    BY <2>2 DEF Sound
<1>7. n # 0
  OBVIOUS
<1>8. ~Refuses(n, Refused[n - 1], a)
  BY <1>2, <1>5, <1>6, <1>7 DEF Refuses
<1>9. ~Refused[n][a]
  BY <1>1, <1>8, RefusedAre
<1>10. QED
  BY <1>4, <1>9 DEF a

\* A walk that has just begun.
LEMMA FramePassed ==
  ASSUME NEW a \in Archives, Length(a) <= MaxBytes, NEW n \in 1..Levels
  PROVE  Passed(Frame(a), n)
<1> DEFINE f == Frame(a)
           p == Pieces(Contents[n - 1], a)
<1>1. f.archive = a /\ f.members = 0 /\ f.pos = 0 /\ f.blocks = <<>>
  BY DEF Frame
<1>2. Contents[n - 1] \in Known
  <2>1. n - 1 \in 0..Levels
    BY TarballConstants DEF Levels
  <2>2. QED
    BY <2>1, ContentsAre
<1>3. p \in Seq(Seq(BlockType))
  BY <1>2, PiecesType
<1>4. FlatTo(p, 0) = <<>>
  <2> HIDE DEF p
  <2>1. QED
    BY <1>3, FlatToSteps
<1>5. Offset(a, 1) = 0 /\ 0 + 1 = 1 /\ Len(a.members) \in Nat /\ 0 <= Len(a.members) /\ 1..0 = {}
  <2>1. Offset(a, 1) = 0 /\ Len(a.members) \in Nat
    BY OffsetNext, MembersType
  <2>2. QED
    BY <2>1
<1> HIDE DEF f
<1>6. Passed(f, n)
  BY <1>1, <1>4, <1>5 DEF Passed
<1>7. QED
  BY <1>6 DEF f

\* Behind a member of which everything that belongs to it was kept.
LEMMA BehindPassed ==
  ASSUME NEW f, Within(f), NEW n \in 1..Levels, Passed(f, n), NEW m \in ReadMember(f),
         ~NotWalked(m.header), \A h \in Held(m.header) : ~Refused[n - 1][h],
         NEW kept, kept = Piece(Contents[n - 1], f.archive, f.members + 1)
  PROVE  Passed(Behind(f, m, kept), n) /\ Behind(f, m, kept).archive = f.archive
<1> DEFINE g == Behind(f, m, kept)
           a == f.archive
           i == f.members + 1
           p == Pieces(Contents[n - 1], a)
<1>1. /\ a \in Archives /\ f.members \in Nat /\ Len(a.members) \in Nat
      /\ f.pos = Offset(a, i) /\ Length(a) <= MaxBytes
      /\ (\A k \in 1..f.members : Sound(a, k, n))
      /\ f.blocks = FlatTo(p, f.members)
      /\ Contents[n - 1] \in Known /\ p \in Seq(Seq(BlockType)) /\ Len(p) = Len(a.members)
  BY PassedAt
<1>2. /\ i \in 1..Len(a.members) /\ m.header = a.members[i] /\ m.size = a.members[i].size
      /\ f.pos + BlockSize + m.size <= Length(a)
  BY ReadMemberIs
<1>3. /\ g.archive = a /\ g.pos = NextMemberOffset(f.pos, m.size) /\ g.members = i
      /\ g.blocks = f.blocks \o kept
  <2>1. f \in Frames
    BY DEF Within
  <2>2. QED
    BY <2>1 DEF Behind, Frames
<1>4. g.pos = Offset(a, i + 1)
  BY <1>1, <1>2, <1>3, OffsetNext
<1>5. g.blocks = FlatTo(p, i)
  <2>1. p[i] = kept
    BY <1>1, <1>2, PiecesType
  <2>2. i \in 1..Len(p) /\ i - 1 = f.members
    BY <1>1, <1>2
  <2> HIDE DEF p
  <2>3. FlatTo(p, i) = FlatTo(p, i - 1) \o p[i]
    BY <1>1, <2>2, FlatToSteps
  <2>4. QED
    BY <1>1, <1>3, <2>1, <2>2, <2>3
<1>6. Sound(a, i, n)
  <2>1. Offset(a, i) + BlockSize + a.members[i].size <= Length(a)
    BY <1>1, <1>2
  <2>2. ~NotWalked(a.members[i]) /\ \A h \in Held(a.members[i]) : ~Refused[n - 1][h]
    BY <1>2
  <2>3. QED
    BY <2>1, <2>2 DEF Sound
<1>7. \A k \in 1..i : Sound(a, k, n)
  <2>1. \A k \in 1..i : k \in 1..f.members \/ k = i
    BY <1>1
  <2>2. QED
    BY <1>1, <1>6, <2>1
<1>8. i <= Len(a.members)
  BY <1>2
<1> HIDE DEF g, i, p
<1>9. Passed(g, n)
  BY <1>1, <1>3, <1>4, <1>5, <1>7, <1>8 DEF Passed, p
<1>10. QED
  BY <1>3, <1>9 DEF g

\* Where a walk is not at its end and no member can be read, something is refused.
LEMMA UnreadRefused ==
  ASSUME NEW f, Within(f), NEW n \in 1..Levels, Passed(f, n), ~AtEnd(f), ReadMember(f) = {}
  PROVE  Refused[n][f.archive]
<1> DEFINE a == f.archive
           i == f.members + 1
           L == Len(a.members)
<1>1. /\ a \in Archives /\ f.members \in Nat /\ L \in Nat /\ f.members <= L /\ i \in 1..(L + 1)
      /\ Length(a) \in Nat /\ f.pos = Offset(a, i) /\ f.pos \in Nat
      /\ MaxMembers \in Nat /\ BlockSize \in Nat /\ BlockSize > 0
  BY PassedAt
<1>2. DOMAIN a.members = 1..L /\ \A k \in 1..L : a.members[k] \in MemberType
  BY <1>1, MembersType
<1>3. f.pos < Length(a) /\ (Room(f) => ~ZeroAt(a, f.pos))
  BY <1>1 DEF AtEnd
<1>4. Refused[n][a] <=> Refuses(n, Refused[n - 1], a)
  BY <1>1, RefusedAre
<1>5. SUFFICES CutShort(a) \/ TooMany(a) \/ \E k \in Begun(a) : NotWalked(a.members[k])
  BY <1>4 DEF Refuses
<1>6. ASSUME i \in 1..L PROVE a.members[i].size \in Nat /\ a.members[i] \in MemberType /\ i \in Begun(a)
  <2>1. a.members[i] \in MemberType
    BY <1>2, <1>6
  <2>2. a.members[i].size \in Nat
    BY <2>1 DEF MemberType
  <2>3. i \in Begun(a)
    BY <1>1, <1>2, <1>3, <1>6 DEF Begun
  <2>4. QED
    BY <2>1, <2>2, <2>3
<1>7. CASE f.pos + BlockSize > Length(a)
  <2> DEFINE s == IF i \in DOMAIN a.members THEN a.members[i].size ELSE 0
  <2>1. s \in Nat
    BY <1>2, <1>6
  <2>2. Length(a) < Offset(a, i) + BlockSize + s
    <3> HIDE DEF s, i, a, L
    <3>1. QED
      BY <1>1, <1>7, <2>1
  <2>3. Length(a) > Offset(a, i)
    BY <1>1, <1>3
  <2>4. CutShort(a)
    BY <1>1, <2>2, <2>3 DEF CutShort
  <2>5. QED
    BY <2>4
<1>8. CASE ~(f.members < MaxMembers)
  <2>1. i > MaxMembers /\ Length(a) > Offset(a, i)
    BY <1>1, <1>3, <1>8
  <2>2. TooMany(a)
    BY <1>1, <2>1 DEF TooMany
  <2>3. QED
    BY <2>2
<1>9. CASE Room(f) /\ i = L + 1
  <2>1. ~ZeroAt(a, f.pos)
    BY <1>3, <1>9
  <2>2. /\ Length(a) <= WholeLength(a) /\ a.zeros \in Nat
        /\ Offset(a, L + 1) \in Nat /\ a.zeros * BlockSize \in Nat
        /\ WholeLength(a) = Offset(a, L + 1) + a.zeros * BlockSize
    BY <1>1, LengthType, MembersType
  <2>3. a.zeros = 0
    <3>1. SUFFICES ASSUME a.zeros # 0 PROVE FALSE
      OBVIOUS
    <3>2. a.zeros \in 1..a.zeros
      BY <2>2, <3>1
    <3>3. f.pos = WholeLength(a) - a.zeros * BlockSize
      <4> DEFINE y == a.zeros * BlockSize
      <4>1. y \in Nat /\ WholeLength(a) = Offset(a, L + 1) + y /\ f.pos = Offset(a, L + 1)
        BY <1>1, <1>9, <2>2
      <4> HIDE DEF y
      <4>2. f.pos = WholeLength(a) - y
        BY <2>2, <4>1
      <4>3. QED
        BY <4>2 DEF y
    <3>4. QED
      BY <2>1, <3>2, <3>3 DEF ZeroAt
  <2>4. 0 * BlockSize = 0
    BY <1>1
  <2>5. WholeLength(a) = Offset(a, L + 1)
    BY <2>2, <2>3, <2>4
  <2>6. QED
    BY <1>1, <1>3, <1>9, <2>2, <2>5
<1>10. CASE Room(f) /\ i \in 1..L
  <2> DEFINE h == a.members[i]
  <2>1. h.size \in Nat /\ h \in MemberType /\ i \in Begun(a)
    BY <1>6, <1>10
  <2>2. h.field \in Seq(STRING) /\ h.name \in Seq(STRING)
    BY <2>1 DEF MemberType
  <2>3. SUFFICES ASSUME ~CutShort(a), ~NotWalked(h) PROVE FALSE
    BY <2>1
  <2>4. h.size \in Written(h.field) /\ ~LeavesDirectory(h.name) /\ h.type \notin {"symlink", "hardlink"}
    BY <2>3 DEF NotWalked
  <2>5. h.size \in Octal(h.field) /\ ~ContainsPathTraversal(h.name)
    BY <2>2, <2>4, OctalIsWritten, TraversalIsFound
  <2>6. f.pos + BlockSize + h.size <= Length(a)
    <3>1. i \in DOMAIN a.members /\ Length(a) > Offset(a, i) /\ i \in 1..(L + 1)
      BY <1>1, <1>2, <1>3, <1>10
    <3>2. ~(Length(a) < Offset(a, i) + BlockSize + h.size)
      BY <2>3, <3>1 DEF CutShort
    <3> DEFINE s == h.size
    <3>3. s \in Nat /\ ~(Length(a) < Offset(a, i) + BlockSize + s)
      BY <2>1, <3>2
    <3> HIDE DEF s, i, a
    <3>4. f.pos + BlockSize + s <= Length(a)
      BY <1>1, <3>3
    <3>5. QED
      BY <3>4 DEF s
  <2>7. h \in HeaderAt(a, f.pos)
    BY <1>1, <1>2, <1>10 DEF HeaderAt
  <2> DEFINE m == [header |-> h, size |-> h.size]
  <2>8. m.header = h /\ m.size = h.size
    OBVIOUS
  <2>9. m \in UNION {{[header |-> g, size |-> s] : s \in Octal(g.field)} : g \in HeaderAt(a, f.pos)}
    <3>1. m \in {[header |-> h, size |-> s] : s \in Octal(h.field)}
      BY <2>5
    <3> HIDE DEF h, m
    <3>2. QED
      BY <2>7, <3>1
  <2> HIDE DEF m, h, i, a, L
  <2>10. m \in ReadMember(f)
    BY <1>10, <2>4, <2>5, <2>6, <2>8, <2>9 DEF ReadMember, a
  <2>11. QED
    BY <2>10
<1>11. QED
  BY <1>1, <1>7, <1>8, <1>9, <1>10 DEF Room

\* And where one can be read, but not walked, or holds an archive that is refused, or
\* more than may be kept.
LEMMA MemberRefused ==
  ASSUME NEW f, Within(f), NEW n \in 1..Levels, Passed(f, n), NEW m \in ReadMember(f),
         NEW kept, kept = Piece(Contents[n - 1], f.archive, f.members + 1),
         \/ NotWalked(m.header) \/ (\E h \in Held(m.header) : Refused[n - 1][h])
         \/ Exceeds(f, kept)
  PROVE  Refused[n][f.archive]
<1> DEFINE a == f.archive
           i == f.members + 1
           L == Len(a.members)
           p == Pieces(Contents[n - 1], a)
           b == Cardinality(Begun(a))
<1>1. /\ a \in Archives /\ f.members \in Nat /\ L \in Nat
      /\ Length(a) \in Nat /\ f.pos = Offset(a, i) /\ f.pos \in Nat /\ MaxBytes \in Nat
      /\ BlockSize \in Nat /\ BlockSize > 0
      /\ f.blocks = FlatTo(p, f.members) /\ f.total = Bytes(f.blocks) /\ f.blocks \in Seq(BlockType)
      /\ Contents[n - 1] \in Known /\ p \in Seq(Seq(BlockType)) /\ Len(p) = L
  BY PassedAt
<1>2. /\ i \in 1..L /\ m.header = a.members[i] /\ m.header \in MemberType
      /\ m.size = m.header.size /\ f.pos + BlockSize + m.size <= Length(a)
  BY ReadMemberIs
<1>3. i \in Begun(a)
  <2>1. m.size \in Nat /\ DOMAIN a.members = 1..L
    BY <1>1, <1>2, MembersType DEF MemberType
  <2>2. Offset(a, i) < Length(a)
    <3> HIDE DEF i, a
    <3>1. QED
      BY <1>1, <1>2, <2>1
  <2>3. QED
    BY <1>2, <2>1, <2>2 DEF Begun
<1>4. Refused[n][a] <=> Refuses(n, Refused[n - 1], a)
  BY <1>1, RefusedAre
<1>5. CASE NotWalked(m.header) \/ \E h \in Held(m.header) : Refused[n - 1][h]
  BY <1>2, <1>3, <1>4, <1>5 DEF Refuses
<1>6. CASE Exceeds(f, kept)
  <2>1. f.total + Bytes(kept) > MaxBytes
    BY <1>6 DEF Exceeds
  <2>3. i \in 1..Len(p) /\ i - 1 = f.members /\ i \in Nat /\ i \in 0..Len(p)
    <3>1. Len(p) = L /\ L \in Nat /\ f.members \in Nat /\ i \in 1..L
      BY <1>1, <1>2
    <3> HIDE DEF p, L, a
    <3>2. QED
      BY <3>1
  <2>2. kept = p[i] /\ kept \in Seq(BlockType)
    <3>1. kept = p[i]
      BY <1>1, <1>2, PiecesType
    <3> HIDE DEF p
    <3>2. QED
      BY <1>1, <2>3, <3>1
  <2>4. b \in 0..L /\ i \in 1..b /\ b \in i..Len(p) /\ b \in Nat
    <3>1. b \in 0..L /\ i \in 1..b
      BY <1>1, <1>3, BegunIs
    <3> HIDE DEF b, i
    <3>2. QED
      BY <1>1, <2>3, <3>1
  <2>5. Contents[n][a] = FlatTo(p, b)
    BY <1>1, ContentsAre, FlatIs
  <2> HIDE DEF a, i, L, p, b
  <2>6. FlatTo(p, i) = f.blocks \o kept
    <3>1. FlatTo(p, i) = FlatTo(p, i - 1) \o p[i]
      BY <1>1, <2>3, FlatToSteps
    <3>2. QED
      BY <1>1, <2>2, <2>3, <3>1
  <2>7. Bytes(FlatTo(p, i)) = f.total + Bytes(kept)
    BY <1>1, <2>2, <2>6, BytesAdd
  <2>8. Bytes(FlatTo(p, i)) \in Nat /\ Bytes(FlatTo(p, b)) \in Nat /\ Bytes(FlatTo(p, i)) <= Bytes(FlatTo(p, b))
    BY <1>1, <2>3, <2>4, FlatToBytes
  <2>9. Bytes(Contents[n][a]) > MaxBytes
    BY <1>1, <2>1, <2>5, <2>7, <2>8
  <2>10. QED
    BY <1>4, <2>9 DEF Refuses, a
<1>7. QED
  BY <1>5, <1>6

-----------------------------------------------------------------------------
(* The invariant of exactness.                                             *)

\* The levels that may be opened from frame d on, its own counted.
Left(d) == MaxDepth + 2 - d

\* A walk is at a member that holds the archive b.
Opened(f, b) == ~AtEnd(f) /\ \E m \in ReadMember(f) : IsRegular(m) /\ b \in Archive(m)

\* Every archive that is open is passed as it should be; each is held by the member
\* that the one around it is at, the first by the input.
Chain ==
  /\ \A d \in DOMAIN stack : Passed(stack[d], Left(d))
  /\ \A d \in 1..(Len(stack) - 1) : Opened(stack[d], stack[d + 1].archive)
  /\ stack # <<>> => input.gzip /\ stack[1].archive \in input.tar
  /\ status = "running" => result = <<>>

SInv == IInv /\ Chain /\ ScanExact

\* A frame and its level.
LEMMA FrameFacts ==
  ASSUME IInv, Chain, NEW d \in 1..Len(stack)
  PROVE  /\ Len(stack) \in Nat /\ d \in Nat /\ DOMAIN stack = 1..Len(stack)
         /\ Within(stack[d]) /\ Left(d) \in 1..Levels /\ Passed(stack[d], Left(d))
         /\ stack[d].archive \in Archives
         /\ Left(d) - 1 = Left(d + 1) /\ Left(1) = Levels /\ MaxDepth \in Nat
<1>1. /\ Len(stack) \in Nat /\ d \in Nat /\ DOMAIN stack = 1..Len(stack) /\ Len(stack) <= MaxDepth + 1
      /\ MaxDepth \in Nat
  BY TarballConstants DEF IInv
<1>2. Within(stack[d]) /\ Passed(stack[d], Left(d))
  BY <1>1 DEF IInv, Chain
<1>3. Left(d) \in 1..Levels /\ Left(d) - 1 = Left(d + 1) /\ Left(1) = Levels
  BY <1>1 DEF Left, Levels
<1>4. stack[d].archive \in Archives
  BY <1>2 DEF Within, Frames
<1>5. QED
  BY <1>1, <1>2, <1>3, <1>4

\* What is refused within is refused without.
LEMMA Outward ==
  ASSUME IInv, Chain, NEW d \in 1..Len(stack), Refused[Left(d)][stack[d].archive]
  PROVE  Refused[Levels][stack[1].archive]
<1> DEFINE R(e) == Refused[Left(e)][stack[e].archive]
           P == {k \in 0..(d - 1) : R(d - k)}
<1>1. d \in Nat /\ Len(stack) \in Nat /\ d >= 1 /\ d - 1 \in Nat /\ Left(1) = Levels
  BY FrameFacts
<1>2. 0 \in P
  <2>1. 0 \in 0..(d - 1) /\ d - 0 = d
    BY <1>1
  <2> HIDE DEF R
  <2>2. R(d)
    BY DEF R
  <2>3. QED
    BY <2>1, <2>2
<1>3. ASSUME NEW k \in 0..((d - 1) - 1), k \in P PROVE k + 1 \in P
  <2> DEFINE e == d - k
             c == d - (k + 1)
             f == stack[c]
             b == stack[e].archive
             n == Left(c)
  <2>1. /\ k + 1 \in 0..(d - 1) /\ c \in 1..(Len(stack) - 1) /\ c \in 1..Len(stack) /\ e = c + 1
    BY <1>1
  <2>2. R(e)
    BY <1>3
  <2> HIDE DEF c, e
  <2>3. Within(f) /\ n \in 1..Levels /\ Passed(f, n) /\ n - 1 = Left(c + 1)
    BY <2>1, FrameFacts
  <2>4. Opened(f, stack[c + 1].archive)
    BY <2>1 DEF Chain
  <2>5. PICK m \in ReadMember(f) : IsRegular(m) /\ b \in Archive(m)
    BY <2>1, <2>4 DEF Opened
  <2>6. Refused[n - 1][b]
    BY <2>1, <2>2, <2>3
  <2> DEFINE kept == Piece(Contents[n - 1], f.archive, f.members + 1)
  <2> HIDE DEF f, b, n
  <2>7. Held(m.header) = {b}
    BY <2>3, <2>5, ContentIs
  <2>8. \E h \in Held(m.header) : Refused[n - 1][h]
    BY <2>6, <2>7
  <2>9. Refused[n][f.archive]
    <3>1. kept = Piece(Contents[n - 1], f.archive, f.members + 1)
      OBVIOUS
    <3> HIDE DEF kept
    <3>2. QED
      BY <2>3, <2>5, <2>8, <3>1, MemberRefused
  <2>10. R(c)
    BY <2>9 DEF f, n
  <2>11. QED
    BY <2>1, <2>10 DEF c
<1>4. d - 1 \in P
  <2> HIDE DEF P
  <2>1. \A k \in 0..((d - 1) - 1) : k \in P => k + 1 \in P
    BY <1>3
  <2>2. \A k \in 0..(d - 1) : k \in P
    BY <1>1, <1>2, <2>1, UpTo
  <2>3. d - 1 \in 0..(d - 1)
    BY <1>1
  <2>4. QED
    BY <2>2, <2>3
<1>5. d - (d - 1) = 1
  BY <1>1
<1> HIDE DEF R
<1>6. R(1)
  BY <1>4, <1>5
<1>7. QED
  BY <1>1, <1>6 DEF R

\* The outermost archive is the input, and what is refused of it is an error.
Whole == {a \in IF input.gzip THEN input.tar ELSE {} : Length(a) <= MaxBytes}

LEMMA WholeIs ==
  ASSUME IInv, Chain, stack # <<>>
  PROVE  Whole = {stack[1].archive} /\ 1 \in 1..Len(stack)
<1>1. Len(stack) \in Nat /\ Len(stack) >= 1
  BY StackFacts
<1>2. 1 \in 1..Len(stack)
  BY <1>1
<1> DEFINE b == stack[1].archive
<1>3. Length(b) <= MaxBytes
  BY <1>2, FrameFacts DEF Passed
<1>4. input.gzip /\ b \in input.tar
  BY DEF Chain
<1>5. \A x, y \in input.tar : x = y
  BY ArchiveLayout DEF IInv, AtMostOne
<1>6. Whole = {b}
  <2> HIDE DEF b
  <2>1. b \in Whole
    BY <1>3, <1>4 DEF Whole
  <2>2. \A x \in Whole : x = b
    BY <1>4, <1>5 DEF Whole
  <2>3. QED
    BY <2>1, <2>2
<1>7. QED
  BY <1>2, <1>6

\* A step that goes on behind a member of frame n keeps the chain, if all is kept
\* that belongs to the member.
LEMMA ContinueChain ==
  ASSUME IInv, Chain, status = "running",
         NEW n \in 1..Len(stack), NEW frames \in Seq(Frames), Len(frames) = n,
         \A d \in 1..n : frames[d] = stack[d],
         NEW m \in ReadMember(stack[n]), NEW kept,
         kept = Piece(Contents[Left(n) - 1], stack[n].archive, stack[n].members + 1),
         ~NotWalked(m.header), \A h \in Held(m.header) : ~Refused[Left(n) - 1][h],
         Continue(frames, m, kept)
  PROVE  Chain' /\ ScanExact'
<1> DEFINE f == stack[n]
           g == Behind(f, m, kept)
<1>1. Len(stack) \in Nat /\ n \in Nat /\ Within(f) /\ Left(n) \in 1..Levels /\ Passed(f, Left(n))
  BY FrameFacts
<1>2. Passed(g, Left(n)) /\ g.archive = f.archive
  <2>1. kept = Piece(Contents[Left(n) - 1], f.archive, f.members + 1) /\ m \in ReadMember(f)
    OBVIOUS
  <2> HIDE DEF f
  <2>2. QED
    BY <1>1, <2>1, BehindPassed
<1>3. stack' = [frames EXCEPT ![n] = g] /\ UNCHANGED <<input, status, result>>
  <2>1. frames[Len(frames)] = f
    BY <1>1
  <2>2. QED
    BY <2>1, Zenon DEF Continue
<1>4. n \in 1..n /\ DOMAIN frames = 1..n
  BY <1>1
<1> HIDE DEF f, g
<1>5. DOMAIN stack' = 1..n /\ Len(stack') = n /\ \A d \in 1..n : stack'[d] = IF d = n THEN g ELSE stack[d]
  <2>1. stack' = [d \in 1..n |-> IF d = n THEN g ELSE frames[d]]
    BY <1>3, <1>4
  <2>2. Len(stack') = n
    BY <1>1, <2>1
  <2>3. QED
    BY <2>1, <2>2
<1>6. \A d \in 1..n : Passed(stack'[d], Left(d))
  <2>1. \A d \in 1..n : d \in 1..Len(stack)
    BY <1>1
  <2>2. \A d \in 1..n : Passed(stack[d], Left(d))
    BY <2>1, FrameFacts
  <2>3. QED
    BY <1>2, <1>5, <2>2
<1>7. \A d \in 1..(n - 1) : Opened(stack'[d], stack'[d + 1].archive)
  <2>1. SUFFICES ASSUME NEW d \in 1..(n - 1) PROVE Opened(stack'[d], stack'[d + 1].archive)
    OBVIOUS
  <2>2. d \in 1..n /\ d + 1 \in 1..n /\ d # n /\ d \in 1..(Len(stack) - 1)
    BY <1>1
  <2>3. Opened(stack[d], stack[d + 1].archive)
    BY <2>2 DEF Chain
  <2>4. stack'[d] = stack[d] /\ stack'[d + 1].archive = stack[d + 1].archive
    BY <1>2, <1>5, <2>2 DEF f
  <2>5. QED
    BY <2>3, <2>4
<1>8. input'.gzip /\ stack'[1].archive \in input'.tar
  <2>1. stack # <<>>
    BY <1>1
  <2>2. input.gzip /\ stack[1].archive \in input.tar
    BY <2>1 DEF Chain
  <2>3. 1 \in 1..n
    BY <1>1
  <2>4. stack'[1].archive = stack[1].archive
    BY <1>2, <1>5, <2>3 DEF f
  <2>5. QED
    BY <1>3, <2>2, <2>4
<1>9. status' = "running" /\ result' = result /\ result = <<>>
  BY <1>3 DEF Chain
<1>10. Chain'
  <2>1. (\A d \in DOMAIN stack : Passed(stack[d], Left(d)))'
    BY <1>5, <1>6
  <2>2. (\A d \in 1..(Len(stack) - 1) : Opened(stack[d], stack[d + 1].archive))'
    BY <1>5, <1>7
  <2>3. (stack # <<>> => input.gzip /\ stack[1].archive \in input.tar)'
    BY <1>8
  <2>4. (status = "running" => result = <<>>)'
    BY <1>9
  <2>5. QED
    BY <2>1, <2>2, <2>3, <2>4 DEF Chain
<1>11. ScanExact'
  BY <1>9 DEF ScanExact
<1>12. QED
  BY <1>10, <1>11

\* What belongs to the member that a walk is at.
LEMMA PieceIs ==
  ASSUME NEW f, Within(f), NEW n \in 1..Levels, Passed(f, n), NEW m \in ReadMember(f), NEW piece,
         piece = Piece(Contents[n - 1], f.archive, f.members + 1)
  PROVE  /\ ~IsRegular(m) => piece = <<>>
         /\ IsRegular(m) /\ Archive(m) = {} /\ ~Unreadable(m) =>
               piece = <<[offset |-> f.pos, len |-> m.size]>>
         /\ IsRegular(m) => \A h \in Archive(m) : piece = Contents[n - 1][h]
<1> DEFINE a == f.archive
           i == f.members + 1
           h == m.header
<1>1. h = a.members[i] /\ m.size = h.size
  BY ReadMemberIs
<1>2. f.pos = Offset(a, i)
  BY DEF Passed
<1>3. IsRegular(m) <=> h.type = "file"
  BY DEF IsRegular
<1>4. piece = IF h.type # "file" THEN <<>>
              ELSE IF Held(h) # {} THEN Contents[n - 1][CHOOSE b \in Held(h) : TRUE]
              ELSE <<[offset |-> Offset(a, i), len |-> h.size]>>
  BY <1>1 DEF Piece
<1>5. ASSUME IsRegular(m), Archive(m) = {}, ~Unreadable(m) PROVE piece = <<[offset |-> f.pos, len |-> m.size]>>
  <2>1. Held(h) = {}
    BY <1>5, ContentIs
  <2>2. QED
    BY <1>1, <1>2, <1>3, <1>4, <1>5, <2>1
<1>6. ASSUME IsRegular(m), NEW b \in Archive(m) PROVE piece = Contents[n - 1][b]
  <2>1. Held(h) = {b}
    BY <1>6, ContentIs
  <2> HIDE DEF h, a, i
  <2>2. (CHOOSE c \in Held(h) : TRUE) = b
    BY <2>1
  <2>3. QED
    BY <1>3, <1>4, <1>6, <2>1, <2>2
<1>7. QED
  BY <1>3, <1>4, <1>5, <1>6

\* The archive within the member of frame d that is walked in the frame after it.
LEMMA NestedIs ==
  ASSUME IInv, Chain, NEW d \in 1..(Len(stack) - 1), AtEnd(stack[d + 1]), NEW m \in ReadMember(stack[d]),
         NEW piece, piece = Piece(Contents[Left(d) - 1], stack[d].archive, stack[d].members + 1)
  PROVE  /\ piece = stack[d + 1].blocks
         /\ ~NotWalked(m.header) /\ \A h \in Held(m.header) : ~Refused[Left(d) - 1][h]
<1> DEFINE f == stack[d]
           g == stack[d + 1]
           b == g.archive
           n == Left(d)
<1>1. d \in 1..Len(stack) /\ d + 1 \in 1..Len(stack)
  BY DEF IInv
<1>2. Within(f) /\ n \in 1..Levels /\ Passed(f, n) /\ n - 1 = Left(d + 1)
  BY <1>1, FrameFacts
<1>3. Within(g) /\ Left(d + 1) \in 1..Levels /\ Passed(g, Left(d + 1)) /\ AtEnd(g)
  BY <1>1, FrameFacts
<1>4. Opened(f, b)
  BY DEF Chain
<1> HIDE DEF f, g, n
<1>5. g.blocks = Contents[n - 1][b] /\ ~Refused[n - 1][b]
  BY <1>2, <1>3, AtEndExact
<1>6. PICK o \in ReadMember(f) : IsRegular(o) /\ b \in Archive(o)
  BY <1>4 DEF Opened
<1> HIDE DEF b
<1>7. Held(o.header) = {b} /\ ~NotWalked(o.header)
  BY <1>2, <1>6, ContentIs
<1>8. m \in ReadMember(f) /\ piece = Piece(Contents[n - 1], f.archive, f.members + 1)
  BY DEF f, n
<1>9. m.header = o.header
  BY <1>2, <1>6, <1>8, ReadMemberIs
<1>10. piece = Contents[n - 1][b]
  BY <1>2, <1>6, <1>8, PieceIs
<1>11. QED
  BY <1>5, <1>7, <1>9, <1>10 DEF n, g

\* Where a frame is refused, the scan may return an error.
LEMMA ErrorExact ==
  ASSUME IInv, Chain, NEW d \in 1..Len(stack), Refused[Left(d)][stack[d].archive],
         status' = "error", UNCHANGED <<input, stack, result>>
  PROVE  Chain' /\ ScanExact'
<1>1. stack # <<>>
  BY FrameFacts
<1>2. Refused[Levels][stack[1].archive]
  BY Outward
<1>3. \A a \in Whole : Refused[Levels][a]
  BY <1>1, <1>2, WholeIs
<1>4. (status = "ok" => FALSE)' /\ (status = "error" => \A a \in Whole : Refused[Levels][a])'
  <2>1. Whole' = Whole
    BY DEF Whole
  <2>2. QED
    BY <1>3, <2>1
<1>5. ScanExact'
  BY <1>4 DEF ScanExact, Whole, Levels
<1>6. Chain'
  BY DEF Chain
<1>7. QED
  BY <1>5, <1>6

\* Nothing has begun.
LEMMA InitExact == Init => SInv
<1>1. SUFFICES ASSUME Init PROVE SInv
  OBVIOUS
<1>2. status = "running" /\ stack = <<>> /\ result = <<>>
  BY <1>1 DEF Init
<1>3. DOMAIN stack = {} /\ 1..(Len(stack) - 1) = {}
  BY <1>2
<1>4. Chain
  BY <1>2, <1>3 DEF Chain
<1>5. ScanExact
  BY <1>2 DEF ScanExact
<1>6. QED
  BY <1>1, <1>4, <1>5, InitInv DEF SInv

\* The scan opens the archive.
LEMMA OpenExact == ASSUME SInv, Open PROVE Chain' /\ ScanExact'
<1>1. PICK a \in Decompressed(input) :
         IF Length(a) = 0 THEN status' = "ok" /\ UNCHANGED stack
         ELSE stack' = <<Frame(a)>> /\ UNCHANGED status
  BY DEF Open
<1>2. status = "running" /\ stack = <<>> /\ input.gzip /\ UNCHANGED <<input, result>> /\ result = <<>>
  BY DEF Open, SInv, Chain
<1>3. a \in Archives /\ a \in input.tar /\ Length(a) <= MaxBytes
  BY ArchiveTypes DEF Decompressed, SInv, IInv, ContentType
<1>4. Levels \in 1..Levels
  BY TarballConstants DEF Levels
<1> DEFINE f == Frame(a)
<1>5. Within(f) /\ Passed(f, Levels) /\ f \in Frames
  BY <1>3, <1>4, FrameWithin, FramePassed DEF Within
<1>6. f.archive = a /\ f.pos = 0 /\ f.blocks = <<>>
  BY DEF Frame
<1> HIDE DEF f
<1>7. CASE Length(a) = 0
  <2>1. AtEnd(f)
    BY <1>6, <1>7 DEF AtEnd
  <2>2. <<>> = Contents[Levels][a] /\ ~Refused[Levels][a]
    BY <1>4, <1>5, <1>6, <2>1, AtEndExact
  <2>3. status' = "ok" /\ stack' = stack /\ input' = input /\ result' = <<>>
    BY <1>1, <1>2, <1>7
  <2>4. a \in Whole
    BY <1>2, <1>3 DEF Whole
  <2>5. a \in Whole'
    BY <2>3, <2>4 DEF Whole
  <2>6. ScanExact'
    BY <2>2, <2>3, <2>5 DEF ScanExact, Whole, Levels
  <2>7. Chain'
    BY <1>2, <2>3 DEF SInv, Chain
  <2>8. QED
    BY <2>6, <2>7
<1>8. CASE Length(a) # 0
  <2>1. stack' = <<f>> /\ status' = "running" /\ input' = input /\ result' = <<>>
    BY <1>1, <1>2, <1>8 DEF f
  <2>2. Len(stack') = 1 /\ DOMAIN stack' = 1..1 /\ stack'[1] = f
    BY <2>1
  <2>3. Left(1) = Levels
    BY TarballConstants DEF Left, Levels
  <2>4. (\A d \in DOMAIN stack : Passed(stack[d], Left(d)))'
    BY <1>5, <2>2, <2>3
  <2>5. (\A d \in 1..(Len(stack) - 1) : Opened(stack[d], stack[d + 1].archive))'
    BY <2>2
  <2>6. (stack # <<>> => input.gzip /\ stack[1].archive \in input.tar)'
    BY <1>2, <1>3, <1>6, <2>1, <2>2
  <2>7. Chain'
    BY <2>1, <2>4, <2>5, <2>6 DEF Chain
  <2>8. ScanExact'
    BY <2>1 DEF ScanExact
  <2>9. QED
    BY <2>7, <2>8
<1>9. QED
  BY <1>7, <1>8

\* A regular file is kept, and what else has a header is not.
LEMMA RegularExact == ASSUME SInv, RegularFile PROVE Chain' /\ ScanExact'
<1> DEFINE f == Inner
           n == Len(stack)
           kept(m) == <<[offset |-> f.pos, len |-> m.size]>>
<1>1. PICK m \in ReadMember(f) :
         ~AtEnd(f) /\ IsRegular(m) /\ Archive(m) = {} /\ ~Unreadable(m) /\ Continue(stack, m, kept(m))
  BY DEF RegularFile
<1>2. IInv /\ Chain /\ status = "running" /\ stack # <<>> /\ stack \in Seq(Frames)
  BY DEF SInv, RegularFile, Walking, IInv
<1>3. n \in 1..Len(stack) /\ f = stack[n]
  BY <1>2, StackFacts DEF Inner
<1>4. Within(f) /\ Left(n) \in 1..Levels /\ Passed(f, Left(n))
  BY <1>2, <1>3, FrameFacts
<1> HIDE DEF f
<1>5. Held(m.header) = {} /\ ~NotWalked(m.header)
  BY <1>1, <1>4, ContentIs
<1>6. kept(m) = Piece(Contents[Left(n) - 1], f.archive, f.members + 1)
  BY <1>1, <1>4, PieceIs
<1> DEFINE k == kept(m)
<1> HIDE DEF kept
<1>7. k = Piece(Contents[Left(n) - 1], stack[n].archive, stack[n].members + 1) /\ m \in ReadMember(stack[n])
  BY <1>1, <1>3, <1>6
<1>8. Continue(stack, m, k)
  BY <1>1
<1>9. \A d \in 1..n : stack[d] = stack[d]
  OBVIOUS
<1>10. \A h \in Held(m.header) : ~Refused[Left(n) - 1][h]
  BY <1>5
<1> HIDE DEF k
<1>11. QED
  BY <1>2, <1>3, <1>5, <1>7, <1>8, <1>9, <1>10, ContinueChain

LEMMA OtherExact == ASSUME SInv, OtherMember PROVE Chain' /\ ScanExact'
<1> DEFINE f == Inner
           n == Len(stack)
<1>1. PICK m \in ReadMember(f) : ~AtEnd(f) /\ ~IsRegular(m) /\ Continue(stack, m, <<>>)
  BY DEF OtherMember
<1>2. IInv /\ Chain /\ status = "running" /\ stack # <<>> /\ stack \in Seq(Frames)
  BY DEF SInv, OtherMember, Walking, IInv
<1>3. n \in 1..Len(stack) /\ f = stack[n]
  BY <1>2, StackFacts DEF Inner
<1>4. Within(f) /\ Left(n) \in 1..Levels /\ Passed(f, Left(n))
  BY <1>2, <1>3, FrameFacts
<1> HIDE DEF f
<1>5. Held(m.header) = {} /\ ~NotWalked(m.header)
  BY <1>1, <1>4, ContentIs
<1>6. <<>> = Piece(Contents[Left(n) - 1], f.archive, f.members + 1)
  BY <1>1, <1>4, PieceIs
<1>7. <<>> = Piece(Contents[Left(n) - 1], stack[n].archive, stack[n].members + 1) /\ m \in ReadMember(stack[n])
  BY <1>1, <1>3, <1>6
<1>8. Continue(stack, m, <<>>)
  BY <1>1
<1>9. \A d \in 1..n : stack[d] = stack[d]
  OBVIOUS
<1>10. \A h \in Held(m.header) : ~Refused[Left(n) - 1][h]
  BY <1>5
<1>11. QED
  BY <1>2, <1>3, <1>5, <1>7, <1>8, <1>9, <1>10, ContinueChain

\* An archive within a member is walked from its start.
LEMMA NestedExact == ASSUME SInv, NestedArchive PROVE Chain' /\ ScanExact'
<1> DEFINE f == Inner
           n == Len(stack)
<1>1. PICK m \in ReadMember(f) : ~AtEnd(f) /\ IsRegular(m) /\ \E a \in Archive(m) : stack' = Append(stack, Frame(a))
  BY DEF NestedArchive
<1>2. PICK a \in Archive(m) : stack' = Append(stack, Frame(a))
  BY <1>1
<1>3. /\ IInv /\ Chain /\ status = "running" /\ stack # <<>> /\ stack \in Seq(Frames)
      /\ Depth + 1 <= MaxDepth /\ UNCHANGED <<input, status, result>>
  BY DEF SInv, NestedArchive, Walking, IInv, DepthAllowed
<1>4. n \in 1..Len(stack) /\ f = stack[n] /\ n \in Nat /\ DOMAIN stack = 1..n
  BY <1>3, StackFacts DEF Inner
<1>5. Within(f) /\ Left(n) \in 1..Levels /\ Passed(f, Left(n)) /\ MaxDepth \in Nat
  BY <1>3, <1>4, FrameFacts
<1> HIDE DEF f
<1>6. a \in Archives /\ Length(a) <= MaxBytes
  BY <1>1, <1>2, <1>5, ContentIs
<1>7. Left(n + 1) \in 1..Levels
  BY <1>3, <1>4, <1>5 DEF Left, Levels, Depth
<1> DEFINE g == Frame(a)
<1>8. Passed(g, Left(n + 1)) /\ g \in Frames /\ g.archive = a
  BY <1>6, <1>7, FramePassed, FrameWithin DEF Within, Frame
<1>9. stack' = Append(stack, g)
  BY <1>2
<1> HIDE DEF g
<1>10. /\ Len(stack') = n + 1 /\ DOMAIN stack' = 1..(n + 1)
       /\ stack'[n + 1] = g /\ \A d \in 1..n : stack'[d] = stack[d]
  <2> HIDE DEF n
  <2>1. Len(stack) = n
    BY DEF n
  <2>2. QED
    BY <1>3, <1>8, <1>9, <2>1, Appended
<1> HIDE DEF n
<1>11. ASSUME NEW d \in 1..(n + 1) PROVE d \in 1..n \/ d = n + 1
  BY <1>4
<1>12. (\A d \in DOMAIN stack : Passed(stack[d], Left(d)))'
  <2>1. \A d \in 1..n : Passed(stack[d], Left(d))
    BY <1>3, <1>4 DEF Chain
  <2>2. \A d \in 1..(n + 1) : Passed(stack'[d], Left(d))
    BY <1>8, <1>10, <1>11, <2>1
  <2>3. QED
    BY <1>10, <2>2
<1>13. (\A d \in 1..(Len(stack) - 1) : Opened(stack[d], stack[d + 1].archive))'
  <2>1. ASSUME NEW d \in 1..n PROVE Opened(stack'[d], stack'[d + 1].archive)
    <3>1. CASE d = n
      <4>1. Opened(f, a)
        BY <1>1, <1>2 DEF Opened
      <4>2. QED
        BY <1>4, <1>8, <1>10, <3>1, <4>1
    <3>2. CASE d # n
      <4>1. d \in 1..(Len(stack) - 1) /\ d + 1 \in 1..n
        <5>1. Len(stack) = n /\ n \in Nat
          BY <1>4 DEF n
        <5>2. d \in Int /\ 1 <= d /\ d <= n
          BY <5>1
        <5>3. QED
          BY <3>2, <5>1, <5>2
      <4>2. Opened(stack[d], stack[d + 1].archive)
        BY <1>3, <4>1 DEF Chain
      <4>3. QED
        BY <1>10, <2>1, <4>1, <4>2
    <3>3. QED
      BY <3>1, <3>2
  <2>2. (n + 1) - 1 = n
    BY <1>4
  <2>3. QED
    BY <1>10, <2>1, <2>2
<1>14. (stack # <<>> => input.gzip /\ stack[1].archive \in input.tar)'
  <2>1. input.gzip /\ stack[1].archive \in input.tar
    BY <1>3 DEF Chain
  <2>2. 1 \in 1..n
    BY <1>4
  <2>3. QED
    BY <1>3, <1>10, <2>1, <2>2
<1>15. status' = "running" /\ result' = <<>>
  BY <1>3 DEF Chain
<1>16. Chain'
  BY <1>12, <1>13, <1>14, <1>15 DEF Chain
<1>17. ScanExact'
  BY <1>15 DEF ScanExact
<1>18. QED
  BY <1>16, <1>17

\* Behind the archive of a member the walk around it has kept what it holds.
LEMMA EndNestedExact == ASSUME SInv, EndOfNested PROVE Chain' /\ ScanExact'
<1> DEFINE n == Depth
           frames == Front(stack)
           kept == Inner.blocks
<1>1. PICK m \in ReadMember(stack[n]) : Continue(frames, m, kept)
  BY DEF EndOfNested
<1>2. IInv /\ Chain /\ status = "running" /\ stack # <<>> /\ stack \in Seq(Frames) /\ n > 0 /\ AtEnd(Inner)
  BY DEF SInv, EndOfNested, Walking, IInv
<1>3. n \in 1..(Len(stack) - 1) /\ n \in 1..Len(stack) /\ n + 1 = Len(stack) /\ stack[n + 1] = Inner
  BY <1>2, StackFacts DEF Inner, Depth
<1>4. frames \in Seq(Frames) /\ Len(frames) = n /\ \A d \in 1..n : frames[d] = stack[d]
  BY <1>2, StackFacts DEF Front, Depth
<1> DEFINE piece == Piece(Contents[Left(n) - 1], stack[n].archive, stack[n].members + 1)
<1> HIDE DEF n, frames
<1>5. piece = kept /\ ~NotWalked(m.header) /\ \A h \in Held(m.header) : ~Refused[Left(n) - 1][h]
  <2>1. AtEnd(stack[n + 1])
    BY <1>2, <1>3
  <2>2. QED
    BY <1>1, <1>2, <1>3, <2>1, NestedIs
<1>6. kept = Piece(Contents[Left(n) - 1], stack[n].archive, stack[n].members + 1)
  BY <1>5
<1> HIDE DEF kept, piece
<1>7. QED
  BY <1>1, <1>2, <1>3, <1>4, <1>5, <1>6, ContinueChain

\* At the end of the outermost archive its contents are returned.
LEMMA EndExact == ASSUME SInv, EndOfArchive PROVE Chain' /\ ScanExact'
<1>1. /\ IInv /\ Chain /\ stack # <<>> /\ Depth = 0 /\ AtEnd(Inner)
      /\ status' = "ok" /\ result' = Inner.blocks /\ UNCHANGED <<input, stack>>
  BY DEF SInv, EndOfArchive, Walking
<1>2. Inner = stack[1] /\ Whole = {stack[1].archive} /\ 1 \in 1..Len(stack)
  BY <1>1, StackFacts, WholeIs DEF Inner, Depth
<1>3. Within(stack[1]) /\ Levels \in 1..Levels /\ Passed(stack[1], Levels)
  BY <1>1, <1>2, FrameFacts
<1> DEFINE a == stack[1].archive
<1>4. result' = Contents[Levels][a] /\ ~Refused[Levels][a]
  <2>1. AtEnd(stack[1])
    BY <1>1, <1>2
  <2>2. QED
    BY <1>1, <1>2, <1>3, <2>1, AtEndExact
<1>5. a \in Whole'
  BY <1>1, <1>2 DEF Whole
<1> HIDE DEF a
<1>6. ScanExact'
  BY <1>1, <1>4, <1>5 DEF ScanExact, Whole, Levels
<1>7. Chain'
  BY <1>1 DEF Chain
<1>8. QED
  BY <1>6, <1>7

\* An error is returned only where something in the archive is refused.
LEMMA RefuseExact == ASSUME SInv, Refuse PROVE Chain' /\ ScanExact'
<1> DEFINE n == Len(stack)
           regular(m) == <<[offset |-> Inner.pos, len |-> m.size]>>
<1>1. IInv /\ Chain /\ status' = "error" /\ UNCHANGED <<input, stack, result>>
  BY DEF SInv, Refuse
<1>2. CASE stack = <<>> /\ (~input.gzip \/ Decompressed(input) = {})
  <2>1. Whole = {}
    BY <1>2 DEF Whole, Decompressed
  <2>2. Whole' = {}
    BY <1>1, <2>1 DEF Whole
  <2>3. ScanExact'
    BY <1>1, <2>2 DEF ScanExact, Whole, Levels
  <2>4. Chain'
    BY <1>1, <1>2 DEF Chain
  <2>5. QED
    BY <2>3, <2>4
<1>3. ASSUME stack # <<>>
      PROVE  /\ n \in 1..Len(stack) /\ Inner = stack[n] /\ Within(Inner) /\ Passed(Inner, Left(n))
             /\ Left(n) \in 1..Levels /\ n \in Nat
  <2>1. n \in 1..Len(stack) /\ Inner = stack[n] /\ n \in Nat
    BY <1>1, <1>3, StackFacts DEF Inner
  <2>2. QED
    BY <1>1, <2>1, FrameFacts
<1>4. ASSUME Walking, ~AtEnd(Inner),
             \A m \in ReadMember(Inner) :
                /\ IsRegular(m)
                /\ Unreadable(m) \/ (Archive(m) # {} /\ ~DepthAllowed) \/ (Archive(m) = {} /\ Exceeds(Inner, regular(m)))
      PROVE  Chain' /\ ScanExact'
  <2> DEFINE f == Inner
  <2>1. stack # <<>>
    BY <1>4 DEF Walking
  <2>2. n \in 1..Len(stack) /\ f = stack[n] /\ Within(f) /\ Passed(f, Left(n)) /\ Left(n) \in 1..Levels
    BY <1>3, <2>1
  <2>3. Refused[Left(n)][f.archive]
    <3>1. CASE ReadMember(f) = {}
      BY <1>4, <2>2, <3>1, UnreadRefused
    <3>2. CASE ReadMember(f) # {}
      <4>1. PICK m \in ReadMember(f) :
               /\ IsRegular(m)
               /\ Unreadable(m) \/ (Archive(m) # {} /\ ~DepthAllowed) \/ (Archive(m) = {} /\ Exceeds(f, regular(m)))
        BY <1>4, <3>2
      <4> DEFINE piece == Piece(Contents[Left(n) - 1], f.archive, f.members + 1)
                 k == regular(m)
      <4>2. \/ NotWalked(m.header)
            \/ \E h \in Held(m.header) : Refused[Left(n) - 1][h]
            \/ Exceeds(f, piece)
        <5>1. CASE Unreadable(m)
          BY <2>2, <4>1, <5>1, ContentIs
        <5>2. CASE Archive(m) # {} /\ ~DepthAllowed
          <6>1. PICK h \in Archive(m) : h \in Archives /\ Held(m.header) = {h}
            BY <2>2, <4>1, <5>2, ContentIs
          <6>2. Left(n) - 1 = 0
            BY <1>1, <2>1, <2>2, <5>2, StackFacts, TarballConstants DEF DepthAllowed, Depth, Left, Levels
          <6>3. Refused[Left(n) - 1][h]
            BY <6>1, <6>2, RefusedAre
          <6>4. QED
            BY <6>1, <6>3
        <5>3. CASE ~Unreadable(m) /\ Archive(m) = {} /\ Exceeds(f, k)
          <6>1. piece = k
            BY <2>2, <4>1, <5>3, PieceIs
          <6>2. QED
            BY <5>3, <6>1
        <5>4. QED
          BY <4>1, <5>1, <5>2, <5>3
      <4>3. piece = Piece(Contents[Left(n) - 1], f.archive, f.members + 1)
        OBVIOUS
      <4> HIDE DEF f, n, piece, regular
      <4>4. QED
        BY <2>2, <4>1, <4>2, <4>3, MemberRefused
    <3>3. QED
      BY <3>1, <3>2
  <2>4. Refused[Left(n)][stack[n].archive]
    BY <2>2, <2>3
  <2> HIDE DEF n
  <2>5. QED
    BY <1>1, <2>2, <2>4, ErrorExact
<1>5. ASSUME Walking, AtEnd(Inner), Depth > 0, Exceeds(stack[Depth], Inner.blocks)
      PROVE  Chain' /\ ScanExact'
  <2> DEFINE d == Depth
             f == stack[d]
             piece == Piece(Contents[Left(d) - 1], f.archive, f.members + 1)
  <2>1. stack # <<>>
    BY <1>5 DEF Walking
  <2>2. d \in 1..(Len(stack) - 1) /\ d \in 1..Len(stack) /\ d + 1 = Len(stack) /\ stack[d + 1] = Inner
    BY <1>1, <1>5, <2>1, StackFacts DEF Inner, Depth
  <2>3. Within(f) /\ Left(d) \in 1..Levels /\ Passed(f, Left(d))
    BY <1>1, <2>2, FrameFacts
  <2>4. AtEnd(stack[d + 1])
    BY <1>5, <2>2
  <2>5. Opened(f, stack[d + 1].archive)
    BY <1>1, <2>2 DEF Chain
  <2>6. PICK m \in ReadMember(f) : TRUE
    BY <2>5 DEF Opened
  <2> HIDE DEF d
  <2>7. piece = stack[d + 1].blocks
    BY <1>1, <2>2, <2>4, <2>6, NestedIs
  <2>8. Exceeds(f, piece)
    BY <1>5, <2>2, <2>7 DEF d
  <2>9. piece = Piece(Contents[Left(d) - 1], f.archive, f.members + 1)
    OBVIOUS
  <2>10. Refused[Left(d)][f.archive]
    <3> HIDE DEF f, piece
    <3>1. QED
      BY <2>3, <2>6, <2>8, <2>9, MemberRefused
  <2>11. QED
    BY <1>1, <2>2, <2>10, ErrorExact
<1>6. \/ stack = <<>> /\ (~input.gzip \/ Decompressed(input) = {})
      \/ /\ Walking /\ ~AtEnd(Inner)
         /\ \A m \in ReadMember(Inner) :
               /\ IsRegular(m)
               /\ Unreadable(m) \/ (Archive(m) # {} /\ ~DepthAllowed) \/ (Archive(m) = {} /\ Exceeds(Inner, regular(m)))
      \/ Walking /\ AtEnd(Inner) /\ Depth > 0 /\ Exceeds(stack[Depth], Inner.blocks)
  BY DEF Refuse
<1> HIDE DEF regular, n
<1>7. QED
  BY <1>2, <1>4, <1>5, <1>6

\* Each pass keeps what is passed as it should be.
LEMMA StepExact == SInv /\ [Next]_vars => SInv'
<1>1. SUFFICES ASSUME SInv, [Next]_vars PROVE SInv'
  OBVIOUS
<1>2. IInv'
  BY <1>1, StepInv DEF SInv
<1>3. SUFFICES Chain' /\ ScanExact'
  BY <1>2 DEF SInv
<1>4. CASE UNCHANGED vars
  <2>1. UNCHANGED <<input, status, stack, result>>
    BY <1>4 DEF vars
  <2>2. Chain'
    BY <1>1, <2>1 DEF SInv, Chain
  <2>3. ScanExact'
    BY <1>1, <2>1 DEF SInv, ScanExact
  <2>4. QED
    BY <2>2, <2>3
<1>5. CASE Open
  BY <1>1, <1>5, OpenExact
<1>6. CASE RegularFile
  BY <1>1, <1>6, RegularExact
<1>7. CASE NestedArchive
  BY <1>1, <1>7, NestedExact
<1>8. CASE OtherMember
  BY <1>1, <1>8, OtherExact
<1>9. CASE EndOfNested
  BY <1>1, <1>9, EndNestedExact
<1>10. CASE EndOfArchive
  BY <1>1, <1>10, EndExact
<1>11. CASE Refuse
  BY <1>1, <1>11, RefuseExact
<1>12. QED
  BY <1>1, <1>4, <1>5, <1>6, <1>7, <1>8, <1>9, <1>10, <1>11 DEF Next, Returned

-----------------------------------------------------------------------------
(* Theorems.                                                               *)

\* The invariant holds of every scan.
THEOREM Invariance == Spec => []IInv
BY InitInv, StepInv, PTL DEF Spec

\* Every walk stands at a whole block of its archive, and keeps typed blocks
\* (scan_decompressed_tar_gz_archive).
THEOREM TypeCorrect == Spec => []TypeOK
<1>1. IInv => TypeOK
  <2>1. SUFFICES ASSUME IInv PROVE TypeOK
    OBVIOUS
  <2>2. \A d \in DOMAIN stack : stack[d] \in Frames /\ stack[d].pos % BlockSize = 0
    BY <2>1 DEF IInv, Within
  <2>3. QED
    BY <2>1, <2>2 DEF IInv, TypeOK, Frames
<1>2. QED
  BY Invariance, <1>1, PTL

\* However archives lie in one another, the depth, the members of each and the
\* literals of each, those of the archives within it counted, stay within the
\* limits MAX_NESTED_DEPTH, MAX_TAR_MEMBERS and MAX_TARBALL_BYTES.
THEOREM LimitsHeldCorrect == Spec => []LimitsHeld
<1>1. IInv => LimitsHeld
  BY DEF IInv, LimitsHeld, Within
<1>2. QED
  BY Invariance, <1>1, PTL

\* The walk of every archive that is open is as it should be.
THEOREM ExactInvariance == Spec => []SInv
BY InitExact, StepExact, PTL DEF Spec

\* Of every archive, cut anywhere, the scan returns the contents of the regular
\* files, those of the archives within it where they stand, or an error, which it
\* returns when and only when the archive is cut short, has too many members, has
\* one that cannot be walked, is nested too deep or holds too many literals
\* (scan_tarball_literals and all it calls).
THEOREM ScanExactCorrect == Spec => []ScanExact
<1>1. SInv => ScanExact
  BY DEF SInv
<1>2. QED
  BY ExactInvariance, <1>1, PTL

=============================================================================
