------------------------------ MODULE MCIndex -------------------------------
(***************************************************************************)
(* LiteralIndex for TLC: bytes 0 and 1, blocks of up to six literals, every*)
(* pattern of up to five bytes (a window and a half), two blocks at most.  *)
(***************************************************************************)
EXTENDS LiteralIndex, TLC

MCItems == UNION {[1..n -> {0, 1}] : n \in 0..4}

\* A binary numeral with a leading one tells all strings apart.
Numeral(x) ==
    LET at(i) == IF i <= Len(x) THEN x[i] + 1 ELSE 0
    IN  at(1) + 3 * at(2) + 9 * at(3) + 27 * at(4) + 81 * at(5)

MCHash1(x) == (Numeral(x) * 37 + 11) % 64
MCHash2(x) == (Numeral(x) * 23 + 5) % 64

MCNaN == -1
MCBitsPerItem == [p \in 1..9999 |-> IF p >= 9999 THEN 0 ELSE IF p >= 100 THEN 9585 ELSE 19171]

MCChunkLiterals ==
    { <<>>,
      << <<>> >>,
      << <<0, 1, 1, 0, 1, 0>> >>,
      << <<1, 1, 1>>, <<0, 0, 1, 1, 1>> >> }

MCPatterns == UNION {[1..n -> {0, 1}] : n \in 0..5}
=============================================================================
