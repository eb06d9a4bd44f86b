------------------------------ MODULE MCBloom -------------------------------
(***************************************************************************)
(* BloomFilter for TLC: three items whose probes collide, 16-value hashes  *)
(* instead of 64-bit ones, and vectors of 1 to 8 bits.                    *)
(***************************************************************************)
EXTENDS BloomFilter, TLC

CONSTANTS a, b, c

MCHash1(x) == (a :> 3 @@ b :> 14 @@ c :> 9)[x]
MCHash2(x) == (a :> 5 @@ b :> 7 @@ c :> 12)[x]

\* Thousandths of a bit per item: 9585 for 1%, 0 for 99.99%, 19171 for 0.01%.
MCBitsPerItem ==
    [p \in 1..MaxRate |-> IF p >= 9999 THEN 0 ELSE IF p >= 100 THEN 9585 ELSE 19171]

MCNaN == -1

Opts(bits, hashes, items, rate) ==
    [num_bits |-> bits, num_hashes |-> hashes, expected_items |-> items, rate |-> rate]

MCBuildOptions ==
    { Opts(Some(4), Some(2), None, None),
      Opts(Some(0), Some(0), None, None),         \* clamped to one bit, one probe
      Opts(Some(99), Some(99), None, None),       \* clamped to the greatest of both
      Opts(Some(5), None, Some(1), Some(100)),    \* one explicit size alone is ignored
      Opts(None, None, Some(0), Some(-7)),        \* rate clamped from below
      Opts(None, None, Some(3), Some(MCNaN)) }       \* NaN

MCReloadHashes == {2, 3}

=============================================================================
