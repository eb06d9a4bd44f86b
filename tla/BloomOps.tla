------------------------------ MODULE BloomOps ------------------------------
(***************************************************************************)
(* The Bloom filter of src/src/bloom as a value and the operations on it.  *)
(*                                                                         *)
(* A filter is a record: "bits" is the set of indices of the bits that are *)
(* one, "len" the length of the backing BitVec, "num_bits" the modulus the *)
(* hashes are reduced by (a field of its own in the code, which only the   *)
(* constructors tie to the length of the vector), "num_hashes" the number  *)
(* of probes.  Items are opaque: an item is what its two hashes are.       *)
(***************************************************************************)
EXTENDS Integers

CONSTANTS
    Items,            \* the byte slices a client inserts or asks for
    Hash1(_),         \* hash_fnv1a of an item, the hash of an external crate
    Hash2(_),         \* hash_fnv1a_alt of an item
    HashModulus,      \* 2^64: the arithmetic of nth_hash wraps there
    MaxBloomBits,     \* MAX_BLOOM_BITS
    MinAutoBits,      \* the least vector BloomFilter::new allocates: 64
    MaxHashes,        \* the greatest number of probes: 32
    MaxRate,          \* the greatest rate, in 1/10000: 9999
    NaN,              \* the rate that is not a number
    BitsPerItem       \* -ln(p)/ln(2)^2 in thousandths, p in 1/10000

ASSUME BloomConstants ==
    /\ HashModulus \in Nat \ {0}
    /\ MaxBloomBits \in Nat \ {0}
    /\ MinAutoBits \in 1..MaxBloomBits
    /\ MaxHashes \in Nat \ {0}
    /\ MaxRate \in Nat /\ MaxRate >= 100

ASSUME HashesInRange ==
    \A x \in Items : /\ Hash1(x) \in 0..(HashModulus - 1)
                     /\ Hash2(x) \in 0..(HashModulus - 1)

ASSUME BitsPerItemInRange == BitsPerItem \in [1..MaxRate -> Nat]

-----------------------------------------------------------------------------
\* Options, written as sets of at most one element.

None == {}
Some(v) == {v}
UnwrapOr(opt, default) == IF opt = None THEN default ELSE CHOOSE v \in opt : TRUE

Larger(a, b) == IF a >= b THEN a ELSE b
Clamp(v, lo, hi) == IF v < lo THEN lo ELSE IF v > hi THEN hi ELSE v

-----------------------------------------------------------------------------
\* Probes.

NthHash(h1, h2, n, m) == ((h1 + n * h2) % HashModulus) % m

Probes(x, k, m) == {NthHash(Hash1(x), Hash2(x), n, m) : n \in 0..(k - 1)}

-----------------------------------------------------------------------------
\* Construction.

EmptyFilter(m, k) == [bits |-> {}, len |-> m, num_hashes |-> k, num_bits |-> m]

\* Mutant: a hash count of zero or of a thousand is taken as it is.
WithParamsUnclamped(bits, hashes) == EmptyFilter(bits, hashes)

WithParams(bits, hashes) ==
    EmptyFilter(Clamp(bits, 1, MaxBloomBits), Clamp(hashes, 1, MaxHashes))

\* m = ceil(-n ln(p) / ln(2)^2), k = round(m/n ln(2)), in thousandths.
NewFilter(expected_items, rate) ==
    LET n == Larger(expected_items, 1)
        p == IF rate = NaN THEN 100 ELSE Clamp(rate, 1, MaxRate)
        m == Clamp((n * BitsPerItem[p] + 999) \div 1000, MinAutoBits, MaxBloomBits)
        k == Clamp((2 * 693 * m + 1000 * n) \div (2000 * n), 1, MaxHashes)
    IN  EmptyFilter(m, k)

\* BloomFilterBuilder::build: explicit sizes only when both were given.
Build(opts) ==
    IF opts.num_bits # None /\ opts.num_hashes # None
    THEN WithParams(UnwrapOr(opts.num_bits, 1), UnwrapOr(opts.num_hashes, 1))
    ELSE NewFilter(UnwrapOr(opts.expected_items, 1000), UnwrapOr(opts.rate, 100))

\* Mutant: the modulus is one more than the vector is long.
FromBitsOffByOne(bits, len, hashes) ==
    [bits |-> bits, len |-> len, num_hashes |-> Clamp(hashes, 1, MaxHashes), num_bits |-> len + 1]

\* BloomFilter::from_bits, on a vector of len > 0 bits (the caller is told of
\* an empty one by an error).
FromBits(bits, len, hashes) ==
    [bits |-> bits, len |-> len, num_hashes |-> Clamp(hashes, 1, MaxHashes), num_bits |-> len]

-----------------------------------------------------------------------------
\* Use.

\* Mutant: an insert sets every probe but the last.
InsertAllButLastProbe(f, x) ==
    [f EXCEPT !.bits = @ \cup Probes(x, f.num_hashes - 1, f.num_bits)]

InsertItem(f, x) == [f EXCEPT !.bits = @ \cup Probes(x, f.num_hashes, f.num_bits)]

MayContain(f, x) == Probes(x, f.num_hashes, f.num_bits) \subseteq f.bits

\* Mutant: the vector grows but its words are not zeroed.
ClearOnlyGrows(f) == [f EXCEPT !.len = @ + f.num_bits]

\* BitVec::clear (external) zeroes every word and keeps the length; grow then
\* appends num_bits zeroes to it.
ClearFilter(f) ==
    [bits |-> {}, len |-> f.len + f.num_bits, num_hashes |-> f.num_hashes, num_bits |-> f.num_bits]

-----------------------------------------------------------------------------
\* What a filter is, whatever was done to it.

Filters == [bits : SUBSET Nat, len : Nat, num_hashes : Nat, num_bits : Nat]

FilterOK(f) ==
    /\ f \in Filters
    /\ 0 < f.num_bits /\ f.num_bits <= f.len
    /\ f.num_hashes \in 1..MaxHashes
    /\ f.bits \subseteq 0..(f.num_bits - 1)

=============================================================================
