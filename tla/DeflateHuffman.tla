--------------------------- MODULE DeflateHuffman ---------------------------
(***************************************************************************)
(* gzip::bitstream::HuffmanDecoder: a tree built from code lengths.  A     *)
(* tree is what its symbols' paths make it: codes are [path, symbol], the  *)
(* path a sequence of bits from the root.  lengths[s + 1] belongs to s.    *)
(***************************************************************************)
EXTENDS BitReader, FiniteSets, FiniteSetsExt

Used(lengths) == {s \in 0..(Len(lengths) - 1) : lengths[s + 1] > 0}

OfLength(lengths, b) == {s \in Used(lengths) : lengths[s + 1] = b}

LongestCode(lengths) == Max({0} \cup {lengths[i] : i \in DOMAIN lengths})

\* calculate_next_codes.  Only the low bits of a code are used, so that the
\* width of u16 matters to nothing but the overflow check of a debug build.
NextCodes(lengths) ==
    LET next_code[b \in 0..LongestCode(lengths)] ==
            IF b = 0 THEN 0
            ELSE 2 * (next_code[b - 1] + Cardinality(OfLength(lengths, b - 1)))
    IN  next_code

\* Mutant: codes of one length are handed out from the last symbol down.
PathFromLast(lengths, s) ==
    LET len  == lengths[s + 1]
        code == NextCodes(lengths)[len] + Cardinality({t \in OfLength(lengths, len) : t > s})
    IN  [k \in 1..len |-> (code \div 2^(len - k)) % 2]

\* The path insert follows for a symbol: its code, whose bits reverse_bits
\* turned round, from the highest down.
Path(lengths, s) ==
    LET len  == lengths[s + 1]
        code == NextCodes(lengths)[len] + Cardinality({t \in OfLength(lengths, len) : t < s})
    IN  [k \in 1..len |-> (code \div 2^(len - k)) % 2]

\* from_lengths: refused when two symbols meet in one node.  A path that runs
\* through another symbol's node is taken.
FromLengths(lengths) ==
    LET codes == {[path |-> Path(lengths, s), symbol |-> s] : s \in Used(lengths)}
    IN  OnlyIf(Cardinality({c.path : c \in codes}) = Cardinality(codes),
               [max_bits |-> LongestCode(lengths), codes |-> codes])

\* decode: down the tree, a bit at a time, to the first symbol.
Decode(d, tree, r) ==
    LET found(n) == Then(ReadEachBit(d, r, n), LAMBDA a :
                    {[reader |-> a.reader, symbol |-> c.symbol] :
                        c \in {c \in tree.codes : c.path = a.bits}})
    IN  UNION {found(n) : n \in {n \in 1..tree.max_bits : \A k \in 1..(n - 1) : found(k) = {}}}

=============================================================================
