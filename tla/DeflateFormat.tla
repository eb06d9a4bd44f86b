---------------------------- MODULE DeflateFormat ---------------------------
(***************************************************************************)
(* The DEFLATE format, as an encoder writes it, independent of the parser. *)
(*                                                                         *)
(* A block is [kind |-> "stored", bytes], [kind |-> "fixed", tokens] or    *)
(* [kind |-> "dynamic", tokens, hlit, hdist, codelens, hclen, runs]: the   *)
(* runs give the code lengths, coded by the code-length code "codelens".   *)
(* A token is [lit] or [match, extra, dist, dextra].  The alphabets are    *)
(* parameters: NumLiterals literals, the end of the block, the matches.    *)
(***************************************************************************)
EXTENDS Integers, Sequences, SequencesExt, FiniteSets, FiniteSetsExt, Folds, Functions

CONSTANTS
    NumLiterals,      \* 256
    LengthExtra,      \* LITERAL_LENGTH_EXTRA_BITS
    DistanceExtra,    \* DISTANCE_EXTRA_BITS
    FixedLiterals,    \* FIXED_LITLEN_CODE_LENGTHS
    FixedDistances,   \* FIXED_DIST_CODE_LENGTHS
    MaxCodeBits,      \* DEFLATE_MAX_BITS: 15
    CodeLenBits,      \* the width of a code-length code's length: 3
    HclenOrder,       \* HCLEN_ORDER
    SizeBits,         \* the widths of HLIT, HDIST and HCLEN: <<5, 5, 4>>
    MinHclen,         \* 4
    Repeat            \* what 16, 17 and 18 stand for: [base, bits] each

ASSUME FormatConstants ==
    /\ NumLiterals \in Nat \ {0} /\ MaxCodeBits \in Nat \ {0}
    /\ CodeLenBits \in Nat \ {0} /\ MinHclen \in Nat \ {0}
    /\ 2^CodeLenBits - 1 <= MaxCodeBits
    /\ HclenOrder \in Seq(0..(MaxCodeBits + 3)) /\ Len(HclenOrder) = MaxCodeBits + 4
    /\ ToSet(HclenOrder) = 0..(MaxCodeBits + 3)
    /\ DOMAIN Repeat = 1..3 /\ DOMAIN SizeBits = 1..3

EndOfBlock == NumLiterals

\* n in w bits, the lowest first.
LowFirst(n, w) == [k \in 1..w |-> (n \div 2^(k - 1)) % 2]

\* The part of the line that belongs to each symbol: 2^-length of it.
Parts(lengths) ==
    [s \in 0..(Len(lengths) - 1) |-> IF lengths[s + 1] = 0 THEN 0 ELSE 2^(MaxCodeBits - lengths[s + 1])]

\* A set of lengths of a code: no more than the line is given away.
IsCode(lengths) == lengths \in Seq(0..MaxCodeBits) /\ SumFunction(Parts(lengths)) <= 2^MaxCodeBits

\* The symbols of which the parts lie before: by length and then by symbol.
Earlier(lengths, s) ==
    {t \in DOMAIN Parts(lengths) :
        /\ lengths[t + 1] > 0
        /\ lengths[t + 1] < lengths[s + 1] \/ (lengths[t + 1] = lengths[s + 1] /\ t < s)}

\* The canonical prefix code: the bits of where a symbol's part begins.
Code(lengths, s) ==
    LET begin == SumFunctionOnSet(Parts(lengths), Earlier(lengths, s))
    IN  Reverse(LowFirst(begin \div Parts(lengths)[s], lengths[s + 1]))

EncodeToken(t, literals, distances) ==
    IF "lit" \in DOMAIN t THEN Code(literals, t.lit)
    ELSE Code(literals, EndOfBlock + 1 + t.match) \o LowFirst(t.extra, LengthExtra[t.match + 1])
         \o Code(distances, t.dist) \o LowFirst(t.dextra, DistanceExtra[t.dist + 1])

EncodeTokens(tokens, literals, distances) ==
    FlattenSeq([i \in DOMAIN tokens |-> EncodeToken(tokens[i], literals, distances)])
    \o Code(literals, EndOfBlock)

\* What a run [symbol, extra] adds to the lengths before it.
RunLengths(before, run) ==
    IF run.symbol <= MaxCodeBits THEN <<run.symbol>>
    ELSE LET kind == run.symbol - MaxCodeBits
         IN  [k \in 1..(Repeat[kind].base + run.extra) |-> IF kind = 1 THEN Last(before) ELSE 0]

\* "Copy the previous code length": the one before, whoever wrote it.
Expand(runs) ==
    LET upto[n \in 0..Len(runs)] ==
            IF n = 0 THEN <<>> ELSE upto[n - 1] \o RunLengths(upto[n - 1], runs[n])
    IN  upto[Len(runs)]

EncodeRun(run, codelens) ==
    Code(codelens, run.symbol) \o
    IF run.symbol <= MaxCodeBits THEN <<>> ELSE LowFirst(run.extra, Repeat[run.symbol - MaxCodeBits].bits)

Literals(b) == SubSeq(Expand(b.runs), 1, b.hlit)
Distances(b) == SubSeq(Expand(b.runs), b.hlit + 1, b.hlit + b.hdist)

EncodeSizes(b) ==
    LowFirst(b.hlit - NumLiterals - 1, SizeBits[1]) \o LowFirst(b.hdist - 1, SizeBits[2])
    \o LowFirst(b.hclen - MinHclen, SizeBits[3])
    \o FlattenSeq([i \in 1..b.hclen |-> LowFirst(b.codelens[HclenOrder[i] + 1], CodeLenBits)])

\* The bits of a block that begins at bit "at".
EncodeBlock(b, at, final) ==
    LET header(type) == <<IF final THEN 1 ELSE 0>> \o LowFirst(type, 2)
    IN  CASE b.kind = "stored" ->
               header(0) \o [k \in 1..((8 - ((at + 3) % 8)) % 8) |-> 0]
               \o LowFirst(Len(b.bytes), 16) \o LowFirst(2^16 - 1 - Len(b.bytes), 16)
               \o FlattenSeq([k \in DOMAIN b.bytes |-> LowFirst(b.bytes[k], 8)])
          [] b.kind = "fixed" -> header(1) \o EncodeTokens(b.tokens, FixedLiterals, FixedDistances)
          [] b.kind = "dynamic" ->
               header(2) \o EncodeSizes(b)
               \o FlattenSeq([i \in DOMAIN b.runs |-> EncodeRun(b.runs[i], b.codelens)])
               \o EncodeTokens(b.tokens, Literals(b), Distances(b))

\* The literal bytes of a block.
LiteralBytes(b) ==
    IF b.kind = "stored" THEN b.bytes
    ELSE FlattenSeq([i \in DOMAIN b.tokens |->
            IF "lit" \in DOMAIN b.tokens[i] THEN <<b.tokens[i].lit>> ELSE <<>>])

\* The blocks one behind the other: their bits and the extent of each.
EncodeBlocks(blocks) ==
    LET upto[n \in 0..Len(blocks)] ==
            IF n = 0 THEN [bits |-> <<>>, extents |-> <<>>]
            ELSE LET so   == upto[n - 1]
                     bits == so.bits \o EncodeBlock(blocks[n], Len(so.bits), n = Len(blocks))
                 IN  [bits |-> bits,
                      extents |-> Append(so.extents, [start |-> Len(so.bits), end |-> Len(bits),
                                                      literals |-> LiteralBytes(blocks[n])])]
    IN  upto[Len(blocks)]

\* A member behind its header: the blocks and, from the next byte on, the
\* trailer, of two numbers given by their halves.
Member(blocks, crc, isize) ==
    LET encoded == EncodeBlocks(blocks)
        pad     == [k \in 1..((8 - (Len(encoded.bits) % 8)) % 8) |-> 0]
    IN  [blocks |-> blocks, crc |-> crc, isize |-> isize, extents |-> encoded.extents,
         bits |-> encoded.bits \o pad \o LowFirst(crc[1], 16) \o LowFirst(crc[2], 16)
                  \o LowFirst(isize[1], 16) \o LowFirst(isize[2], 16)]

-----------------------------------------------------------------------------
(* What may be encoded.                                                    *)

HasCode(lengths, s) == s + 1 \in DOMAIN lengths /\ lengths[s + 1] > 0

IsToken(t, literals, distances) ==
    IF "lit" \in DOMAIN t THEN DOMAIN t = {"lit"} /\ t.lit \in 0..(NumLiterals - 1) /\ HasCode(literals, t.lit)
    ELSE /\ DOMAIN t = {"match", "extra", "dist", "dextra"}
         /\ t.match \in 0..(Len(LengthExtra) - 1) /\ HasCode(literals, EndOfBlock + 1 + t.match)
         /\ t.extra \in 0..(2^LengthExtra[t.match + 1] - 1)
         /\ t.dist \in 0..(Len(DistanceExtra) - 1) /\ HasCode(distances, t.dist)
         /\ t.dextra \in 0..(2^DistanceExtra[t.dist + 1] - 1)

AreTokens(tokens, literals, distances) ==
    /\ IsCode(literals) /\ IsCode(distances) /\ HasCode(literals, EndOfBlock)
    /\ tokens = [i \in 1..Len(tokens) |-> tokens[i]] /\ Len(tokens) \in Nat
    /\ \A i \in DOMAIN tokens : IsToken(tokens[i], literals, distances)

IsRun(run, codelens) ==
    /\ run.symbol \in 0..(MaxCodeBits + 3) /\ HasCode(codelens, run.symbol)
    /\ run.symbol > MaxCodeBits => run.extra \in 0..(2^Repeat[run.symbol - MaxCodeBits].bits - 1)

\* The first length is no repetition.
AreRuns(runs, codelens) ==
    /\ runs = [i \in 1..Len(runs) |-> runs[i]] /\ Len(runs) \in Nat
    /\ \A i \in DOMAIN runs : IsRun(runs[i], codelens)
    /\ runs # <<>> => runs[1].symbol # MaxCodeBits + 1

\* Lengths that are not sent are none.
AreTrees(b) ==
    /\ b.hlit \in (NumLiterals + 1)..(NumLiterals + 2^SizeBits[1]) /\ b.hlit <= NumLiterals + 1 + Len(LengthExtra)
    /\ b.hdist \in 1..2^SizeBits[2] /\ b.hdist <= Len(DistanceExtra)
    /\ b.hclen \in MinHclen..(MinHclen + 2^SizeBits[3] - 1) /\ b.hclen <= Len(HclenOrder)
    /\ IsCode(b.codelens) /\ Len(b.codelens) = MaxCodeBits + 4
    /\ \A s \in DOMAIN b.codelens : b.codelens[s] < 2^CodeLenBits
    /\ \A i \in (b.hclen + 1)..Len(HclenOrder) : b.codelens[HclenOrder[i] + 1] = 0
    /\ AreRuns(b.runs, b.codelens) /\ Len(Expand(b.runs)) = b.hlit + b.hdist

AreBytes(bytes) == bytes \in Seq(0..255) /\ Len(bytes) < 2^16

IsBlock(b) ==
    \/ b.kind = "stored" /\ AreBytes(b.bytes)
    \/ b.kind = "fixed" /\ AreTokens(b.tokens, FixedLiterals, FixedDistances)
    \/ b.kind = "dynamic" /\ AreTrees(b) /\ AreTokens(b.tokens, Literals(b), Distances(b))

AreBlocks(blocks) ==
    /\ blocks = [i \in 1..Len(blocks) |-> blocks[i]] /\ Len(blocks) \in Nat \ {0}
    /\ \A i \in DOMAIN blocks : IsBlock(blocks[i])

\* A number of 32 bits, by its halves.
AreHalves(v) == v \in (0..(2^16 - 1)) \X (0..(2^16 - 1))

IsMember(s) ==
    s = Member(s.blocks, s.crc, s.isize) /\ AreBlocks(s.blocks) /\ AreHalves(s.crc) /\ AreHalves(s.isize)

=============================================================================
