--------------------------- MODULE DeflateDecoder ---------------------------
(***************************************************************************)
(* gzip::deflate::parse_deflate_stream and the trailer of parse_gzip_member*)
(* behind it: blocks are read bit by bit, their literals kept, their       *)
(* matches skipped.  One action is one pass of a loop of the code.         *)
(*                                                                         *)
(* "phase" says which loop: over blocks ("block", "stored"), over the code *)
(* lengths of a dynamic block ("sizes", "codelens", "lengths"), over symbols  *)
(* ("symbols"), or, behind the last block, "trailer".                      *)
(***************************************************************************)
EXTENDS DeflateHuffman, DeflateFormat

CONSTANTS
    Sources,          \* members an encoder wrote; each is also read cut short
    Arbitrary,        \* byte strings nobody encoded, as bits
    MaxBlocks,        \* MAX_DEFLATE_BLOCKS_PER_MEMBER
    MaxBlockLiterals, \* MAX_BLOCK_LITERALS
    MaxInstructions,  \* MAX_DEFLATE_INSTRUCTIONS
    MaxTotal          \* MAX_TOTAL_LITERALS

ByteStrings == {d \in Seq(Bit) : Len(d) % 8 = 0}

\* HuffmanDecoder::new.
NoDecoder == [max_bits |-> 0, codes |-> {}]

\* The decoders of a fixed block.
FixedDecoders ==
    Then(FromLengths(FixedLiterals), LAMBDA l :
    Then(FromLengths(FixedDistances), LAMBDA t : {[code_length |-> NoDecoder, literal |-> l, distance |-> t]}))

ASSUME DecoderConstants ==
    /\ \A s \in Sources : IsMember(s)
    /\ Arbitrary \subseteq ByteStrings
    /\ {MaxBlocks, MaxBlockLiterals, MaxInstructions, MaxTotal} \subseteq Nat
    /\ FixedDecoders # {}
    /\ WordBits >= 16 /\ WordBits - 8 >= MaxCodeBits /\ CodeLenBits <= 8
    /\ \A k \in 1..3 : Repeat[k].bits \in 0..8 /\ Repeat[k].base \in Nat \ {0} /\ SizeBits[k] \in 1..8
    /\ LengthExtra \in Seq(0..(WordBits - 8)) /\ DistanceExtra \in Seq(0..(WordBits - 8))

VARIABLES
    source,        \* ghost: what was encoded, as a set of one, or none
    data,
    reader,
    status,        \* "running", "ok" or "error"
    phase,
    blocks,        \* [start, end, literals] with start and end in bits
    total,         \* total_literals
    had_matches,
    block,         \* the block in progress: [start, final, literals]
    sizes,         \* [hlit, hdist, hclen] of the dynamic block in progress
    codelens,      \* the lengths of its code-length code, as far as they are read
    lengths,       \* its code lengths, as far as they are read
    prev,
    decoders,      \* [code_length, literal, distance]
    instructions,
    trailer        \* [crc, isize] once read, as a set of one

vars == <<source, data, reader, status, phase, blocks, total, had_matches, block, sizes,
          codelens, lengths, prev, decoders, instructions, trailer>>

-----------------------------------------------------------------------------
(* What each step reads: a set of at most one result.                      *)

\* The head of a block: is it the last, and its type.
Header ==
    IF Len(blocks) >= MaxBlocks THEN {}
    ELSE Then(ReadBits(data, reader, 1), LAMBDA a :
         Then(ReadBits(data, a.reader, 2), LAMBDA b :
         {[reader |-> b.reader, final |-> a.bits[1] = 1, type |-> Number(b.bits)]}))

\* fits_literal_cap.  Mutant: what is there is compared, not what it becomes.
FitsBefore(n) == Len(block.literals) <= MaxBlockLiterals

Fits(n) == Len(block.literals) + n <= MaxBlockLiterals

\* parse_stored_block: LEN, its complement, and that many bytes.
Stored ==
    Then(AlignToByte(data, reader), LAMBDA r :
    Then(ReadU16(data, r), LAMBDA len :
    Then(ReadU16(data, len.reader), LAMBDA nlen :
    IF len.value = 2^16 - 1 - nlen.value /\ Fits(len.value)
    THEN ReadBytes(data, nlen.reader, len.value) ELSE {})))

\* parse_dynamic_trees: HLIT, HDIST and HCLEN.
Sizes ==
    Then(ReadBits(data, reader, SizeBits[1]), LAMBDA a :
    Then(ReadBits(data, a.reader, SizeBits[2]), LAMBDA b :
    Then(ReadBits(data, b.reader, SizeBits[3]), LAMBDA c :
    LET hlit  == Number(a.bits) + NumLiterals + 1
        hdist == Number(b.bits) + 1
    IN  OnlyIf(hlit <= NumLiterals + 1 + Len(LengthExtra) /\ hdist <= Len(DistanceExtra),
               [reader |-> c.reader, hlit |-> hlit, hdist |-> hdist,
                hclen |-> Number(c.bits) + MinHclen]))))

\* The code-length code: what is read is in HCLEN_ORDER, what is not is zero.
CodeLengthLengths ==
    [s \in 1..(MaxCodeBits + 4) |->
        LET i == CHOOSE i \in DOMAIN HclenOrder : HclenOrder[i] = s - 1
        IN  IF i <= Len(codelens) THEN codelens[i] ELSE 0]

Wanted == sizes.hlit + sizes.hdist

\* Mutant: the end is not compared.
FillUnbounded(value, n) == {lengths \o [k \in 1..n |-> value]}

\* fill_lengths: refused when the run reaches past the end.
Fill(value, n) == OnlyIf(Len(lengths) + n <= Wanted, lengths \o [k \in 1..n |-> value])

\* What 16, 17 and 18 do: repeat prev or zero, and leave prev as it was.
Repeated(w, kind, value) ==
    Then(ReadBits(data, w.reader, Repeat[kind].bits), LAMBDA a :
    Then(Fill(value, Repeat[kind].base + Number(a.bits)), LAMBDA filled :
    {[reader |-> a.reader, lengths |-> filled, prev |-> prev]}))

\* decode_code_lengths, one pass: handle_code_length_symbol.
CodeLength ==
    IF instructions >= MaxInstructions THEN {}
    ELSE Then(Decode(data, decoders.code_length, reader), LAMBDA w :
         CASE w.symbol \in 0..MaxCodeBits ->
                {[reader |-> w.reader, lengths |-> Append(lengths, w.symbol), prev |-> w.symbol]}
           [] w.symbol = MaxCodeBits + 1 -> IF lengths = <<>> THEN {} ELSE Repeated(w, 1, prev)
           [] w.symbol = MaxCodeBits + 2 -> Repeated(w, 2, 0)
           [] w.symbol = MaxCodeBits + 3 -> Repeated(w, 3, 0)
           [] OTHER -> {})

DynamicDecoders ==
    Then(FromLengths(SubSeq(lengths, 1, sizes.hlit)), LAMBDA l :
    Then(FromLengths(SubSeq(lengths, sizes.hlit + 1, Wanted)), LAMBDA t :
    {[code_length |-> NoDecoder, literal |-> l, distance |-> t]}))

\* parse_match: extra bits, distance code, extra bits; all of it is skipped.
Match(w) ==
    Then(ReadBits(data, w.reader, LengthExtra[w.symbol - NumLiterals]), LAMBDA a :
    Then(Decode(data, decoders.distance, a.reader), LAMBDA t :
    IF t.symbol + 1 \in DOMAIN DistanceExtra
    THEN ReadBits(data, t.reader, DistanceExtra[t.symbol + 1]) ELSE {}))

\* parse_huffman_block, one pass: a literal, a match, or the end of the block.
Symbol == IF instructions >= MaxInstructions THEN {} ELSE Decode(data, decoders.literal, reader)

LiteralSymbol == {w \in Symbol : w.symbol \in 0..(NumLiterals - 1) /\ Fits(1)}

SkippedMatch ==
    Then({w \in Symbol : w.symbol \in (NumLiterals + 1)..(NumLiterals + Len(LengthExtra))}, Match)

LastSymbol == {w \in Symbol : w.symbol = EndOfBlock}

\* parse_gzip_member behind the blocks.
Trailer ==
    Then(AlignToByte(data, reader), LAMBDA r :
    Then(ReadU32(data, r), LAMBDA c :
    Then(ReadU32(data, c.reader), LAMBDA i :
    {[reader |-> i.reader, crc |-> c.value, isize |-> i.value]})))

-----------------------------------------------------------------------------

Init ==
    /\ \/ \E s \in Sources : \E n \in 0..(Len(s.bits) \div 8) :
             source = {s} /\ data = SubSeq(s.bits, 1, 8 * n)
       \/ source = {} /\ data \in Arbitrary
    /\ reader = NewReader(0)
    /\ status = "running" /\ phase = "block"
    /\ blocks = <<>> /\ total = 0 /\ had_matches = FALSE
    /\ block = [start |-> 0, final |-> FALSE, literals |-> <<>>]
    /\ sizes = [hlit |-> 0, hdist |-> 0, hclen |-> 0]
    /\ codelens = <<>> /\ lengths = <<>> /\ prev = 0
    /\ decoders = [code_length |-> NoDecoder, literal |-> NoDecoder, distance |-> NoDecoder]
    /\ instructions = 0 /\ trailer = {}

At(p) == status = "running" /\ phase = p

BlockHeader ==
    /\ At("block")
    /\ \E h \in Header :
          /\ h.type \in {0, 1, 2}
          /\ reader' = h.reader
          /\ block' = [start |-> Position(reader), final |-> h.final, literals |-> <<>>]
          /\ phase' = CASE h.type = 0 -> "stored" [] h.type = 1 -> "symbols" [] h.type = 2 -> "sizes"
          /\ decoders' \in IF h.type = 1 THEN FixedDecoders ELSE {decoders}
    /\ instructions' = 0
    /\ UNCHANGED <<source, data, status, blocks, total, had_matches, sizes, codelens, lengths, prev, trailer>>

\* The end of a pass of parse_deflate_stream; r is where the block ended.
EndBlock(r, b) ==
    /\ total + Len(b.literals) <= MaxTotal
    /\ total' = total + Len(b.literals)
    /\ blocks' = Append(blocks, [start |-> b.start, end |-> Position(r), literals |-> b.literals])
    /\ phase' = IF b.final THEN "trailer" ELSE "block"
    /\ reader' = r /\ block' = b

StoredBlock ==
    /\ At("stored")
    /\ \E b \in Stored : EndBlock(b.reader, [block EXCEPT !.literals = b.bytes])
    /\ UNCHANGED <<source, data, status, had_matches, sizes, codelens, lengths, prev, decoders,
                   instructions, trailer>>

DynamicSizes ==
    /\ At("sizes")
    /\ \E h \in Sizes :
          /\ reader' = h.reader
          /\ sizes' = [hlit |-> h.hlit, hdist |-> h.hdist, hclen |-> h.hclen]
    /\ phase' = "codelens" /\ codelens' = <<>>
    /\ UNCHANGED <<source, data, status, blocks, total, had_matches, block, lengths, prev,
                   decoders, instructions, trailer>>

ReadCodeLengthLength ==
    /\ At("codelens") /\ Len(codelens) < sizes.hclen
    /\ \E a \in ReadBits(data, reader, CodeLenBits) :
          reader' = a.reader /\ codelens' = Append(codelens, Number(a.bits))
    /\ UNCHANGED <<source, data, status, phase, blocks, total, had_matches, block, sizes,
                   lengths, prev, decoders, instructions, trailer>>

CodeLengthTree ==
    /\ At("codelens") /\ Len(codelens) = sizes.hclen
    /\ \E t \in FromLengths(CodeLengthLengths) : decoders' = [decoders EXCEPT !.code_length = t]
    /\ phase' = "lengths" /\ lengths' = <<>> /\ prev' = 0 /\ instructions' = 0
    /\ UNCHANGED <<source, data, reader, status, blocks, total, had_matches, block, sizes,
                   codelens, trailer>>

DecodeCodeLength ==
    /\ At("lengths") /\ Len(lengths) < Wanted
    /\ \E c \in CodeLength :
          reader' = c.reader /\ lengths' = c.lengths /\ prev' = c.prev
    /\ instructions' = instructions + 1
    /\ UNCHANGED <<source, data, status, phase, blocks, total, had_matches, block, sizes, codelens,
                   decoders, trailer>>

DynamicTrees ==
    /\ At("lengths") /\ Len(lengths) = Wanted
    /\ decoders' \in DynamicDecoders
    /\ phase' = "symbols" /\ instructions' = 0
    /\ UNCHANGED <<source, data, reader, status, blocks, total, had_matches, block, sizes, codelens,
                   lengths, prev, trailer>>

Literal ==
    /\ At("symbols")
    /\ \E w \in LiteralSymbol :
          /\ reader' = w.reader
          /\ block' = [block EXCEPT !.literals = Append(@, w.symbol)]
    /\ instructions' = instructions + 1
    /\ UNCHANGED <<source, data, status, phase, blocks, total, had_matches, sizes, codelens, lengths,
                   prev, decoders, trailer>>

SkipMatch ==
    /\ At("symbols")
    /\ \E m \in SkippedMatch : reader' = m.reader
    /\ instructions' = instructions + 1 /\ had_matches' = TRUE
    /\ UNCHANGED <<source, data, status, phase, blocks, total, block, sizes, codelens, lengths, prev,
                   decoders, trailer>>

EndOfSymbols ==
    /\ At("symbols")
    /\ \E w \in LastSymbol : EndBlock(w.reader, block)
    /\ UNCHANGED <<source, data, status, had_matches, sizes, codelens, lengths, prev, decoders,
                   instructions, trailer>>

ReadTrailer ==
    /\ At("trailer")
    /\ \E t \in Trailer : reader' = t.reader /\ trailer' = {[crc |-> t.crc, isize |-> t.isize]}
    /\ status' = "ok"
    /\ UNCHANGED <<source, data, phase, blocks, total, had_matches, block, sizes, codelens, lengths,
                   prev, decoders, instructions>>

OverTotal(bytes) == total + Len(bytes) > MaxTotal

\* Every other outcome of a read is an error, and the call returns it.
Refuse ==
    /\ \/ At("block") /\ \A h \in Header : h.type \notin {0, 1, 2}
       \/ At("stored") /\ \A b \in Stored : OverTotal(b.bytes)
       \/ At("sizes") /\ Sizes = {}
       \/ At("codelens") /\ Len(codelens) < sizes.hclen /\ ReadBits(data, reader, CodeLenBits) = {}
       \/ At("codelens") /\ Len(codelens) = sizes.hclen /\ FromLengths(CodeLengthLengths) = {}
       \/ At("lengths") /\ Len(lengths) < Wanted /\ CodeLength = {}
       \/ At("lengths") /\ Len(lengths) = Wanted /\ DynamicDecoders = {}
       \/ /\ At("symbols") /\ LiteralSymbol = {} /\ SkippedMatch = {}
          /\ \A w \in LastSymbol : OverTotal(block.literals)
       \/ At("trailer") /\ Trailer = {}
    /\ status' = "error"
    /\ UNCHANGED <<source, data, reader, phase, blocks, total, had_matches, block, sizes, codelens,
                   lengths, prev, decoders, instructions, trailer>>

\* The call is over; before that it always has a next step.
Returned == status # "running" /\ UNCHANGED vars

Next ==
    \/ BlockHeader \/ StoredBlock
    \/ DynamicSizes \/ ReadCodeLengthLength \/ CodeLengthTree \/ DecodeCodeLength \/ DynamicTrees
    \/ Literal \/ SkipMatch \/ EndOfSymbols \/ ReadTrailer \/ Refuse \/ Returned

Spec == Init /\ [][Next]_vars

-----------------------------------------------------------------------------
(* Properties.                                                             *)

BlockType == [start : Nat, end : Nat, literals : Seq(Nat)]

TypeOK ==
    /\ data \in ByteStrings
    /\ status \in {"running", "ok", "error"}
    /\ phase \in {"block", "stored", "sizes", "codelens", "lengths", "symbols", "trailer"}
    /\ blocks \in Seq(BlockType)
    /\ total \in Nat /\ had_matches \in BOOLEAN
    /\ block \in [start : Nat, final : BOOLEAN, literals : Seq(Nat)]
    /\ sizes \in [hlit : Nat, hdist : Nat, hclen : Nat]
    /\ codelens \in Seq(Nat) /\ Len(codelens) <= sizes.hclen
    /\ lengths \in Seq(0..MaxCodeBits) /\ (phase = "lengths" => Len(lengths) <= Wanted)
    /\ prev \in 0..MaxCodeBits /\ instructions \in 0..MaxInstructions

\* Wherever the decoder stands, the bit buffer holds the bits of the input from
\* that place on: through refills ahead of the position, alignment, and bytes
\* that are read past the buffer.
ReaderAgrees == ReaderOK(data, reader)

\* The limits hold at every moment: blocks, literals of a block, of all blocks.
LimitsHeld ==
    /\ Len(blocks) <= MaxBlocks
    /\ Len(block.literals) <= MaxBlockLiterals
    /\ \A i \in DOMAIN blocks : Len(blocks[i].literals) <= MaxBlockLiterals
    /\ total <= MaxTotal

LiteralsOf(extents) == SumFunction([i \in DOMAIN extents |-> Len(extents[i].literals)])

\* A repeat that comes right behind a run of zeroes.
RepeatsBehindZeroes(b) ==
    b.kind = "dynamic" /\
    \E i \in 2..Len(b.runs) : b.runs[i].symbol = MaxCodeBits + 1 /\ b.runs[i - 1].symbol > MaxCodeBits + 1

Regular(s) == \A i \in DOMAIN s.blocks : ~RepeatsBehindZeroes(s.blocks[i])

ExceedsLimits(s) ==
    LET Exceeds(b) == \/ Len(LiteralBytes(b)) > MaxBlockLiterals
                      \/ b.kind # "stored" /\ Len(b.tokens) + 1 > MaxInstructions
                      \/ b.kind = "dynamic" /\ Len(b.runs) > MaxInstructions
    IN  Len(s.blocks) > MaxBlocks \/ LiteralsOf(s.extents) > MaxTotal \/ \E i \in DOMAIN s.blocks : Exceeds(s.blocks[i])

Decodes(s) ==
    \* What is there is what was encoded, bit for bit and in order.
    /\ IsPrefix(blocks, s.extents) /\ total = LiteralsOf(blocks)
    /\ phase = "symbols" => IsPrefix(block.literals, s.extents[Len(blocks) + 1].literals)
    \* A cut stream is never taken for a whole one, and the trailer is the one written.
    /\ status = "ok" => /\ Len(blocks) = Len(s.blocks)
                        /\ trailer = {[crc |-> s.crc, isize |-> s.isize]}
                        /\ 8 * reader.byte_pos = Len(s.bits) /\ reader.bit_pos = 0
                        /\ had_matches <=> \E i \in DOMAIN s.blocks :
                              /\ s.blocks[i].kind # "stored"
                              /\ \E t \in DOMAIN s.blocks[i].tokens :
                                     "match" \in DOMAIN s.blocks[i].tokens[t]
    \* A whole one is refused for its size alone.
    /\ status = "error" /\ data = s.bits => ExceedsLimits(s)

\* Every stream whose repeats are not right behind zeroes decodes to what was
\* encoded: block types in any order, at any bit, cut anywhere.
DecodesRegular == \A s \in source : Regular(s) => Decodes(s)

\* "Supports standard .gz files and DEFLATE streams": the same of every stream.
DecodesAll == \A s \in source : Decodes(s)

\* A pass that does not end the call takes at least one bit of the input, or
\* leaves a loop for the next one of a block's header: on any bytes the decoder
\* makes no more than three passes for a bit.
Consumes ==
    [][status' = "running" =>
          \/ Position(reader') > Position(reader)
          \/ phase = "codelens" /\ phase' = "lengths"
          \/ phase = "lengths" /\ phase' = "symbols"]_vars

=============================================================================
