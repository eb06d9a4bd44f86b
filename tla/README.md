# A TLA+ model of ziftsieve

ziftsieve searches compressed data without decompressing it. It parses LZ4,
Snappy, Zstd and gzip streams, takes only their *literal* bytes, and indexes
each compressed block with a Bloom filter over the 1- to 4-byte windows of its
literals. A search asks the filters for candidate blocks and verifies each one
in its literals.

This directory holds TLA+ modules translated from that code, TLC runs that check
them on small instances, and TLAPS proofs for every value of their constants.
Paths such as `src/lz4.rs` are relative to the repository's root.

## The system

The library is sequential: no threads, callbacks or interior mutability, nothing
written to disk. A call runs to its end and returns `Ok` or an error. What is
hard is therefore not interleaving but the order of legal calls on one object,
positions and limits at their boundaries, malformed and truncated input, a step
that fails half-way, and two pieces of code that must agree.

| Part | Code | State | Operations | What makes it correct | Modelled |
|---|---|---|---|---|---|
| Bloom filter | `src/bloom/` | bit vector, `num_bits`, `num_hashes` | `build`, `with_params`, `new`, `insert`, `may_contain`, `clear`, `bits`, `from_bits` | no false negatives; indices in range | yes |
| Index builders | `src/builder.rs` | options, blocks so far | setters, `build_from_bytes`, `process_chunk`, `finalize` | a refused chunk leaves nothing; both builders index alike; the block limit | yes |
| Index queries | `src/index.rs` | the finished index | `candidate_blocks`, `candidate_blocks_iter` | every block whose literals hold the pattern is a candidate | yes, as a list and one by one; statistics not |
| Dispatcher, blocks | `src/extract/mod.rs` | per block: offset, length, literals | `extract_from_bytes`, `verify_contains`, `literal_density` | extents, density | yes |
| LZ4 | `src/lz4.rs` | position, blocks, totals | `parse_lz4_blocks`, `extract_literals` | nothing lost, limits, termination | yes |
| Snappy | `src/snappy.rs` | the same, literals pending | `extract_literals`, `flush_block` | the same | yes; the `snap` decoder is an input |
| Zstd frames | `src/zstd/frame.rs`, `streaming.rs` | the same, frames | `extract_literals`, `parse_block` | the same | yes |
| gzip members | `src/gzip/mod.rs`, `header.rs`, `deflate.rs` | the same, bit position | `parse_gzip_member`, `parse_deflate_stream` | the same | yes: the loop over members and blocks, and (next row) the inside of a block |
| DEFLATE | `src/gzip/bitstream.rs`, `deflate.rs` | bit buffer and position, code tables, a block in progress | `read_bits`, `align_to_byte`, `read_bytes`, `decode`, `parse_deflate_stream` | buffer and position agree; what was encoded comes out; limits | yes |
| Zstd literals section | `src/zstd/decoder.rs`, `huffman.rs`, `fse.rs`, `bit_io.rs` | two bit readers, FSE and Huffman tables | `extract_literals_from_block` and what it calls | what was encoded comes out; tables decode by prefixes; limits | yes |
| Tarball scanner | `src/extract/tarball.rs` | per archive: offset, members, blocks, bytes | `scan_tarball_literals` | every regular file once and in order; limits; termination | yes; gzip decompression is an input |
| Detection | `src/detect.rs` | none | `detect` | pure comparison of magic bytes | no |

A builder calls `extract_from_bytes`, which calls one parser, which returns a
vector of blocks or an error. Three parsers call a decoder for the inside of a
block (LZ4, DEFLATE, Zstd literals); the tarball scanner stands beside them and
calls the system's gzip decompression and itself. The builder makes a filter per block and fills it;
the index only reads. Those calls are the only interaction, so each layer is a
module whose input is what the layer below may return.

## The modules

| Module | Models | Notes |
|---|---|---|
| `BloomOps` | the filter as a value and its operations | constants: hashes, sizes |
| `ApproximateSet` | what a membership filter promises | abstract specification |
| `BloomFilter` | the life of one filter in a client's hands | refines `ApproximateSet` |
| `BloomProofs` | theorems on both | |
| `LiteralIndex` | both builders and the queries | uses `BloomOps` |
| `LiteralIndexProofs` | theorems on it | |
| `DataLemmas` | facts about least elements, sums over sets and sequences, quotients, powers of two, the order of finite sets, and sequences laid end to end | used by the five longer proofs |
| `StreamBase` | the state the parsers share | |
| `StreamFormats` | what an input means: where segments end, what they carry, in which order they stand | external reference |
| `Lz4Stream`, `SnappyStream`, `ZstdStream`, `GzipStream` | one parser each | |
| `Extraction` | the four behind `extract_from_bytes` | refines `BlockStream` |
| `BlockStream` | what any parser promises | abstract specification |
| `ExtractionProofs` | theorems on `Extraction` | |
| `Lz4Format` | the LZ4 block format: encoder and decoder | external reference |
| `Lz4Block`, `Lz4BlockProofs` | `lz4::extract_literals`, byte by byte | |
| `DeflateFormat` | DEFLATE blocks as an encoder writes them | external reference |
| `BitReader` | the bit buffer over a string of bytes | |
| `DeflateHuffman` | canonical codes and their decoder | |
| `DeflateDecoder`, `DeflateProofs` | `parse_deflate_stream` and the trailer, bit by bit | |
| `GzipMember` | the two gzip models put together | `DeflateDecoder` refines `GzipStream` |
| `ZstdLiteralsFormat` | literals sections as an encoder writes them | external reference |
| `ReversedReader` | the reader of strings from their ends | |
| `ZstdFse`, `ZstdHuffman` | the distributions and the two kinds of tables | |
| `ZstdLiterals`, `ZstdLiteralsProofs` | `extract_literals_from_block`, bit by bit | |
| `TarFormat` | the layout of an archive, and what gzip makes of a member | external reference |
| `Tarball` | `scan_tarball_literals` with its recursion | |
| `TarballSpec` | what a scan returns, by members | abstract specification |
| `TarballProofs` | theorems on `Tarball` and `TarballSpec` | |
| `MCBloom`, `MCIndex`, `MCExtraction`, `MCLz4Block`, `MCDeflate`, `MCZstdLiterals`, `MCTarball` | instances for TLC | |

Operators named in a comment as a *mutant* are plausible bugs. They are not used
by the specifications; each shows that one property can tell the code from them.

### Bloom filter

A filter is a record of the set of its one bits, the length of its vector (`len`),
the modulus (`num_bits`) and the number of probes. `len` and `num_bits` are two
fields because the code keeps two: `clear` zeroes the `BitVec`, which keeps its
length, and then grows it, so they part. Options are sets of at most one
element. The floating-point sizing of `new` is in thousandths, with
`-ln(p)/ln(2)^2` a table constant. The hashes are constants: nothing proved
depends on which they are.

`members` and `saved` are ghosts: what a client has put in, and what was in the
filter when its bits were taken out. After a reload a filter is only held to
answer for members when the bits were taken under the modulus equal to their
length and it makes no more probes than they were set by; `RebuiltKeepsMembers`
drops the first excuse and is violated (below).

### Index

A block is its literals and its filter. A chunk is an action's argument: the
literals of its blocks, or a parse failure. `accepted` records the literals of
every chunk that was answered with `Ok`; `resized` that the options changed
between chunks. The filters of an index are compared with the plain definition
of "occurs in", for every pattern. `Searches` holds both ways to ask: the list, and
the iterator for patterns that are not empty.

### Streams

An input is its length and the *segments* it was laid out in: frame headers,
blocks, chunks, trailers, each at a position. A parser sees a segment only when
it reads at that position; an input shorter than its segments was cut. Literals
are counted, not spelled out; a block whose inside is refused has none. One
action is one pass of the parser's loop, with all of its checks in order. `Fail`
and `Succeed` are the returns. Gzip positions are in bits.

What an input *means* is defined apart from the parsers, in `StreamFormats`
(`SegEnd`, `SegLiterals`, `SegSound`), and the properties compare the two. The
inputs are held to what a writer can have laid out, by two assumptions that TLC
evaluates on the instance: `InputTypes` (sizes are numbers, a type is one of the
format's) and `InputLayout` (segments lie one behind the other, in the order of
`LaidOut`; an input its writer closed holds what `Finished` says; its length
ends anywhere). Neither says that an input is sound: a segment of every kind may
be unsound, cut, or larger than its limit. LZ4 frames with a dictionary id
are read out of step (the code skips one byte of four): from there on the parser
may read any header of `Garbage`. Such inputs count for bounds and termination
and not for content.

`KeepsPromise` says the composition implements `BlockStream`: the input is
walked front to back, extents come in order and lie in what was walked, the
result is final, and the call returns.

### LZ4 block

`extract_literals` over bytes. The radix is a parameter (`ByteMax`, `NibbleMax`:
255 and 15 in the code); the relation between the two is an assumption. A block
is either a prefix of what `Encode` makes of some sequences or an arbitrary
string, and `Decode` gives what the block decompresses to. The sequences are
held to what the format can write (`Encodable`, `WellFormed`, in
`BlockConstants`): an offset fits its two bytes and reaches back into what is
there, and no run and no copy is longer than `MaxBlockSize`, the 4 MiB that both
the format and the code (`MAX_BLOCK_SIZE`) allow a block.

### DEFLATE

The input is a string of bits, a reader the bytes consumed, the bits pulled into
the buffer and their number; the buffer is a word of 16 bits in the instance and
of any width from 16 on in the proofs. `ReaderOK` relates it to the input: the
buffer holds the bits from `Position` on. Refills read ahead of the position,
`align_to_byte` throws bits away, and `read_bytes` first empties the buffer and
then reads past it.

A decoder is a set of `[path, symbol]`; `decode` extends the path it has read by
one bit until there is a symbol. `FromLengths` is the constructor with its
refusals. "phase" names the loop the code is in: the loop over blocks, the
stored bytes, the three loops of a dynamic block's trees, and the loop over
symbols. Each action is one pass; `Refuse` is every error of every pass.

`DeflateFormat` writes members from blocks: stored bytes, or tokens under the
fixed code or under a code with any run-length description of its lengths. What
it wrote is kept in the ghost `source`, and `Decodes` compares: blocks begin and
end at the bit they were written at, hold the literals that were written, a cut
member is never accepted, and a whole one is refused only for a limit. What may be
written is `IsMember`, an assumption on `Sources` that TLC evaluates: every code
satisfies Kraft's inequality (`IsCode`, complete or not), every token has a code,
the run-length description spells as many lengths as are announced, and no sizes
beyond the alphabets'. Which blocks, trees, tokens and how many is left open.

`GzipStream` takes a block as a number of bits, a number of literals and a
verdict. `GzipMember` justifies it: it lays a member out in such segments and
shows that the bit-level decoder refines the block-level one. All passes over a
block are one step there; the extent, the literals, the alignment in front of
the trailer, the memory of back-references and every refusal agree.

### Zstd literals

The same construction for `extract_literals_from_block`: the header in
every layout, raw and RLE literals, trees given by nibbles or FSE coded, one
stream or four. `ReversedReader` is the code's reader with its word (24 bits in
the instance, 64 in the code), its index, and its count of bits read behind the
beginning; `Backwards` is the string read from its end, one bit at a time, and
`AheadAgrees` relates the two. FSE tables are built as the code builds them
(`Spread`, base lines and bit counts) and compared with an encoder that
numbers states as the format defines them (`Cells`, `Move`). `ZstdLiteralsFormat`
shares no operator with the decoder.

### Tarball

An archive is its members, the number of zero blocks behind them and the bytes
cut from its end; offsets and sizes are numbers, the content of a member is what
gzip makes of it. Names and size fields are short sequences of characters, since
the code decides by them. A frame of `stack` is a call of
`scan_decompressed_tar_gz_archive`; `EndOfNested` is the return to the pass that
called it. `Archives` is every archive that occurs, at whatever depth
(`ArchiveTypes`). `ArchiveLayout` says what makes such a record describe bytes: a
size field that can be read gives the size its member is laid out with (an
archive whose field says otherwise is the record of another layout), gzip's magic
number takes two bytes, and what decompresses does so to one archive.
`TarballSpec` says by the members alone, by the number of levels that may still be
opened, what a scan returns and what it refuses; `ScanExact` compares the two.

## The runs

| Run | Module / cfg | Expected | Shows |
|---|---|---|---|
| `bloom` | `MCBloom` / `Bloom.cfg` | pass | no false negatives and refinement of `ApproximateSet` through inserts, clears, saves and reloads |
| `bloom_clear` | `MCBloom` / `BloomClear.cfg` | violation | a filter cleared, filled, taken out and rebuilt denies members |
| `index` | `MCIndex` / `Index.cfg` | pass | the search is exact on literals; refused chunks leave nothing; batch and streaming agree |
| `extraction` | `MCExtraction` / `Extraction.cfg` | pass | the parsers keep `BlockStream`, lose nothing, refuse nothing valid |
| `extents` | `MCExtraction` / `Extents.cfg` | violation | LZ4 extents do not hold their block |
| `density` | `MCExtraction` / `Density.cfg` | violation | literal density passes 1 for Zstd |
| `lz4_block` | `MCLz4Block` / `Lz4Block.cfg` | pass | the literals gathered are the encoder's, up to the cap, cut or whole |
| `lz4_patterns` | `MCLz4Block` / `Lz4Patterns.cfg` | violation | a pattern across a copy is not in the literals |
| `deflate` | `MCDeflate` / `Deflate.cfg` | pass | every member whose repeats are not behind zeroes decodes to what was written; the buffer agrees with the input; limits; the refinement of `GzipStream` |
| `repeat` | `MCDeflate` / `Repeat.cfg` | violation | a repeat behind a run of zeroes repeats the length before them |
| `tarball` | `MCTarball` / `Tarball.cfg` | pass | a scan returns the regular files of the archive and of those within it, or refuses for a reason of `TarballSpec`; it returns |
| `zstd_literals` | `MCZstdLiterals` / `ZstdLiterals.cfg` | pass | every section decodes to what was written; reader and tables are sound; limits |

Run them with `tlc -config Bloom.cfg MCBloom` and so on.

**Bounds.** `bloom`: three items whose probes collide, 16 hash values, six
configurations at the edges of the clamps, vectors up to `MaxLen = 8` (the guard
of `Clear`; one clear doubles, so a second needs small vectors). `index`: two
byte values, blocks of up to six literals, all 63 patterns of up to five bytes,
one beyond the window of four; two blocks are the limit, so that it is reached,
met and passed. `extraction`: about 16,000 inputs of up to three blocks, chunks,
frames or members, every kind of segment sound and unsound, cut at every byte;
the limits are scaled (three blocks, 20 literals, ratio 1 with a floor of 3,
three members) so that each is met and passed. `lz4_block`: two-bit bytes and
one-bit half tokens, so that runs and copies fall below, at and beyond what a
half token holds; all 5,461 strings of up to six bytes and 1,000 encoded blocks
at every cut; caps below and above the literals. `deflate`: three literals, two
match lengths and two distances with and without an extra bit, codes of up to
three bits (so a code-length alphabet of seven symbols, 16, 17 and 18 being its
last three), a word of 16 bits so that refills, bytes read past it and
alignment meet within two bytes; every run-length description of five pairs of
codes, members of up to three blocks in every order of types, all of them cut at
every byte, and 1,555 strings nobody encoded; limits of two blocks, three
literals in a block, six passes and four literals in all, each met and passed
(101,060 states). `tarball`: blocks of 8 bytes and size fields of three
characters, up to four members where three are the limit, archives nested three
deep where two is the limit, archives cut anywhere, 48 bytes in all; every size
field over four characters and every name of up to five characters over `.`,
`/` and a letter (7,802 states). `zstd_literals`: the accuracies 5 and 6 and the
255 weights are the code's own, the limit of literals is 24 for 128 KiB, the
word is 24 bits so that a refill falls within a string; the case in which a
stream passes 255 weights, every header, every tree of up to three given
weights, and all distributions over two symbols happen (132,024 states).

**Deadlock** is checked in `bloom`, `deflate`, `tarball` and `zstd_literals`,
where only a call that returned may idle (`Returned`): a decoder that is in a
state for which the code has neither a next step nor an error would be one. It
is not checked in `index`, `extraction` and `lz4_block`: a consumed
builder and a call that returned have no next step. In `extraction` a parser
that is stuck before it returns violates `KeepsPromise`.

**Fairness.** `Extraction` assumes weak fairness of `Next`: a call that can take
another pass of its loop takes it, which is what running a function means. `Tarball` assumes the same of its recursive call.
The other decoders state termination as a step property instead (`Consumes`: a
pass takes a bit or leaves its loop), which needs no fairness.

## What is proved

Each theorem holds for every value of the constants that satisfies the named
assumptions of the modules: sizes and limits are naturals, hashes lie below their
modulus, items are the strings of at most four bytes, and inputs are what a
writer can have laid out (`InputTypes`, `InputLayout`, `BlockConstants`,
`ArchiveTypes`, `DecoderConstants`). TLC evaluates each assumption on its instance.

- `BloomProofs`: `TypeOK`, `NoFalseNegatives`, and that `BloomFilter` implements
  `ApproximateSet` (a cleared filter holds no trace of an item, and a filter
  reloaded from blank bits answers "false" to everything). The invariant adds to
  `NoFalseNegatives` the same fact about the saved filter: it answers for every
  saved member. Without it a reload could lose one. A reload under the same
  modulus with fewer rounds asks for a subset of the probes.
- `LiteralIndexProofs`: all five invariants of the run. The invariant of
  `ScanFindsExactly` says that every block's filter answers for
  every window of its literals; a pattern's windows are windows of every string
  it occurs in, so no filter can lose the block, and verification removes what
  the filter adds. That covers both searches, the list and the iterator.
  `StreamingMatchesBatch` rests on a lemma about `BatchIndex`: without an
  expected number of items each block is sized by its own literals, so the
  index of two lists of blocks joined is their indexes joined.
- `ExtractionProofs`, about the four stream parsers on any input and under any
  limits:
  - `TypeOK` and `LimitsHeld`. The inductive invariant also says that no extent
    begins behind the parser (`InOrder`), and how many blocks each phase may
    have delivered (`Counted`): the parsers compare at different places.
  - `ImplementsBlockStream`, the safety half of `KeepsPromise`: initial states
    map to initial states of `BlockStream` and each pass to one of its steps or
    a stutter. That the call returns is left to TLC.
  - `NothingLost` and `ZstdExtentsExact`. The invariant `Content` follows a
    parser that is in step with its input: it stands at the end of a segment
    (`Boundary`), has the literals of all segments before (`Accounted`), and the
    next one is of a kind that may follow (`Expected`).
  - `ValidAccepted`: on a whole and sound input within the limits no guard of
    `Fail` holds. It needs the parser's counters to be those of the segments
    passed (`Tally`) and its state to be one that the next segment fits
    (`Ready`).
- `Lz4BlockProofs`: all four invariants of the run, for any radix, so also
  for bytes of eight bits.
  - `TypeOK` and `CapacitySuffices`, inductive together: the token of a sequence
    takes a byte that no literal takes.
  - `ExtractsLiterals`: the decoder follows the encoder. Between two passes it
    stands where the encoder began a sequence, with the literals of all sequences before
    (`Follows`); a pass over a sequence that is whole reads its lengths back
    from the bytes they were written in, and over one that is cut it ends. That lengths
    written in a half token and any number of bytes come back, and that
    `Encode` is the sequences end to end, are the lemmas on the way.
  - `AlphabetKept`: a copy adds no byte to the set of those decoded, so `Decode`
    has no byte that is not among the literals.
- `DeflateProofs`: all four invariants of the run and `Consumes`, for any
  alphabets, code lengths and limits, and any word of at least 16 bits that holds a
  code and seven bits more (64 and 15 in the code).
  - Every operation of `BitReader` keeps `ReaderOK` and moves the position by exactly
    what it returns (`align_to_byte` to the next byte), on any input. From that
    `TypeOK`, `ReaderAgrees`, `LimitsHeld` and `Consumes`. They are inductive
    together with one more conjunct, `InBlock`: inside of a block its place among
    `blocks` is still free, so that `EndBlock`, which does not compare, cannot pass
    `MaxBlocks`. No symbol has an empty path, hence every `Decode` takes a bit; that
    is what `Consumes` rests on.
  - `DecodesRegular`, of the reader: where bits lie in the data behind the position,
    `read_bits`, `read_u16_le`, `read_bytes` and `align_to_byte` return them and
    nothing else, and they fail only where the data is cut (`ReadU16Is` and the like).
  - Of the codes: the format gives each symbol a part of a line, by length and then by
    symbol; the code counts from length to length (`calculate_next_codes`) and from
    symbol to symbol. Both name the same number, whose bits fit the length
    (`CodeIs`). Parts do not overlap, so no code begins another (`PrefixFree`), so
    `from_lengths` refuses no such lengths (`FromLengthsIs`) and `decode` returns the
    symbol that was written (`DecodeIs`).
  - Of the decoder: the invariant `Follows` says where in the member it stands, phase
    by phase: at the n-th length, token or byte of the block that is encoded there,
    with the sizes, the lengths and the literals up to that place, with decoders built from
    just the lengths of this block, and behind blocks that are the member's. Each
    pass reads what lies there and leads to the next such place; a pass that fails
    does so because the member is cut within what it reads or because of a limit.
- `TarballProofs`: `TypeOK`, `LimitsHeld` and `ScanExact`, for archives that lie in
  one another to any depth, cut anywhere, and any limits.
  - `TypeOK` and `LimitsHeld` are inductive together with the type of a frame
    and with every open archive being one of `Archives`. `EndOfNested` adds the
    blocks of an archive to the one around it only after comparing their sum.
  - `ScanExact` needs each check of the code to agree with what it stands for:
    the loop over a size field returns the number that is written, or none
    (`OctalIsWritten`); the recursive check of a name, which strips `./` and
    otherwise looks for four substrings, finds exactly the names with a component of two
    dots (`TraversalIsFound`); rounding up by a remainder leads to where the
    next member begins, and members begin at different places, in order
    (`RoundUp`, `OffsetNext`, `OffsetOrder`).
  - The invariant `Chain` then says of every open archive that the members it has
    passed are whole and none is refused, that it has kept exactly their contents and
    stands behind the last (`Passed`), and that it is what the member holds
    at which the one around it stands (`Opened`). So at an end every member that
    has begun was passed (`AtEndExact`), which is what `EndOfNested` hands on; and
    an error within is a reason to refuse each archive around it (`Outward`).
- `ZstdLiteralsProofs`: `TypeOK`, `ReaderAgrees`, `TablesSound`, `LimitsHeld` and
  `Consumes`, for any bytes in the place of a section, any bounds, any accuracy
  and any word of at least 16 bits in whole bytes.
  - The reader: any read of up to seven bits less than the word keeps
    `BitReaderReversed` in step with its string (`ConsumeAgrees`) and returns its
    next bits backwards, and zeroes behind its beginning (`PeekReads`).
  - The FSE table: the step of the spread is odd from 16 cells on, so as many steps
    as there are cells visit each one once; the cells below the top are as many
    as the symbols that occur, so each symbol has its cells (`SpreadOnce`,
    `CellsCount`). `calc_baseline_and_numbits` cuts the table into a power of two of
    slices and gives one or two to each state (`BaselineTiles`). Together: the
    states of a symbol share out the table (`TableShares`).
  - The Huffman table: where the codes of a width begin is a multiple of what one
    of them takes, and they end where the next shorter ones begin (`RankNext`,
    `RankDivides`); if they end with the table, every entry is owned by one symbol
    (`Owned`, `OwnedOnce`) and decodes by its own first bits (`TableDecodes`).
  - The decoder: `IInv` says, variable by variable, what a phase leaves to the
    next. `TypeOK` is not inductive: how wide a read is comes out of a table, that a
    state is in its table rests on the distribution having given out all of it
    (`FseInv`), and that is known only where the loop over probabilities was left. For
    `LimitsHeld` the invariant counts bits (`OutInv`): the bytes decoded, the
    bits left of the stream that is open and those of the streams to come are
    together no more than the body has bits. TLC checked `IInv` on the instance of the
    run first. Two facts about constants are needed that the code has by its
    values: `AccLogOffset >= 4` (5; below 16 cells the step of the spread is even)
    and `MaxWeights` odd and at least 127 (255; weights come in pairs and are
    compared after every second one).

The prover cannot instantiate an induction principle with a claim. `DataLemmas`
does without: a nonempty set of naturals has a least element, so a least length
(or, of finite sets, a smallest set) at which a claim fails is empty or has one below
it at which the claim holds. Sums (`SumFunction`), sequences laid end to end
(`FlattenSeq`) and the recursive functions of the models (`Decode`, `Octal`, `Spread`, `NextFree`,
`Contents`) are reasoned about that way: their equations have a solution, what they say is then
unfolded once.

Only model-checked:

- Liveness: that the calls return (`KeepsPromise`, `Returns`).
- `DecodesSection` of `ZstdLiterals`: it relates the bits of the section to what an
  encoder laid out, which takes an induction over the symbols, from the last to the
  first, with the encoder's own tables beside the decoder's.
- That `DeflateDecoder` implements `GzipStream`. `Follows` is the invariant that a
  proof would rest on, but a step of `GzipStream` over a block also asks, of a
  refusal, whether the cut or the limit falls into this block or a later one, and
  that for every block of the member there is a segment of its length.

## Disagreements found

1. **`BloomFilter::clear`** (`src/bloom/filter.rs:190`) doubles the vector while
   `num_bits` stays. The filter itself goes on working, but one rebuilt from its
   `bits()` reduces by the doubled length and denies its members.
2. **Extents**: an LZ4 block's offset is its header's and its length its
   payload's (`src/lz4.rs:302`). A Snappy block flushed by a chunk ends where
   that chunk's payload starts (`src/snappy.rs:197`). Zstd extents are exact,
   which `ZstdExtentsExact` checks.
3. **`literal_density`** may pass 1.0: `uncompressed_len` of a compressed Zstd
   block is its compressed size (`src/zstd/streaming.rs:184`).
4. **The README's "no false negatives"** holds of patterns of one byte
   (`AlphabetKept`) and of patterns within the literals (`ScanFindsExactly`), and
   not of patterns in the decompressed data (`PatternsKept`).
5. **DEFLATE code lengths**: code-length symbol 16 behind 17 or 18 repeats the
   length before the zeroes instead of a zero (`src/gzip/deflate.rs:276`), so a
   member that uses it is misread or refused (`DecodesAll`). The format allows
   it; zlib's own compressor does not write it.

Seen while reading, with no run of their own:

- Index: `candidate_blocks_iter(b"")` asks the filters for the empty item, where
  `candidate_blocks(b"")` returns every block (`src/index.rs:93`); the streaming
  builder's offsets are relative to the chunk.
- LZ4: the dictionary id is skipped as one byte and block checksums are not
  skipped; data behind the end mark is ignored; the number of blocks is compared
  before the end mark is read, so exactly the limit and an end mark is refused.
- Zstd: the third skippable frame in a row is refused (`src/zstd/frame.rs:57`);
  the block limit does not apply to last blocks; treeless sections, which reuse
  the table before, are refused; an RLE section may hold 2^20 literals; a
  compressed section of size 0 is read as a raw one; a stream whose last code
  runs past its end is accepted when the number of literals fits; the 256th and
  257th weight are symbols 255 and 0 (`as u8`).
- gzip: without back-references the ISIZE is not checked; over-subscribed code
  lengths are accepted; `code + count` may overflow its `u16` then.
- Tarballs: an archive of exactly 8,192 members with its end marker is refused; an
  archive cut between members passes for whole; offsets of blocks of a nested
  archive are relative to it; a gzip member that holds no archive is kept as it
  is, and one that cannot be decompressed refuses the whole scan.

## Not modelled

- `src/detect.rs`: a comparison of the first bytes with constants, with no state.
- `src/lib.rs`: the enumerations of formats and of errors, and
  `bloom_from_literals`, which fills a filter of another crate.
- `IndexStats` and the formatting of errors: arithmetic over finished values.
- The `snap` and `flate2` crates are inputs: what they return, or that they fail.
- Checksums: LZ4's and Zstd's are skipped by the code, gzip's CRC is read and
  compared in the run of the member loop as a flag of the input.

## Plan

Done, in this order: the filter, the index, the four streams and `Extraction`,
`Lz4Block`, DEFLATE, the Zstd literals section, tarballs, gzip members put
together; then the proofs, of the filter and the index, of DEFLATE's reader and
limits, of the reversed reader, of `Extraction`, of `Lz4Block`, of the whole decoder
of Zstd literals, of tarballs, and of what DEFLATE decodes. What remains:

1. The refinement of `GzipStream` by `DeflateDecoder`, on top of `Follows`.
2. `DecodesSection`: that the encoder's tables and the decoder's agree, entry by
   entry, on top of `TablesSound`.
