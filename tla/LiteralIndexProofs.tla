------------------------- MODULE LiteralIndexProofs -------------------------
(***************************************************************************)
(* The index loses no occurrence: for every pattern, every block literals, *)
(* every sizing of the filters and every sequence of builder calls, the    *)
(* candidate blocks that verify are exactly those the pattern occurs in.   *)
(***************************************************************************)
EXTENDS LiteralIndex, SequenceTheorems, TLAPS

-----------------------------------------------------------------------------
\* Filters of legal sizes.

\* Clamping puts an integer between two bounds.
LEMMA ClampInRange ==
    ASSUME NEW v \in Int, NEW lo \in Int, NEW hi \in Int, lo <= hi
    PROVE  Clamp(v, lo, hi) \in lo..hi
BY DEF Clamp

\* Every probe of nth_hash lies below the modulus it is reduced by.
LEMMA ProbesInRange ==
    ASSUME NEW x \in Items, NEW k \in Nat, NEW m \in Nat \ {0}
    PROVE  Probes(x, k, m) \subseteq 0..(m - 1)
<1> SUFFICES ASSUME NEW n \in 0..(k - 1)
             PROVE  NthHash(Hash1(x), Hash2(x), n, m) \in 0..(m - 1)
  BY DEF Probes
<1>1. Hash1(x) \in Int /\ Hash2(x) \in Int
  BY HashesInRange, BloomConstants
<1>2. n * Hash2(x) \in Int
  BY <1>1
<1>3. (Hash1(x) + n * Hash2(x)) % HashModulus \in Int
  BY <1>1, <1>2, BloomConstants
<1> QED
  BY <1>3 DEF NthHash

\* An empty filter of legal sizes is a filter.
LEMMA EmptyFilterOK ==
    ASSUME NEW m \in Nat \ {0}, NEW k \in 1..MaxHashes
    PROVE  /\ FilterOK(EmptyFilter(m, k))
           /\ EmptyFilter(m, k).bits = {}
BY DEF FilterOK, Filters, EmptyFilter

\* with_params and new clamp whatever they are given to legal sizes.
LEMMA WithParamsOK ==
    ASSUME NEW bits \in Int, NEW hashes \in Int
    PROVE  FilterOK(WithParams(bits, hashes)) /\ WithParams(bits, hashes).bits = {}
<1>1. Clamp(bits, 1, MaxBloomBits) \in 1..MaxBloomBits
  BY BloomConstants, ClampInRange
<1>2. Clamp(hashes, 1, MaxHashes) \in 1..MaxHashes
  BY BloomConstants, ClampInRange
<1>3. Clamp(bits, 1, MaxBloomBits) \in Nat \ {0}
  BY <1>1
<1> QED
  BY <1>2, <1>3, EmptyFilterOK DEF WithParams

\* Every rate new clamps to has a size per item.
LEMMA BitsPerItemInt ==
    ASSUME NEW r \in 1..MaxRate
    PROVE  BitsPerItem[r] \in Int
<1>1. BitsPerItem[r] \in Nat
  BY BitsPerItemInRange
<1> QED
  BY <1>1

\* new makes a legal, empty filter of any item count and any rate, NaN too.
LEMMA NewFilterOK ==
    ASSUME NEW items \in Int, NEW rate \in Int
    PROVE  FilterOK(NewFilter(items, rate)) /\ NewFilter(items, rate).bits = {}
<1> DEFINE n == Larger(items, 1)
           p == IF rate = NaN THEN 100 ELSE Clamp(rate, 1, MaxRate)
           m == Clamp((n * BitsPerItem[p] + 999) \div 1000, MinAutoBits, MaxBloomBits)
           k == Clamp((2 * 693 * m + 1000 * n) \div (2000 * n), 1, MaxHashes)
<1>1. n \in Int /\ n >= 1
  BY DEF Larger
<1>2. p \in 1..MaxRate
  BY BloomConstants DEF Clamp
<1>3. BitsPerItem[p] \in Int
  <2> HIDE DEF p
  <2> QED
    BY <1>2, BitsPerItemInt
<1>4. n * BitsPerItem[p] \in Int
  BY <1>1, <1>3
<1>5. (n * BitsPerItem[p] + 999) \div 1000 \in Int
  <2> DEFINE t == n * BitsPerItem[p]
  <2> t \in Int
    BY <1>4
  <2> HIDE DEF t
  <2> (t + 999) \div 1000 \in Int
    OBVIOUS
  <2> QED
    BY DEF t
<1>6. m \in MinAutoBits..MaxBloomBits
  <2> DEFINE t == (n * BitsPerItem[p] + 999) \div 1000
  <2> t \in Int
    BY <1>5
  <2> HIDE DEF t
  <2> Clamp(t, MinAutoBits, MaxBloomBits) \in MinAutoBits..MaxBloomBits
    BY BloomConstants, ClampInRange
  <2> QED
    BY DEF t
<1>7. m \in Nat \ {0}
  BY <1>6, BloomConstants
<1>8. (2 * 693 * m + 1000 * n) \div (2000 * n) \in Int
  <2> HIDE DEF m, n
  <2>1. 2000 * n \in Nat \ {0}
    BY <1>1
  <2>2. 2 * 693 * m + 1000 * n \in Int
    BY <1>1, <1>7
  <2> QED
    BY <2>1, <2>2
<1>9. k \in 1..MaxHashes
  <2> DEFINE t == (2 * 693 * m + 1000 * n) \div (2000 * n)
  <2> t \in Int
    BY <1>8
  <2> HIDE DEF t
  <2> Clamp(t, 1, MaxHashes) \in 1..MaxHashes
    BY BloomConstants, ClampInRange
  <2> QED
    BY DEF t
<1>10. NewFilter(items, rate) = EmptyFilter(m, k)
  BY DEF NewFilter
<1> HIDE DEF m, k
<1> QED
  BY <1>7, <1>9, <1>10, EmptyFilterOK

-----------------------------------------------------------------------------
\* Windows.

\* The window of w bytes at position i of s, as a function.
LEMMA WindowIs ==
    ASSUME NEW s \in Seq(Byte), NEW w \in Nat, NEW i \in 1..(Len(s) - w + 1)
    PROVE  /\ SubSeq(s, i, i + w - 1) \in Seq(Byte)
           /\ SubSeq(s, i, i + w - 1) \in [1..w -> Byte]
           /\ Len(SubSeq(s, i, i + w - 1)) = w
           /\ \A j \in 1..w : SubSeq(s, i, i + w - 1)[j] = s[i + j - 1]
<1>1. i \in Nat /\ Len(s) \in Nat /\ i >= 1 /\ i + w - 1 <= Len(s)
  OBVIOUS
<1>2. SubSeq(s, i, i + w - 1) = [j \in 1..w |-> s[i + j - 1]]
  BY <1>1
<1>3. \A j \in 1..w : s[i + j - 1] \in Byte
  BY <1>1
<1>4. SubSeq(s, i, i + w - 1) \in [1..w -> Byte]
  BY <1>2, <1>3
<1>5. SubSeq(s, i, i + w - 1) \in Seq(Byte) /\ Len(SubSeq(s, i, i + w - 1)) = w
  BY <1>4
<1> QED
  BY <1>2, <1>4, <1>5

\* A string occurs in another exactly if it is one of its windows.
LEMMA OccursIsWindow ==
    ASSUME NEW s \in Seq(Byte), NEW p \in Seq(Byte), p # <<>>
    PROVE  Occurs(p, s) <=> (Len(p) <= Len(s) /\ p \in Windows(s, Len(p)))
<1>0. Len(p) \in Nat \ {0} /\ Len(s) \in Nat
  OBVIOUS
<1>1. ASSUME Occurs(p, s) PROVE Len(p) <= Len(s) /\ p \in Windows(s, Len(p))
  <2>1. PICK o \in 0..(Len(s) - Len(p)) : \A j \in 1..Len(p) : s[o + j] = p[j]
    BY <1>1 DEF Occurs
  <2> DEFINE i == o + 1
             q == SubSeq(s, i, i + Len(p) - 1)
  <2>2. i \in 1..(Len(s) - Len(p) + 1)
    BY <1>0
  <2>3. /\ q \in Seq(Byte) /\ Len(q) = Len(p)
        /\ \A j \in 1..Len(p) : q[j] = s[i + j - 1]
    BY <1>0, <2>2, WindowIs
  <2>4. \A j \in 1..Len(p) : q[j] = p[j]
    <3> HIDE DEF q
    <3> SUFFICES ASSUME NEW j \in 1..Len(p) PROVE q[j] = p[j]
      OBVIOUS
    <3>1. i + j - 1 = o + j
      BY <1>0
    <3> QED
      BY <2>1, <2>3, <3>1
  <2>5. p = SubSeq(s, i, i + Len(p) - 1)
    BY <2>3, <2>4, SeqEqual
  <2>6. Len(p) <= Len(s)
    BY <1>0
  <2>7. p \in Windows(s, Len(p))
    BY <2>2, <2>5 DEF Windows
  <2> QED
    BY <2>6, <2>7
<1>2. ASSUME Len(p) <= Len(s), p \in Windows(s, Len(p)) PROVE Occurs(p, s)
  <2>1. PICK i \in 1..(Len(s) - Len(p) + 1) : p = SubSeq(s, i, i + Len(p) - 1)
    BY <1>2 DEF Windows
  <2>2. \A j \in 1..Len(p) : p[j] = s[i + j - 1]
    BY <1>0, <2>1, WindowIs
  <2>3. i - 1 \in 0..(Len(s) - Len(p))
    BY <1>0
  <2>4. \A j \in 1..Len(p) : s[(i - 1) + j] = p[j]
    BY <1>0, <2>2
  <2> QED
    BY <2>3, <2>4 DEF Occurs
<1> QED
  BY <1>1, <1>2

\* What occurs in a part of a string occurs in the string: the windows of a
\* pattern are windows of every string it occurs in.
LEMMA WindowOfOccurrence ==
    ASSUME NEW s \in Seq(Byte), NEW p \in Seq(Byte), Occurs(p, s),
           NEW w \in Nat \ {0}, NEW g \in Windows(p, w)
    PROVE  g \in Windows(s, w)
<1>1. PICK i \in 1..(Len(p) - w + 1) : g = SubSeq(p, i, i + w - 1)
  BY DEF Windows
<1>2. PICK o \in 0..(Len(s) - Len(p)) : \A j \in 1..Len(p) : s[o + j] = p[j]
  BY DEF Occurs
<1>3. /\ g \in Seq(Byte) /\ Len(g) = w
      /\ \A j \in 1..w : g[j] = p[i + j - 1]
  BY <1>1, WindowIs
<1> DEFINE h == SubSeq(s, o + i, o + i + w - 1)
<1>4. Len(s) \in Nat /\ Len(p) \in Nat /\ o + i \in 1..(Len(s) - w + 1)
  OBVIOUS
<1>5. /\ h \in Seq(Byte) /\ Len(h) = w
      /\ \A j \in 1..w : h[j] = s[(o + i) + j - 1]
  BY <1>4, WindowIs
<1>6. \A j \in 1..w : h[j] = g[j]
  <2> SUFFICES ASSUME NEW j \in 1..w PROVE h[j] = g[j]
    OBVIOUS
  <2>1. i + j - 1 \in 1..Len(p)
    BY <1>4
  <2>2. s[o + (i + j - 1)] = p[i + j - 1]
    BY <1>2, <2>1
  <2>3. (o + i) + j - 1 = o + (i + j - 1)
    OBVIOUS
  <2> QED
    BY <1>3, <1>5, <2>2, <2>3
<1>7. h = g
  BY <1>3, <1>5, <1>6, SeqEqual
<1> QED
  BY <1>4, <1>7 DEF Windows

\* A function over 1..n is a sequence of length n.
LEMMA FunctionIsSeq ==
    ASSUME NEW T, NEW n \in Nat, NEW f \in [1..n -> T]
    PROVE  f \in Seq(T) /\ Len(f) = n
OBVIOUS

\* The windows of one to four bytes are items of the filters.
LEMMA GramsAreItems ==
    ASSUME NEW s \in Seq(Byte)
    PROVE  Grams(s) \subseteq Items
<1> SUFFICES ASSUME NEW w \in 1..MaxGram, NEW g \in Windows(s, w)
             PROVE  g \in Items
  BY DEF Grams
<1>1. PICK i \in 1..(Len(s) - w + 1) : g = SubSeq(s, i, i + w - 1)
  BY DEF Windows
<1>0. w \in Nat
  BY DEF MaxGram
<1>2. g \in [1..w -> Byte]
  BY <1>0, <1>1, WindowIs
<1>3. w \in 0..MaxGram
  BY DEF MaxGram
<1> QED
  BY <1>2, <1>3, ItemsAreGrams

-----------------------------------------------------------------------------
\* Blocks.

\* A block is indexed when its filter is legal and answers "true" for every
\* window of one to four bytes of its literals.
Indexed(b) ==
    /\ b.literals \in Seq(Byte)
    /\ b.bloom \in Filters
    /\ FilterOK(b.bloom)
    /\ \A g \in Grams(b.literals) : MayContain(b.bloom, g)

\* Filling a legal filter with the windows of some literals indexes them.
LEMMA InsertGramsIndexes ==
    ASSUME NEW f, FilterOK(f), NEW s \in Seq(Byte)
    PROVE  Indexed([literals |-> s, bloom |-> InsertGrams(f, s)])
<1>1. \A g \in Grams(s) : Probes(g, f.num_hashes, f.num_bits) \subseteq 0..(f.num_bits - 1)
  BY GramsAreItems, ProbesInRange DEF FilterOK, Filters
<1>2. FilterOK(InsertGrams(f, s))
  BY <1>1 DEF InsertGrams, FilterOK, Filters
<1>3. \A g \in Grams(s) : MayContain(InsertGrams(f, s), g)
  BY DEF InsertGrams, MayContain
<1> QED
  BY <1>2, <1>3 DEF Indexed, FilterOK

\* What the options hold are numbers.
LEMMA OptionValues ==
    ASSUME OptsOK, NEW d \in Int
    PROVE  /\ UnwrapOr(opts.num_bits, d) \in Int
           /\ UnwrapOr(opts.num_hashes, d) \in Int
           /\ UnwrapOr(opts.expected_items, d) \in Int
           /\ opts.expected_items # None => UnwrapOr(opts.expected_items, d) \in Nat
           /\ UnwrapOr(opts.rate, d) \in Int
BY IndexConstants DEF OptsOK, Option, Some, None, UnwrapOr

\* Both builders index a block, however it is sized.
LEMMA StreamBlockIndexed ==
    ASSUME OptsOK, NEW s \in Seq(Byte)
    PROVE  Indexed(StreamBlock(opts, s)) /\ StreamBlock(opts, s).literals = s
<1>1. Larger(Len(s), 16) \in Int
  BY DEF Larger
<1>2. UnwrapOr(opts.expected_items, Larger(Len(s), 16)) \in Int
  BY <1>1, OptionValues
<1>3. Larger(UnwrapOr(opts.expected_items, Larger(Len(s), 16)), 16) \in Int
  BY <1>2 DEF Larger
<1>4. FilterOK(NewFilter(Larger(UnwrapOr(opts.expected_items, Larger(Len(s), 16)), 16),
                         UnwrapOr(opts.rate, 100)))
  BY <1>3, OptionValues, NewFilterOK
<1>5. FilterOK(WithParams(UnwrapOr(opts.num_bits, 1), UnwrapOr(opts.num_hashes, 1)))
  BY OptionValues, WithParamsOK
<1> QED
  BY <1>4, <1>5, InsertGramsIndexes DEF StreamBlock

\* build_block_with_bloom of the batch builder indexes the block it is given.
LEMMA BatchBlockIndexed ==
    ASSUME OptsOK, NEW s \in Seq(Byte), NEW n \in Nat \ {0}
    PROVE  Indexed(BatchBlock(opts, s, n)) /\ BatchBlock(opts, s, n).literals = s
<1> DEFINE items == IF opts.expected_items = None
                    THEN Larger(Len(s), 16)
                    ELSE UnwrapOr(opts.expected_items, 0) \div n
<1>1. items \in Int
  BY OptionValues DEF Larger
<1>2. Larger(items, 16) \in Int
  BY <1>1 DEF Larger
<1>3. FilterOK(NewFilter(Larger(items, 16), UnwrapOr(opts.rate, 100)))
  BY <1>2, OptionValues, NewFilterOK
<1>4. FilterOK(WithParams(UnwrapOr(opts.num_bits, 1), UnwrapOr(opts.num_hashes, 1)))
  BY OptionValues, WithParamsOK
<1> QED
  BY <1>3, <1>4, InsertGramsIndexes DEF BatchBlock

\* An indexed block is a candidate for every pattern that occurs in it.
LEMMA IndexedMightContain ==
    ASSUME NEW b, Indexed(b), NEW p \in Seq(Byte), p # <<>>, Occurs(p, b.literals)
    PROVE  PatternMightContain(b.bloom, p)
<1>1. Len(p) \in Nat \ {0} /\ b.literals \in Seq(Byte)
  BY DEF Indexed
<1>2. CASE Len(p) <= MaxGram
  <2>1. p \in Windows(b.literals, Len(p))
    BY <1>1, OccursIsWindow
  <2>2. p \in Grams(b.literals)
    BY <1>1, <1>2, <2>1 DEF Grams, MaxGram
  <2> QED
    BY <1>2, <2>2 DEF PatternMightContain, Indexed
<1>3. CASE ~(Len(p) <= MaxGram)
  <2>1. \A g \in Windows(p, MaxGram) : g \in Windows(b.literals, MaxGram)
    BY <1>1, WindowOfOccurrence DEF MaxGram
  <2>2. \A g \in Windows(p, MaxGram) : g \in Grams(b.literals)
    BY <2>1 DEF Grams, MaxGram
  <2> QED
    BY <1>3, <2>2 DEF PatternMightContain, Indexed
<1> QED
  BY <1>2, <1>3

-----------------------------------------------------------------------------
(***************************************************************************)
(* The inductive invariant: what the queries need is that each block is    *)
(* indexed; what keeps it is that the options stay well formed, whenever   *)
(* they are set.                                                           *)
(***************************************************************************)
IInv ==
    /\ TypeOK
    /\ \A i \in DOMAIN blocks : Indexed(blocks[i])
    /\ OnlyAcceptedBlocks
    /\ WithinBlockLimit

\* A streamed block keeps its literals beside a filter.
LEMMA StreamBlockType ==
    ASSUME OptsOK, NEW s \in Seq(Byte)
    PROVE  StreamBlock(opts, s) \in BlockType
BY StreamBlockIndexed DEF StreamBlock, BlockType, Indexed

\* So does a block of the batch builder.
LEMMA BatchBlockType ==
    ASSUME OptsOK, NEW s \in Seq(Byte), NEW n \in Nat \ {0}
    PROVE  BatchBlock(opts, s, n) \in BlockType
BY BatchBlockIndexed DEF BatchBlock, BlockType, Indexed

\* At the start there is no block.
THEOREM InitInv == Init => IInv
<1> SUFFICES ASSUME Init PROVE IInv
  OBVIOUS
<1> USE DEF Init
<1>1. TypeOK
  <2>1. OptsOK
    BY DEF OptsOK, NoOptions, Option
  <2>2. blocks \in Seq(BlockType) /\ accepted \in Seq(Seq(Byte))
    OBVIOUS
  <2>3. DOMAIN blocks = {}
    OBVIOUS
  <2> QED
    BY <2>1, <2>2, <2>3 DEF TypeOK
<1>2. OnlyAcceptedBlocks /\ WithinBlockLimit
  BY IndexConstants DEF OnlyAcceptedBlocks, WithinBlockLimit
<1> QED
  BY <1>1, <1>2 DEF IInv

\* Setting options disturbs nothing but the options.
LEMMA SetKeeps ==
    ASSUME IInv, NEW o, Set(o),
           o \in [num_bits : Option(BitCounts), num_hashes : Option(HashCounts),
                  expected_items : Option(ItemCounts), rate : Option(Rates)]
    PROVE  IInv'
<1> USE DEF Set
<1>1. TypeOK'
  BY DEF IInv, TypeOK, OptsOK
<1>2. OnlyAcceptedBlocks' /\ WithinBlockLimit'
  BY DEF IInv, OnlyAcceptedBlocks, WithinBlockLimit
<1>3. \A i \in DOMAIN blocks' : Indexed(blocks'[i])
  BY DEF IInv
<1> QED
  BY <1>1, <1>2, <1>3 DEF IInv

\* Appending the blocks of an accepted chunk keeps every block indexed.
LEMMA AppendKeeps ==
    ASSUME IInv, NEW lits \in Seq(Seq(Byte))
    PROVE  /\ blocks \o StreamBlocks(lits) \in Seq(BlockType)
           /\ accepted \o lits \in Seq(Seq(Byte))
           /\ Len(blocks \o StreamBlocks(lits)) = Len(blocks) + Len(lits)
           /\ Len(accepted \o lits) = Len(accepted) + Len(lits)
           /\ \A i \in 1..(Len(blocks) + Len(lits)) :
                 /\ Indexed((blocks \o StreamBlocks(lits))[i])
                 /\ (blocks \o StreamBlocks(lits))[i].literals = (accepted \o lits)[i]
<1> DEFINE new == StreamBlocks(lits)
<1>0. OptsOK /\ blocks \in Seq(BlockType) /\ accepted \in Seq(Seq(Byte))
  BY DEF IInv, TypeOK
<1>1. new = [i \in 1..Len(lits) |-> StreamBlock(opts, lits[i])]
  BY DEF StreamBlocks
<1>2. \A i \in 1..Len(lits) : StreamBlock(opts, lits[i]) \in BlockType
  BY <1>0, StreamBlockType
<1>3. new \in [1..Len(lits) -> BlockType]
  BY <1>1, <1>2
<1>4. new \in Seq(BlockType) /\ Len(new) = Len(lits)
  <2> HIDE DEF new
  <2>1. Len(lits) \in Nat
    OBVIOUS
  <2> QED
    BY <1>3, <2>1, FunctionIsSeq
<1>5. \A i \in 1..Len(lits) : Indexed(new[i]) /\ new[i].literals = lits[i]
  BY <1>0, <1>1, StreamBlockIndexed
<1> HIDE DEF new
<1>6. /\ blocks \o new \in Seq(BlockType)
      /\ Len(blocks \o new) = Len(blocks) + Len(lits)
      /\ \A i \in 1..(Len(blocks) + Len(lits)) :
           (blocks \o new)[i] = IF i <= Len(blocks) THEN blocks[i] ELSE new[i - Len(blocks)]
  <2>1. /\ blocks \o new \in Seq(BlockType)
        /\ Len(blocks \o new) = Len(blocks) + Len(new)
        /\ \A i \in 1..(Len(blocks) + Len(new)) :
             (blocks \o new)[i] = IF i <= Len(blocks) THEN blocks[i] ELSE new[i - Len(blocks)]
    BY <1>0, <1>4, ConcatProperties
  <2> QED
    BY <1>4, <2>1
<1>7. /\ accepted \o lits \in Seq(Seq(Byte))
      /\ Len(accepted \o lits) = Len(accepted) + Len(lits)
      /\ \A i \in 1..(Len(accepted) + Len(lits)) :
           (accepted \o lits)[i] = IF i <= Len(accepted) THEN accepted[i]
                                   ELSE lits[i - Len(accepted)]
  BY <1>0, ConcatProperties
<1>8. /\ Len(blocks) = Len(accepted)
      /\ \A i \in 1..Len(blocks) : Indexed(blocks[i]) /\ blocks[i].literals = accepted[i]
  <2>1. DOMAIN blocks = 1..Len(blocks)
    BY <1>0
  <2>2. /\ \A i \in DOMAIN blocks : Indexed(blocks[i])
        /\ OnlyAcceptedBlocks
    BY DEF IInv
  <2> QED
    BY <2>1, <2>2 DEF OnlyAcceptedBlocks
<1>9. ASSUME NEW i \in 1..(Len(blocks) + Len(lits))
      PROVE  /\ Indexed((blocks \o new)[i])
             /\ (blocks \o new)[i].literals = (accepted \o lits)[i]
  <2>1. CASE i <= Len(blocks)
    <3>1. i \in 1..Len(blocks)
      BY <2>1, <1>0
    <3>2. (blocks \o new)[i] = blocks[i] /\ (accepted \o lits)[i] = accepted[i]
      BY <2>1, <1>0, <1>6, <1>7, <1>8
    <3> QED
      BY <3>1, <3>2, <1>8
  <2>2. CASE ~(i <= Len(blocks))
    <3> DEFINE k == i - Len(blocks)
    <3>1. k \in 1..Len(lits)
      BY <2>2, <1>0
    <3>2. (blocks \o new)[i] = new[k] /\ (accepted \o lits)[i] = lits[k]
      BY <2>2, <1>0, <1>6, <1>7, <1>8
    <3>3. Indexed(new[k]) /\ new[k].literals = lits[k]
      <4> HIDE DEF k
      <4> QED
        BY <3>1, <1>5
    <3> QED
      BY <3>2, <3>3
  <2> QED
    BY <2>1, <2>2, <1>0
<1> QED
  BY <1>6, <1>7, <1>9 DEF new

\* The index of one call holds exactly the blocks it was given, all indexed.
LEMMA BatchIndexOK ==
    ASSUME OptsOK, NEW lits \in Seq(Seq(Byte))
    PROVE  /\ BatchIndex(opts, lits) \in Seq(BlockType)
           /\ Len(BatchIndex(opts, lits)) = Len(lits)
           /\ \A i \in 1..Len(lits) :
                 /\ Indexed(BatchIndex(opts, lits)[i])
                 /\ BatchIndex(opts, lits)[i].literals = lits[i]
<1> DEFINE n == Larger(Len(lits), 1)
<1>1. n \in Nat \ {0}
  BY DEF Larger
<1> HIDE DEF n
<1>2. BatchIndex(opts, lits) = [i \in 1..Len(lits) |-> BatchBlock(opts, lits[i], n)]
  BY DEF BatchIndex, n
<1>3. \A i \in 1..Len(lits) : BatchBlock(opts, lits[i], n) \in BlockType
  BY <1>1, BatchBlockType
<1>4. \A i \in 1..Len(lits) : /\ Indexed(BatchBlock(opts, lits[i], n))
                              /\ BatchBlock(opts, lits[i], n).literals = lits[i]
  BY <1>1, BatchBlockIndexed
<1>5. BatchIndex(opts, lits) \in [1..Len(lits) -> BlockType]
  BY <1>2, <1>3
<1>6. BatchIndex(opts, lits) \in Seq(BlockType) /\ Len(BatchIndex(opts, lits)) = Len(lits)
  <2>1. Len(lits) \in Nat
    OBVIOUS
  <2> QED
    BY <1>5, <2>1, FunctionIsSeq
<1> QED
  BY <1>2, <1>4, <1>6

\* Every call keeps the invariant, whether it succeeds or fails.
THEOREM StepInv == IInv /\ [Next]_vars => IInv'
<1> SUFFICES ASSUME IInv, [Next]_vars PROVE IInv'
  OBVIOUS
<1>0. TypeOK /\ OptsOK
  BY DEF IInv, TypeOK
<1>1. CASE SetExpectedItems
  BY <1>1, <1>0, SetKeeps DEF SetExpectedItems, OptsOK, Option, Some
<1>2. CASE SetRate
  BY <1>2, <1>0, SetKeeps DEF SetRate, OptsOK, Option, Some
<1>3. CASE SetBloomBits
  BY <1>3, <1>0, SetKeeps DEF SetBloomBits, OptsOK, Option, Some
<1>4. CASE SetBloomHashes
  BY <1>4, <1>0, SetKeeps DEF SetBloomHashes, OptsOK, Option, Some
<1>5. ASSUME NEW lits \in ChunkLiterals, BuildFromBytes(lits) PROVE IInv'
  <2>0. lits \in Seq(Seq(Byte))
    BY IndexConstants
  <2>1. TypeOK'
    <3>1. blocks' \in Seq(BlockType) /\ \A i \in DOMAIN blocks' : FilterOK(blocks'[i].bloom)
      BY <1>5, <1>0, <2>0, BatchIndexOK DEF BuildFromBytes, Indexed
    <3>2. /\ builder' = "done" /\ opts' = opts /\ outcome' = "ok"
          /\ accepted' \in Seq(Seq(Byte)) /\ resized' = resized
      BY <1>5, <2>0 DEF BuildFromBytes
    <3> QED
      BY <1>0, <3>1, <3>2 DEF TypeOK, OptsOK
  <2>2. OnlyAcceptedBlocks' /\ WithinBlockLimit'
    BY <1>5, <1>0, <2>0, BatchIndexOK, SMTT(30) DEF BuildFromBytes, OnlyAcceptedBlocks, WithinBlockLimit
  <2>3. \A i \in DOMAIN blocks' : Indexed(blocks'[i])
    BY <1>5, <1>0, <2>0, BatchIndexOK DEF BuildFromBytes
  <2> QED
    BY <2>1, <2>2, <2>3 DEF IInv
<1>6. ASSUME NEW lits \in ChunkLiterals, ProcessChunk(lits) PROVE IInv'
  <2>0. lits \in Seq(Seq(Byte))
    BY IndexConstants
  <2>1. CASE Len(blocks) + Len(lits) > MaxStreamingBlocks
    <3>1. UNCHANGED <<blocks, accepted, builder, opts, resized>> /\ outcome' = "too_many_blocks"
      BY <1>6, <2>1 DEF ProcessChunk
    <3> QED
      BY <3>1 DEF IInv, TypeOK, OptsOK, OnlyAcceptedBlocks, WithinBlockLimit
  <2>2. CASE ~(Len(blocks) + Len(lits) > MaxStreamingBlocks)
    <3>1. /\ blocks' = blocks \o StreamBlocks(lits) /\ accepted' = accepted \o lits
          /\ outcome' = "ok" /\ UNCHANGED <<builder, opts, resized>>
      BY <1>6, <2>2 DEF ProcessChunk
    <3>2. Len(blocks) \in Nat /\ Len(lits) \in Nat
      BY <2>0 DEF IInv, TypeOK
    <3>3. /\ blocks' \in Seq(BlockType) /\ accepted' \in Seq(Seq(Byte))
          /\ Len(blocks') = Len(blocks) + Len(lits)
          /\ Len(accepted') = Len(accepted) + Len(lits)
          /\ \A i \in 1..(Len(blocks) + Len(lits)) :
               Indexed(blocks'[i]) /\ blocks'[i].literals = accepted'[i]
      BY <3>1, <2>0, AppendKeeps
    <3>4. DOMAIN blocks' = 1..(Len(blocks) + Len(lits))
      BY <3>3
    <3>5. TypeOK'
      BY <3>1, <3>3, <3>4, <1>0 DEF TypeOK, OptsOK, Indexed
    <3>6. Len(blocks) = Len(accepted)
      BY DEF IInv, OnlyAcceptedBlocks
    <3>7. OnlyAcceptedBlocks'
      BY <3>3, <3>4, <3>6 DEF OnlyAcceptedBlocks
    <3>8. WithinBlockLimit'
      BY <2>2, <3>2, <3>3, IndexConstants DEF WithinBlockLimit
    <3> QED
      BY <3>3, <3>4, <3>5, <3>7, <3>8 DEF IInv
  <2> QED
    BY <2>1, <2>2
<1>7. CASE BuildFromBytesFails
  BY <1>7 DEF BuildFromBytesFails, IInv, TypeOK, OptsOK, OnlyAcceptedBlocks, WithinBlockLimit
<1>8. CASE ProcessChunkFails
  BY <1>8 DEF ProcessChunkFails, IInv, TypeOK, OptsOK, OnlyAcceptedBlocks, WithinBlockLimit
<1>9. CASE Finalize
  BY <1>9 DEF Finalize, IInv, TypeOK, OptsOK, OnlyAcceptedBlocks, WithinBlockLimit
<1>10. CASE UNCHANGED vars
  BY <1>10 DEF vars, IInv, TypeOK, OptsOK, OnlyAcceptedBlocks, WithinBlockLimit
<1> QED
  BY <1>1, <1>2, <1>3, <1>4, <1>5, <1>6, <1>7, <1>8, <1>9, <1>10 DEF Next

\* The inductive invariant holds throughout every behaviour.
THEOREM Invariance == Spec => []IInv
BY InitInv, StepInv, PTL DEF Spec

\* Filters stay legal under any sequence of settings and chunks.
THEOREM TypeCorrect == Spec => []TypeOK
<1>1. IInv => TypeOK
  BY DEF IInv
<1> QED
  BY <1>1, Invariance, PTL

\* A refused chunk leaves no block behind, an accepted one leaves all of its.
THEOREM OnlyAcceptedBlocksCorrect == Spec => []OnlyAcceptedBlocks
<1>1. IInv => OnlyAcceptedBlocks
  BY DEF IInv
<1> QED
  BY <1>1, Invariance, PTL

\* The streaming builder respects its limit.
THEOREM WithinBlockLimitCorrect == Spec => []WithinBlockLimit
<1>1. IInv => WithinBlockLimit
  BY DEF IInv
<1> QED
  BY <1>1, Invariance, PTL

\* An indexed set of blocks is scanned exactly.
LEMMA IndexedScansExactly == IInv => ScanFindsExactly
<1> SUFFICES ASSUME IInv, NEW p \in Patterns, NEW i \in DOMAIN blocks
             PROVE  (i \in CandidateBlocks(p) /\ VerifyContains(blocks[i], p))
                       <=> Occurs(p, blocks[i].literals)
  <2>1. ASSUME NEW q \in Patterns, NEW candidates \in Searches(q)
        PROVE  candidates = CandidateBlocks(q)
    BY DEF Searches, CandidateBlocks, CandidateBlocksIter
  <2>2. ASSUME NEW q \in Patterns PROVE CandidateBlocks(q) \subseteq DOMAIN blocks
    BY DEF CandidateBlocks
  <2> QED
    BY <2>1, <2>2 DEF ScanFindsExactly
<1>1. /\ Indexed(blocks[i]) /\ blocks[i].literals \in Seq(Byte) /\ p \in Seq(Byte)
  BY IndexConstants DEF IInv, Indexed
<1>2. CASE p = <<>>
  <2>1. Len(p) = 0
    BY <1>2
  <2>2. 0 \in 0..(Len(blocks[i].literals) - Len(p))
    BY <1>1, <2>1
  <2>3. Occurs(p, blocks[i].literals)
    BY <2>1, <2>2 DEF Occurs
  <2> QED
    BY <1>2, <2>3 DEF CandidateBlocks, VerifyContains
<1>3. CASE p # <<>>
  BY <1>1, <1>3, OccursIsWindow, IndexedMightContain DEF CandidateBlocks, VerifyContains
<1> QED
  BY <1>2, <1>3

\* The search over the index finds exactly the blocks a pattern occurs in,
\* for every content, every sizing and every pattern.
THEOREM ScanFindsExactlyCorrect == Spec => []ScanFindsExactly
BY IndexedScansExactly, Invariance, PTL

-----------------------------------------------------------------------------
(***************************************************************************)
(* Streaming and batch agree.                                              *)
(***************************************************************************)

\* Without an expected item count to share out, the two copies of
\* build_block_with_bloom size and fill a block alike.
LEMMA SameBlock ==
    ASSUME NEW s \in Seq(Byte), NEW n, opts.expected_items = None
    PROVE  StreamBlock(opts, s) = BatchBlock(opts, s, n)
BY DEF StreamBlock, BatchBlock, UnwrapOr

\* No block of the batch index depends on the others then.
LEMMA BatchIndexAt ==
    ASSUME NEW lits \in Seq(Seq(Byte)), opts.expected_items = None
    PROVE  BatchIndex(opts, lits) = [i \in 1..Len(lits) |-> StreamBlock(opts, lits[i])]
<1>1. \A i \in 1..Len(lits) : StreamBlock(opts, lits[i]) = BatchBlock(opts, lits[i], Larger(Len(lits), 1))
  BY SameBlock
<1> QED
  BY <1>1 DEF BatchIndex

\* Indexing the chunks one behind the other is indexing what they make together.
LEMMA BatchIndexOfBoth ==
    ASSUME NEW first \in Seq(Seq(Byte)), NEW more \in Seq(Seq(Byte)), opts.expected_items = None
    PROVE  BatchIndex(opts, first \o more) = BatchIndex(opts, first) \o StreamBlocks(more)
<1> DEFINE all == first \o more
           b == [i \in 1..Len(first) |-> StreamBlock(opts, first[i])]
           c == [i \in 1..Len(more) |-> StreamBlock(opts, more[i])]
           T == {StreamBlock(opts, s) : s \in Seq(Byte)}
<1>1. Len(first) \in Nat /\ Len(more) \in Nat /\ all \in Seq(Seq(Byte)) /\ Len(all) = Len(first) + Len(more)
  OBVIOUS
<1>2. BatchIndex(opts, all) = [i \in 1..Len(all) |-> StreamBlock(opts, all[i])] /\ BatchIndex(opts, first) = b
  BY <1>1, BatchIndexAt
<1>3. StreamBlocks(more) = c
  BY DEF StreamBlocks
<1>4. b \in Seq(T) /\ c \in Seq(T) /\ Len(b) = Len(first) /\ Len(c) = Len(more)
  <2>1. b \in [1..Len(first) -> T]
    <3> SUFFICES ASSUME NEW i \in 1..Len(first) PROVE StreamBlock(opts, first[i]) \in T
      OBVIOUS
    <3>1. first[i] \in Seq(Byte)
      BY <1>1, ElementOfSeq
    <3> QED
      BY <3>1
  <2>2. c \in [1..Len(more) -> T]
    <3> SUFFICES ASSUME NEW i \in 1..Len(more) PROVE StreamBlock(opts, more[i]) \in T
      OBVIOUS
    <3>1. more[i] \in Seq(Byte)
      BY <1>1, ElementOfSeq
    <3> QED
      BY <3>1
  <2> HIDE DEF b, c, T
  <2> QED
    BY <1>1, <2>1, <2>2, FunctionIsSeq
<1> DEFINE d == [i \in 1..Len(all) |-> StreamBlock(opts, all[i])]
<1>5. d \in Seq(T) /\ Len(d) = Len(first) + Len(more)
  <2>1. d \in [1..Len(all) -> T]
    <3> SUFFICES ASSUME NEW i \in 1..Len(all) PROVE StreamBlock(opts, all[i]) \in T
      OBVIOUS
    <3>1. all[i] \in Seq(Byte)
      BY <1>1, ElementOfSeq
    <3> QED
      BY <3>1
  <2>2. Len(all) \in Nat
    BY <1>1
  <2> HIDE DEF d, T, all
  <2> QED
    BY <1>1, <2>1, <2>2, FunctionIsSeq
<1>6. \A i \in 1..(Len(first) + Len(more)) : d[i] = IF i <= Len(first) THEN b[i] ELSE c[i - Len(first)]
  <2> TAKE i \in 1..(Len(first) + Len(more))
  <2>1. CASE i <= Len(first)
    BY <1>1, <2>1
  <2>2. CASE ~(i <= Len(first))
    <3>1. all[i] = more[i - Len(first)] /\ i - Len(first) \in 1..Len(more)
      BY <1>1, <2>2
    <3> QED
      BY <1>1, <2>2, <3>1
  <2> QED
    BY <2>1, <2>2
<1> HIDE DEF b, c, d, T
<1>7. /\ b \o c \in Seq(T) /\ Len(b \o c) = Len(first) + Len(more)
      /\ \A i \in 1..(Len(first) + Len(more)) :
            (b \o c)[i] = IF i <= Len(first) THEN b[i] ELSE c[i - Len(first)]
  <2>1. /\ b \o c \in Seq(T) /\ Len(b \o c) = Len(b) + Len(c)
        /\ \A i \in 1..(Len(b) + Len(c)) : (b \o c)[i] = IF i <= Len(b) THEN b[i] ELSE c[i - Len(b)]
    BY <1>4, ConcatProperties, Zenon
  <2> QED
    BY <1>4, <2>1, Zenon
<1>8. BatchIndex(opts, all) = d
  BY <1>2 DEF d
<1> HIDE DEF all
<1>9. d = b \o c
  <2>1. Len(d) = Len(b \o c) /\ \A i \in 1..Len(d) : d[i] = (b \o c)[i]
    BY <1>5, <1>6, <1>7
  <2> QED
    BY <1>5, <1>7, <2>1, SeqEqual
<1> QED
  BY <1>2, <1>3, <1>8, <1>9 DEF all

\* Every call keeps the agreement: a setter between two chunks is remembered,
\* one before the first finds nothing indexed yet.
LEMMA StepMatches ==
    ASSUME IInv, StreamingMatchesBatch, [Next]_vars
    PROVE  StreamingMatchesBatch'
<1>0. /\ OptsOK /\ accepted \in Seq(Seq(Byte)) /\ blocks \in Seq(BlockType)
      /\ Len(blocks) = Len(accepted)
  BY DEF IInv, TypeOK, OnlyAcceptedBlocks
<1>1. ASSUME NEW o, Set(o) PROVE StreamingMatchesBatch'
  <2> SUFFICES ASSUME ~resized', opts'.expected_items = None
               PROVE  blocks' = BatchIndex(opts', accepted')
    BY DEF StreamingMatchesBatch
  <2>1. blocks = <<>> /\ blocks' = blocks /\ accepted' = accepted
    BY <1>1 DEF Set
  <2>2. Len(accepted) = 0
    BY <1>0, <2>1
  <2>3. BatchIndex(opts', accepted) = [i \in 1..0 |-> BatchBlock(opts', accepted[i], Larger(0, 1))]
    BY <2>2 DEF BatchIndex
  <2> QED
    BY <2>1, <2>3
<1>2. CASE SetExpectedItems \/ SetRate \/ SetBloomBits \/ SetBloomHashes
  BY <1>1, <1>2 DEF SetExpectedItems, SetRate, SetBloomBits, SetBloomHashes
<1>3. ASSUME NEW lits \in ChunkLiterals, BuildFromBytes(lits) PROVE StreamingMatchesBatch'
  BY <1>3 DEF BuildFromBytes, StreamingMatchesBatch
<1>4. ASSUME NEW lits \in ChunkLiterals, ProcessChunk(lits) PROVE StreamingMatchesBatch'
  <2>1. CASE UNCHANGED <<blocks, accepted>>
    BY <1>4, <2>1 DEF ProcessChunk, StreamingMatchesBatch
  <2>2. CASE blocks' = blocks \o StreamBlocks(lits) /\ accepted' = accepted \o lits
    <3>1. lits \in Seq(Seq(Byte)) /\ UNCHANGED <<opts, resized>>
      BY <1>4, IndexConstants DEF ProcessChunk
    <3>2. opts.expected_items = None =>
            BatchIndex(opts, accepted \o lits) = BatchIndex(opts, accepted) \o StreamBlocks(lits)
      BY <1>0, <3>1, BatchIndexOfBoth
    <3> QED
      BY <2>2, <3>1, <3>2 DEF StreamingMatchesBatch
  <2> QED
    BY <1>4, <2>1, <2>2 DEF ProcessChunk
<1>5. CASE BuildFromBytesFails \/ ProcessChunkFails \/ Finalize \/ UNCHANGED vars
  BY <1>5 DEF BuildFromBytesFails, ProcessChunkFails, Finalize, vars, StreamingMatchesBatch
<1> QED
  BY <1>2, <1>3, <1>4, <1>5 DEF Next

\* A stream indexed chunk by chunk has the index one call over the same blocks
\* gives, for every content, every chunking and every sizing that stays put.
THEOREM StreamingMatchesBatchCorrect == Spec => []StreamingMatchesBatch
<1>1. Init => StreamingMatchesBatch
  <2> SUFFICES ASSUME Init PROVE blocks = BatchIndex(opts, accepted)
    BY DEF StreamingMatchesBatch
  <2>1. Len(accepted) = 0 /\ blocks = <<>>
    BY DEF Init
  <2>2. BatchIndex(opts, accepted) = [i \in 1..0 |-> BatchBlock(opts, accepted[i], Larger(0, 1))]
    BY <2>1 DEF BatchIndex
  <2> QED
    BY <2>1, <2>2
<1>2. IInv /\ StreamingMatchesBatch /\ [Next]_vars => StreamingMatchesBatch'
  BY StepMatches
<1> QED
  BY <1>1, <1>2, Invariance, PTL DEF Spec

=============================================================================
