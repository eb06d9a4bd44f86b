---------------------------- MODULE ZstdLiterals ----------------------------
(***************************************************************************)
(* zstd::decoder::extract_literals_from_block and zstd::huffman: the       *)
(* literals section at the head of a compressed block.  One action is one  *)
(* pass of a loop of the code, or what stands between two loops.           *)
(*                                                                         *)
(* "phase" says which: "section", its header; "tree", the first byte of    *)
(* the tree description; "probabilities" and "zeros", the distribution of  *)
(* the weights; "weights"; "table"; "streams" and "symbols".               *)
(***************************************************************************)
EXTENDS ZstdHuffman, ZstdLiteralsFormat

CONSTANTS
    Sources,         \* [lits, section, rest]: sections, and what is behind them
    Arbitrary,       \* byte strings nobody encoded, as bits
    MaxLiterals,     \* 128 KiB
    MaxAccuracyLog,  \* 6
    MaxWeights       \* 255

ByteStrings == {d \in Seq(Bit) : Len(d) % 8 = 0}

\* Of two weights at a time an odd number is exceeded by one, and as many weights
\* as are written plainly do not exceed it.
ASSUME LiteralsConstants ==
    /\ \A s \in Sources : s.section \in ByteStrings /\ s.rest \in ByteStrings
    /\ Arbitrary \subseteq ByteStrings
    /\ {MaxLiterals, MaxAccuracyLog, MaxWeights} \subseteq Nat
    /\ MaxWeights % 2 = 1 /\ MaxWeights >= 127
    /\ MaxAccuracyLog + 7 <= WordBits /\ MaxMaxNumBits + 7 <= WordBits

VARIABLES
    source,   \* ghost: what was encoded, as a set of one, or none
    data,
    status,   \* "running", "ok" or "error"
    phase,
    section,  \* [size, body, streams]: the literals, the coded bits, 1 or 4
    fse,      \* [log, probs, at, decode], "at" a bit of the body
    reader,   \* [bits, r]: a string that is read backwards, and its reader
    states,   \* of the two FSE decoders, or of the Huffman decoder
    weights,
    tree,     \* [used, max, decode]: its bytes, and the table
    streams,  \* the bits of those that are not begun
    out

vars == <<source, data, status, phase, section, fse, reader, states, weights, tree, streams, out>>

-----------------------------------------------------------------------------
(* The header of the section.                                              *)

Type == ValueOf(SubSeq(data, 1, 2))
SizeFormat == ValueOf(SubSeq(data, 3, 4))

\* read_raw_rle_size and read_compressed_size: the bytes of the header, and the
\* bits in which it gives the two sizes.
Layout(type, format) ==
    IF type \in {0, 1}
    THEN CASE format \in {0, 2} -> [bytes |-> 1, size |-> <<4, 8>>]
           [] format = 1        -> [bytes |-> 2, size |-> <<5, 16>>]
           [] format = 3        -> [bytes |-> 3, size |-> <<5, 24>>]
    ELSE CASE format \in {0, 1} -> [bytes |-> 3, size |-> <<5, 14>>, coded |-> <<15, 24>>]
           [] format = 2        -> [bytes |-> 4, size |-> <<5, 18>>, coded |-> <<19, 32>>]
           [] format = 3        -> [bytes |-> 5, size |-> <<5, 22>>, coded |-> <<23, 40>>]

Field(range) == ValueOf(SubSeq(data, range[1], range[2]))
BytesOf(bits) == [i \in 1..(Len(bits) \div 8) |-> ValueOf(SubSeq(bits, 8 * i - 7, 8 * i))]

\* The header as it stands there whole; a treeless section is refused.
Headers ==
    {h \in IF Len(data) > 0 THEN {Layout(Type, SizeFormat)} ELSE {} : Type # 3 /\ 8 * h.bytes <= Len(data)}

\* What stands in the section as it is.
Plain ==
    IF Len(data) = 0 THEN {<<>>}
    ELSE UNION {
        LET size == Field(h.size)
            raw == BitsAt(data, 8 * h.bytes, 8 * size)
        IN  CASE Type = 0 -> {BytesOf(bits) : bits \in raw}
              [] Type = 1 -> {[i \in 1..size |-> ValueOf(bits)] : bits \in BitsAt(data, 8 * h.bytes, 8)}
              [] Type = 2 /\ Field(h.coded) = 0 -> {BytesOf(bits) : bits \in raw}
              [] OTHER    -> {} : h \in Headers}

\* What is Huffman coded, within the limits of decode_literals.
Coded ==
    IF Len(data) = 0 THEN {} ELSE
    UNION {{[size |-> Field(h.size), body |-> bits, streams |-> IF SizeFormat = 0 THEN 1 ELSE 4] :
                bits \in BitsAt(data, 8 * h.bytes, 8 * Field(h.coded))} :
              h \in {h \in Headers : /\ Type = 2 /\ Field(h.coded) \in 1..MaxLiterals
                                     /\ Field(h.size) <= MaxLiterals}}

-----------------------------------------------------------------------------
(* The tree description.                                                   *)

Body == section.body
TreeHeader == ValueOf(SubSeq(Body, 1, 8))
Half(n) == (n + 1) \div 2

\* Weights of four bits, the first of a byte above the second.  Mutant: below it.
NibbleLowFirst(bits, i) == ValueOf(SubSeq(bits, 4 * i - 3, 4 * i))
Nibble(bits, i) == LET at == IF i % 2 = 1 THEN 4 * (i + 1) ELSE 4 * (i - 1) IN ValueOf(SubSeq(bits, at - 3, at))

DirectWeights ==
    {[i \in 1..(TreeHeader - 127) |-> Nibble(bits, i)] :
        bits \in IF TreeHeader >= 128 THEN BitsAt(Body, 8, 8 * Half(TreeHeader - 127)) ELSE {}}

\* read_probabilities up to its loop: the accuracy.
Accuracies ==
    {log \in {AccLogOffset + ValueOf(bits) :
                 bits \in IF TreeHeader < 128 /\ 8 * (1 + TreeHeader) <= Len(Body) THEN BitsAt(Body, 8, 4) ELSE {}} :
        log \in 1..MaxAccuracyLog}

Left == 2^fse.log - Shared(fse.probs)

\* The bytes of the distribution, and the coded weights behind them.
FseBytes == (fse.at - 8 + 7) \div 8
CodedWeights == SubSeq(Body, 8 * (1 + FseBytes) + 1, 8 * (1 + TreeHeader))

\* A string is read from behind the first bit that is set, of the first eight.
Opened(bits) ==
    LET r == NewReversed(bits)
    IN  {Consume(bits, r, n) : n \in {n \in 1..8 : Peek(bits, r, n) = <<1>> \o Zeros(n - 1)}}

\* Two decoders, of which each has read its first state.
FseDecoders ==
    {[decode |-> d, r |-> Consume(CodedWeights, Consume(CodedWeights, r, fse.log), fse.log),
      states |-> <<ValueOf(Peek(CodedWeights, r, fse.log)),
                   ValueOf(Peek(CodedWeights, Consume(CodedWeights, r, fse.log), fse.log))>>] :
        d \in IF Left = 0 /\ FseBytes <= TreeHeader THEN DecodingTable(fse.log, fse.probs) ELSE {},
        r \in Opened(CodedWeights)}

-----------------------------------------------------------------------------
(* The streams.                                                            *)

\* The payload cut in one stream or in four, by three lengths at its head.
Pieces(payload) ==
    LET len(k) == 8 * ValueOf(SubSeq(payload, 16 * k - 15, 16 * k))
        jump(k) == IF k = 0 THEN 0 ELSE IF k = 1 THEN len(1) ELSE IF k = 2 THEN len(1) + len(2)
                   ELSE len(1) + len(2) + len(3)
        rest == SubSeq(payload, 49, Len(payload))
    IN  IF section.streams = 1 THEN {<<payload>>}
        ELSE IF Len(payload) < 48 \/ jump(3) > Len(rest) THEN {}
        ELSE {[k \in 1..4 |-> SubSeq(rest, jump(k - 1) + 1, IF k = 4 THEN Len(rest) ELSE jump(k))]}

Tables ==
    {[table |-> t, pieces |-> p] :
        t \in HuffmanTables(weights),
        p \in IF 8 * tree.used < Len(Body) THEN Pieces(SubSeq(Body, 8 * tree.used + 1, Len(Body))) ELSE {}}

Exhausted == BitsRemaining(reader.r) <= -tree.max

-----------------------------------------------------------------------------

NoSection == [size |-> 0, body |-> <<>>, streams |-> 1]
NoFse == [log |-> 0, probs |-> <<>>, at |-> 0, decode |-> <<>>]
NoReader == [bits |-> <<>>, r |-> NewReversed(<<>>)]
NoTree == [used |-> 0, max |-> 0, decode |-> <<>>]

Init ==
    /\ \/ \E s \in Sources : \E k \in 0..((Len(s.section) + Len(s.rest)) \div 8) :
             source = {s} /\ data = SubSeq(s.section \o s.rest, 1, 8 * k)
       \/ source = {} /\ data \in Arbitrary
    /\ status = "running" /\ phase = "section" /\ section = NoSection /\ fse = NoFse
    /\ reader = NoReader /\ states = <<>> /\ weights = <<>> /\ tree = NoTree /\ streams = <<>> /\ out = <<>>

In(p) == status = "running" /\ phase = p

PlainLiterals ==
    /\ In("section")
    /\ out' \in Plain
    /\ status' = "ok"
    /\ UNCHANGED <<source, data, phase, section, fse, reader, states, weights, tree, streams>>

\* A section of no literals is not looked into.
CodedLiterals ==
    /\ In("section")
    /\ section' \in Coded
    /\ IF section'.size = 0 THEN status' = "ok" /\ UNCHANGED phase ELSE phase' = "tree" /\ UNCHANGED status
    /\ UNCHANGED <<source, data, fse, reader, states, weights, tree, streams, out>>

DirectTreeHeader ==
    /\ In("tree")
    /\ weights' \in DirectWeights
    /\ tree' = [tree EXCEPT !.used = 1 + Half(TreeHeader - 127)]
    /\ phase' = "table"
    /\ UNCHANGED <<source, data, status, section, fse, reader, states, streams, out>>

FseTreeHeader ==
    /\ In("tree")
    /\ \E log \in Accuracies : fse' = [fse EXCEPT !.log = log, !.at = 12]
    /\ tree' = [tree EXCEPT !.used = 1 + TreeHeader]
    /\ phase' = "probabilities"
    /\ UNCHANGED <<source, data, status, section, reader, states, weights, streams, out>>

\* Passes of the loop of read_probabilities, and of the one within it.
Probability ==
    /\ In("probabilities") /\ Left > 0
    /\ \E p \in ProbabilityAt(Body, fse.at, Left) :
          /\ fse' = [fse EXCEPT !.probs = Append(@, p.prob), !.at = @ + p.used]
          /\ phase' = IF p.prob = 0 THEN "zeros" ELSE phase
    /\ UNCHANGED <<source, data, status, section, reader, states, weights, tree, streams, out>>

RunOfZeros ==
    /\ In("zeros")
    /\ \E bits \in BitsAt(Body, fse.at, 2) :
          /\ fse' = [fse EXCEPT !.probs = @ \o Zeros(ValueOf(bits)), !.at = @ + 2]
          /\ phase' = IF ValueOf(bits) = 3 THEN phase ELSE "probabilities"
    /\ UNCHANGED <<source, data, status, section, reader, states, weights, tree, streams, out>>

BuildFseTable ==
    /\ In("probabilities")
    /\ \E d \in FseDecoders :
          /\ fse' = [fse EXCEPT !.decode = d.decode]
          /\ reader' = [bits |-> CodedWeights, r |-> d.r]
          /\ states' = d.states
    /\ phase' = "weights"
    /\ UNCHANGED <<source, data, status, section, weights, tree, streams, out>>

\* The number of weights is looked at after every second one.  Mutant: never.
TooManyNever(ws) == FALSE
TooMany(ws) == Len(ws) % 2 = 0 /\ Len(ws) > MaxWeights

\* Half a pass of the loop: the decoder whose turn it is.
Weight ==
    /\ In("weights")
    /\ LET turn == (Len(weights) % 2) + 1
           e == fse.decode[states[turn]]
           r == Consume(reader.bits, reader.r, e.num_bits)
           more == Append(weights, e.symbol)
       IN  /\ reader' = [reader EXCEPT !.r = r]
           /\ states' = [states EXCEPT ![turn] = e.base_line + ValueOf(Peek(reader.bits, reader.r, e.num_bits))]
           /\ IF BitsRemaining(r) <= -1
              THEN /\ weights' = Append(more, fse.decode[states[3 - turn]].symbol)
                   /\ phase' = "table" /\ UNCHANGED status
              ELSE /\ weights' = more
                   /\ status' = IF TooMany(more) THEN "error" ELSE status
                   /\ UNCHANGED phase
    /\ UNCHANGED <<source, data, section, fse, tree, streams, out>>

BuildTable ==
    /\ In("table")
    /\ \E t \in Tables :
          /\ tree' = [tree EXCEPT !.max = t.table.max, !.decode = t.table.decode]
          /\ streams' = t.pieces
    /\ phase' = "streams"
    /\ UNCHANGED <<source, data, status, section, fse, reader, states, weights, out>>

\* decode_stream; an empty one has no symbols.
EmptyStream ==
    /\ In("streams") /\ streams # <<>> /\ Head(streams) = <<>>
    /\ streams' = Tail(streams)
    /\ UNCHANGED <<source, data, status, phase, section, fse, reader, states, weights, tree, out>>

OpenStream ==
    /\ In("streams") /\ streams # <<>> /\ Head(streams) # <<>>
    /\ \E r \in Opened(Head(streams)) :
          /\ reader' = [bits |-> Head(streams), r |-> Consume(Head(streams), r, tree.max)]
          /\ states' = <<ValueOf(Peek(Head(streams), r, tree.max))>>
    /\ streams' = Tail(streams) /\ phase' = "symbols"
    /\ UNCHANGED <<source, data, status, section, fse, weights, tree, out>>

\* The code that is shifted up by n bits.  Mutant: out of the table.
ShiftedUnmasked(code, n) == code * 2^n
Shifted(code, n) == (code * 2^n) % Cardinality(DOMAIN tree.decode)

Symbol ==
    /\ In("symbols") /\ ~Exhausted
    /\ LET e == tree.decode[states[1]]
           low == ValueOf(Peek(reader.bits, reader.r, e.num_bits))
       IN  /\ out' = Append(out, e.symbol)
           /\ states' = <<Shifted(states[1], e.num_bits) + low>>
           /\ reader' = [reader EXCEPT !.r = Consume(reader.bits, reader.r, e.num_bits)]
    /\ UNCHANGED <<source, data, status, phase, section, fse, weights, tree, streams>>

EndOfStream ==
    /\ In("symbols") /\ Exhausted
    /\ phase' = "streams"
    /\ UNCHANGED <<source, data, status, section, fse, reader, states, weights, tree, streams, out>>

EndOfSection ==
    /\ In("streams") /\ streams = <<>>
    /\ status' = IF Len(out) = section.size THEN "ok" ELSE "error"
    /\ UNCHANGED <<source, data, phase, section, fse, reader, states, weights, tree, streams, out>>

\* Every None and Err that is no pass of a loop.
Refuse ==
    /\ \/ In("section") /\ Plain = {} /\ Coded = {}
       \/ In("tree") /\ DirectWeights = {} /\ Accuracies = {}
       \/ In("probabilities") /\ Left > 0 /\ ProbabilityAt(Body, fse.at, Left) = {}
       \/ In("zeros") /\ BitsAt(Body, fse.at, 2) = {}
       \/ In("probabilities") /\ Left <= 0 /\ FseDecoders = {}
       \/ In("table") /\ Tables = {}
       \/ In("streams") /\ streams # <<>> /\ Head(streams) # <<>> /\ Opened(Head(streams)) = {}
    /\ status' = "error"
    /\ UNCHANGED <<source, data, phase, section, fse, reader, states, weights, tree, streams, out>>

Returned == status # "running" /\ UNCHANGED vars

Next ==
    \/ PlainLiterals \/ CodedLiterals
    \/ DirectTreeHeader \/ FseTreeHeader \/ Probability \/ RunOfZeros \/ BuildFseTable \/ Weight
    \/ BuildTable \/ EmptyStream \/ OpenStream \/ Symbol \/ EndOfStream \/ EndOfSection
    \/ Refuse \/ Returned

Spec == Init /\ [][Next]_vars

-----------------------------------------------------------------------------
(* Properties.                                                             *)

\* Every variable has its type, and the states lie within their tables.
TypeOK ==
    /\ data \in ByteStrings
    /\ status \in {"running", "ok", "error"}
    /\ phase \in {"section", "tree", "probabilities", "zeros", "weights", "table", "streams", "symbols"}
    /\ weights \in Seq(0..MaxSymbol) /\ out \in Seq(0..255) /\ fse.probs \in Seq(Nat \cup {-1})
    /\ section \in [size : Nat, body : ByteStrings, streams : {1, 4}] /\ streams \in Seq(ByteStrings)
    /\ reader.bits \in ByteStrings
    /\ fse.log \in 0..MaxAccuracyLog /\ tree.max \in 0..MaxMaxNumBits
    /\ phase = "weights" => Len(states) = 2 /\ \A k \in 1..2 : states[k] \in DOMAIN fse.decode
    /\ phase = "weights" => \A c \in DOMAIN fse.decode : fse.decode[c].num_bits \in 0..fse.log
    /\ phase = "symbols" => Len(states) = 1 /\ states[1] \in DOMAIN tree.decode
    /\ phase = "symbols" => \A c \in DOMAIN tree.decode : tree.decode[c].num_bits \in 0..tree.max

\* A string that is read backwards through a word is read bit for bit, and its
\* end is noticed however far behind it the reader is.
ReaderAgrees == AheadAgrees(reader.bits, reader.r)

\* The states of each weight share out what can be reached among them, each as
\* much as any bits it reads, and every code of a Huffman table decodes, by its
\* first bits alone.
TablesSound ==
    /\ phase = "weights" /\ weights = <<>> =>
          \A i \in {i \in DOMAIN fse.probs : fse.probs[i] # 0} :
             LET cells == {c \in DOMAIN fse.decode : fse.decode[c].symbol = i - 1}
                 reached(c) == LET e == fse.decode[c] IN e.base_line..(e.base_line + 2^e.num_bits - 1)
             IN  /\ Cardinality(cells) = Share(fse.probs[i])
                 /\ UNION {reached(c) : c \in cells} = DOMAIN fse.decode
                 /\ \A c, d \in cells : c = d \/ reached(c) \cap reached(d) = {}
    /\ phase = "streams" /\ out = <<>> =>
          \A a \in DOMAIN tree.decode :
             LET wide == 2^(tree.max - tree.decode[a].num_bits)
                 first == (a \div wide) * wide
             IN  /\ tree.decode[a].num_bits \in 1..tree.max
                 /\ tree.decode[first] = tree.decode[a]
                 /\ a = first => \A b \in first..(first + wide - 1) : tree.decode[b] = tree.decode[a]

\* What an encoder wrote is decoded, whatever stands behind it; of what is cut
\* short nothing is returned.
DecodesSection ==
    \A s \in source :
        /\ status = "error" => Len(data) < Len(s.section)
        /\ status = "ok" => out = IF Len(data) < Len(s.section) THEN <<>> ELSE s.lits
        /\ status = "ok" => Len(data) = 0 \/ Len(data) >= Len(s.section)

\* Nothing is kept beyond what the section pays for, in bits, whatever it says.
LimitsHeld ==
    /\ Len(weights) <= MaxWeights + 2
    /\ Len(section.body) <= 8 * MaxLiterals
    /\ phase # "section" => Len(out) <= Len(section.body)

\* A symbol takes the bits of its code, neither more nor fewer and at least one,
\* and every probability takes some, so that their loops end.
Consumes ==
    [][/\ phase = "symbols" /\ phase' = "symbols" =>
             LET n == tree.decode[states[1]].num_bits
             IN  n >= 1 /\ BitsRemaining(reader'.r) = BitsRemaining(reader.r) - n
       /\ phase \in {"probabilities", "zeros"} /\ fse'.probs # fse.probs => fse'.at > fse.at]_vars

=============================================================================
