----------------------------- MODULE MCDeflate ------------------------------
(***************************************************************************)
(* DeflateDecoder with three literals, two match lengths, two distances and  *)
(* codes of up to three bits, over a word of two bytes.                    *)
(***************************************************************************)
EXTENDS GzipMember

MCExtra == <<0, 1>>
MCFixedLiterals == <<3, 3, 3, 2, 3, 3, 3>>
MCFixedDistances == <<1, 2, 2>>
MCOrder == <<4, 5, 6, 0, 2, 1, 3>>
MCSizeBits == <<2, 2, 2>>
MCRepeat == <<[base |-> 1, bits |-> 1], [base |-> 1, bits |-> 1], [base |-> 3, bits |-> 1]>>

L(n) == [lit |-> n]
M(m, e, t, x) == [match |-> m, extra |-> e, dist |-> t, dextra |-> x]

\* Bytes written as they are: none, one, more than the word holds.
MCStored == {[kind |-> "stored", bytes |-> b] : b \in {<<>>, <<200>>, <<1, 2, 255>>}}

MCTokens == {<<>>, <<L(0)>>, <<L(1), M(0, 0, 0, 0)>>, <<L(0), M(1, 1, 1, 1), L(1)>>, <<L(1), L(1), L(0), L(1)>>,
             [i \in 1..6 |-> M(1, 0, 0, 0)]}

MCFixed == {[kind |-> "fixed", tokens |-> t] : t \in MCTokens}

\* Every way to write lengths as runs.
Ways(code) ==
    LET runs == {[symbol |-> n, extra |-> 0] : n \in 0..3}
                \cup {[symbol |-> n, extra |-> e] : n \in 4..6, e \in 0..1}
        Fits1(r, i) ==
            /\ r.symbol = 4 => i > 0
            /\ IsPrefix(SubSeq(code, 1, i) \o RunLengths(SubSeq(code, 1, i), r), code)
        from[i \in 0..Len(code)] ==
            IF i = Len(code) THEN {<<>>}
            ELSE UNION {{<<r>> \o w : w \in from[i + Len(RunLengths(SubSeq(code, 1, i), r))]} :
                           r \in {r \in runs : Fits1(r, i)}}
    IN  from[0]

\* Codes of literals and lengths, and of distances: no match, a match on either
\* side, an incomplete code, lengths that repeat across the two.
MCCodes ==
    {[lit |-> <<2, 2, 2, 2>>, dist |-> <<0>>, tokens |-> <<L(2), L(0)>>],
     [lit |-> <<1, 0, 0, 1>>, dist |-> <<0, 0>>, tokens |-> <<L(0)>>],
     [lit |-> <<2, 0, 0, 2, 1>>, dist |-> <<1, 1>>, tokens |-> <<L(0), M(0, 0, 1, 1), M(0, 0, 0, 0)>>],
     [lit |-> <<3, 3, 3, 3, 2, 2>>, dist |-> <<2, 2>>, tokens |-> <<L(1), M(1, 1, 1, 1), L(2)>>],
     [lit |-> <<0, 1, 0, 2, 2>>, dist |-> <<1>>, tokens |-> <<L(1), M(0, 0, 0, 0)>>]}

\* The code-length code knows symbol 3, the last of HCLEN_ORDER, only when a run
\* needs it.
Dynamic(c, runs) ==
    LET full == \E i \in DOMAIN runs : runs[i].symbol = 3
    IN  [kind |-> "dynamic", runs |-> runs, hlit |-> Len(c.lit), hdist |-> Len(c.dist),
         tokens |-> c.tokens,
         codelens |-> IF full THEN <<3, 2, 3, 3, 3, 3, 3>> ELSE <<3, 2, 2, 0, 3, 3, 3>>,
         hclen |-> IF full THEN 7 ELSE 6]

MCDynamic == UNION {{Dynamic(c, w) : w \in Ways(c.lit \o c.dist)} : c \in MCCodes}

ASSUME CodesAreCodes == \A b \in MCDynamic : IsCode(b.codelens) /\ IsCode(Literals(b)) /\ IsCode(Distances(b))

MCCrc == <<1, 65535>>
MCSize == <<258, 0>>

\* One way to write each: in as few runs as there are.
MCShortest ==
    {Dynamic(c, CHOOSE w \in Ways(c.lit \o c.dist) : \A v \in Ways(c.lit \o c.dist) : Len(w) <= Len(v)) : c \in MCCodes}

\* Dynamic blocks on their own in every way, behind one another, and on either
\* side of a fixed block that ends within a byte; stored and fixed blocks, up to
\* three in a row.
MCSources ==
    LET plain == MCStored \cup MCFixed
        short == {b \in MCFixed : Len(b.tokens) <= 1}
    IN  {Member(<<b>>, MCCrc, MCSize) : b \in plain \cup MCDynamic}
        \cup {Member(<<a, b>>, MCCrc, MCSize) : a \in plain, b \in plain}
        \cup {Member(<<a, b>>, MCCrc, MCSize) : a \in short \cup MCShortest, b \in MCShortest}
        \cup {Member(<<a, b>>, MCCrc, MCSize) : a \in MCShortest, b \in short}
        \cup {Member(<<a, b, c>>, MCCrc, MCSize) : a \in short, b \in MCStored, c \in short}

\* Short strings of bytes that begin each type of block.
MCArbitrary ==
    {FlattenSeq([i \in DOMAIN s |-> LowFirst(s[i], 8)]) :
        s \in UNION {[1..n -> {0, 1, 3, 5, 6, 255}] : n \in 0..4}}
=============================================================================
