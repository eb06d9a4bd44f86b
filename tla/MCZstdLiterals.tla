--------------------------- MODULE MCZstdLiterals ---------------------------
(***************************************************************************)
(* ZstdLiterals with a word of three bytes and sections of 24 bytes.       *)
(***************************************************************************)
EXTENDS ZstdLiterals

Lists(S, m, n) == UNION {[1..k -> S] : k \in m..n}
Source(lits, bits, rest) == [lits |-> lits, section |-> bits, rest |-> rest]

\* Raw and RLE sections, and a compressed one of no coded bytes.
MCPlain ==
    {Source(l, RawSection(f, l), rest) : f \in 0..3, l \in Lists({0, 7}, 1, 3), rest \in {<<>>, ByteBits(<<255>>)}}
    \cup {Source(l, RawSection(f, l), <<>>) : f \in {1, 3}, l \in {[i \in 1..40 |-> i % 3]}}
    \cup {Source(l, RleSection(f, l), <<>>) : f \in 0..3, l \in {<<5>>, <<5, 5>>, [i \in 1..31 |-> 9]}}
    \cup {Source(l, RleSection(f, l), <<>>) : f \in {1, 3}, l \in {[i \in 1..40 |-> 9]}}

\* The weights with the one that completes them to a power of two.
Completions(ws) ==
    {Append(ws, w) : w \in {w \in 1..11 : \E n \in 1..11 : /\ 2^(n - 1) <= TotalWeight(ws) /\ TotalWeight(ws) < 2^n
                                                           /\ TotalWeight(ws) + Weighs(w) = 2^n}}
Literals(ws, n) == Lists({i - 1 : i \in {i \in DOMAIN ws : ws[i] > 0}}, 1, n)

\* Trees given plainly, one stream and four.
MCDirect ==
    UNION {{Source(l, CodedSection(0, DirectTree(ws), ws, <<l>>), <<>>) : l \in Literals(ws, 2)} :
              ws \in UNION {Completions(e) : e \in Lists(0..2, 1, 3)}}
    \cup UNION {{Source(l, CodedSection(0, DirectTree(ws), ws, <<l>>), ByteBits(<<1>>)) : l \in Literals(ws, 6)} :
              ws \in {<<1, 1>>, <<2, 1, 1>>}}
    \cup {Source(l, CodedSection(0, DirectTree(ws), ws, <<l>>), <<>>) :
              ws \in UNION {Completions(e) : e \in {<<5>>, <<4, 3, 0, 1>>, <<1, 2, 3, 4, 5, 0, 6>>}},
              l \in Lists({0}, 1, 1) \cup {[i \in 1..n |-> 0] : n \in {4, 8, 16, 24}}}
MCFour ==
    UNION {{Source(FlattenSeq(p), CodedSection(f, DirectTree(ws), ws, p), <<>>) :
                f \in 1..3,
                p \in {<<a, b, c, d>> : a \in Literals(ws, 2), b \in {<<1>>, <<0, 1, 0>>, <<>>},
                                        c \in {<<>>, <<1, 0>>}, d \in {<<0, 0>>, <<>>}}} :
              ws \in {<<1, 1>>, <<2, 1, 1>>}}

\* Distributions over two and three weights, and some over more.
Whole(log, S, n) ==
    {p \in {Append(q, 2^log - Given(q, n)) : q \in [1..(n - 1) -> S]} : p[n] > 0}
MCProbs ==
    Whole(5, -1..31, 2) \cup Whole(5, {-1, 0, 1, 2, 3, 5, 8, 15, 16, 17, 30}, 3)
    \cup {<<k, 31 - k, -1>> : k \in {1, 2, 15, 16, 23}} \cup {<<k, -1, 31 - k>> : k \in {0, 1, 2, 15, 16, 23}}
Feasible(log, p, e) == \A k \in DOMAIN e : /\ e[k] + 1 \in DOMAIN p /\ p[e[k] + 1] # 0
                                           /\ Part(p[e[k] + 1]) < 2^log

MCLists == {<<1, 0>>, <<0, 0, 1>>, <<1, 1>>, <<2, 1, 1>>, <<1, 2, 0, 1>>}
FseSources(log, probs, lists) ==
    UNION {UNION {{Source(<<i - 1>>, CodedSection(0, FseTree(log, p, ws), ws, <<<<i - 1>>>>), <<>>) :
                      i \in {i \in DOMAIN ws : ws[i] > 0 /\ \A j \in 1..(i - 1) : ws[j] = 0}} :
                     ws \in UNION {Completions(e) : e \in {e \in lists : Feasible(log, p, e)}}} : p \in probs}

MCFse ==
    FseSources(5, MCProbs, {<<1, 0>>, <<0, 0, 1>>, <<2, 1, 1>>})
    \cup FseSources(5, {<<30, 0, 0, 2>>, <<-1, 0, 0, 0, 0, 31>>, <<0, 0, 0, 0, 30, -1, -1>>, <<4, 3, 0, 5, 0, 0, 20>>},
                    {<<0, 3>>, <<3, 0, 3>>, <<5, 5, 0>>, <<4, 5>>, <<6, 0, 6, 1>>, <<6, 3, 3, 1>>})
    \cup FseSources(6, {<<20, 40, 4>>, <<33, -1, 30>>, <<1, 62, -1>>, <<-1, -1, 62>>}, {<<1, 0>>, <<2, 1, 1>>})

MCSources == MCPlain \cup MCDirect \cup MCFour \cup MCFse

-----------------------------------------------------------------------------
(* What no encoder wrote.                                                  *)

Coded0(format, size, body) == SectionHeader(2, format, size, Len(body) \div 8) \o body

\* Any stream behind a tree, any tree of one weight and of two, sizes out of bounds.
MCStreams ==
    {Coded0(0, n, DirectTree(ws) \o ByteBits(<<b>>)) : n \in {1, 7}, b \in 0..255, ws \in {<<1, 1>>, <<2, 1, 1>>}}
    \cup {Coded0(0, 3, DirectTree(<<3, 1, 2, 1>>) \o ByteBits(<<b, c>>)) : b \in {0, 255, 90}, c \in 0..63}
    \cup {Coded0(0, 1, ByteBits(<<127 + n, b, 255, 3>>)) : n \in 1..2, b \in 0..255}
    \cup {Coded0(f, n, b) : f \in {0, 3}, n \in {0, 25}, b \in {ByteBits([i \in 1..k |-> 1]) : k \in {0, 1, 24, 25}}}
    \cup {Coded0(1, 2, DirectTree(<<1, 1>>) \o ByteBits([i \in 1..k |-> IF i = 1 THEN b ELSE 1])) :
              k \in 5..8, b \in {0, 1, 9}}
    \cup {LowFirst(3, 2) \o LowFirst(n, 6) : n \in 0..3}

\* Any two bytes for a distribution, cut short or not, and coded weights that
\* never end, or end at the very limit.
MCDistributions ==
    {Coded0(0, 1, ByteBits(<<h, 16 * (b \div 16), b % 16, c, 1>>)) : h \in {1, 2, 4}, b \in 0..127, c \in {0, 3, 255}}
    \cup {Coded0(0, 1, ByteBits(<<h, a, b>>)) : h \in 0..3, a \in {0, 1, 2, 32, 240}, b \in {1, 255}}
    \cup {Coded0(0, 1, LowFirst(Len(d \o w) \div 8, 8) \o d \o w \o ByteBits(<<1>>)) :
              d \in {Distribution(5, p) : p \in {<<32>>, <<31, 1>>, <<1, 31>>, <<16, 16>>}},
              w \in {ByteBits(x) : x \in {<<0>>, <<1>>, <<1, 128>>, <<1, 1, 1>>, <<90, 60>>, <<0, 32>>, <<3, 240>>}}}

MCArbitrary == MCStreams \cup MCDistributions

=============================================================================
