------------------------------ MODULE MCTarball ------------------------------
(***************************************************************************)
(* TarballSpec with blocks of eight bytes, three members and two levels    *)
(* within the outermost, so that every limit is met and passed.            *)
(***************************************************************************)
EXTENDS TarballSpec

Bytes0 == [gzip |-> FALSE, tar |-> {}]
Field(n) == CASE n = 0 -> <<"_", "0", "_">> [] n = 1 -> <<"0", "0", "1">> [] n = 3 -> <<"3", "_", "x">>
              [] n = 8 -> <<"_", "1", "0">> [] n = 9 -> <<"1", "1", "_">> [] n = 25 -> <<"0", "3", "1">>

M(n, type, content) == [size |-> n, field |-> Field(n), type |-> type, name |-> <<"a">>, content |-> content]
File(n) == M(n, "file", Bytes0)
Gzip(tar) == M(3, "file", [gzip |-> TRUE, tar |-> tar])
A(members, zeros, cut, magic) == [members |-> members, zeros |-> zeros, cut |-> cut, magic |-> magic]

Lists(S, n) == UNION {[1..k -> S] : k \in 0..n}

\* Every kind of member that holds no archive.
MCPlain == {File(n) : n \in {0, 1, 8, 9}}
           \cup {M(0, "symlink", Bytes0), M(0, "hardlink", Bytes0), M(0, "directory", Bytes0), M(9, "pax", Bytes0)}
           \cup {Gzip({}), M(3, "directory", [gzip |-> TRUE, tar |-> {}])}

\* Archives of up to two of them, some of them cut anywhere, and of up to four.
Cuts(ms, z) == {A(ms, z, c, TRUE) : c \in 0..WholeLength(A(ms, z, 0, TRUE))}
MCWhole == UNION {Cuts(ms, 1) : ms \in Lists({File(0), File(1), File(9), M(9, "pax", Bytes0)}, 2)}
           \cup {A(ms, z, 0, TRUE) : ms \in Lists(MCPlain, 2), z \in 0..2}
MCMany == {A(ms, z, 0, TRUE) : ms \in Lists({File(0), File(1)}, 4), z \in 0..1}

\* Archives within members: a few at the innermost level, and around them.
MCInner == {A(<<>>, 0, 0, FALSE), A(<<>>, 1, 0, TRUE), A(<<File(9)>>, 1, 0, FALSE), A(<<File(1), File(9)>>, 0, 0, TRUE),
            A(<<File(9)>>, 1, 1, TRUE), A(<<File(9)>>, 0, 7, TRUE), A(<<M(0, "symlink", Bytes0)>>, 1, 0, TRUE),
            A(<<File(25)>>, 0, 0, TRUE), A(<<M(9, "pax", Bytes0)>>, 1, 0, TRUE)}
Around(S) == {A(ms, 0, 0, TRUE) : ms \in Lists({Gzip({a}) : a \in S} \cup {File(1)}, 2) \ {<<>>}}
MCFew == {A(<<File(9)>>, 1, 0, TRUE), A(<<File(25)>>, 0, 0, TRUE), A(<<File(25), File(9)>>, 0, 0, TRUE)}
MCDeep == {A(<<Gzip({a})>>, z, 0, TRUE) : a \in Around(MCFew), z \in 0..1}
MCDeeper == {A(<<Gzip({a}), File(1)>>, 0, 0, TRUE) : a \in MCDeep}

\* Every size field of three characters and every name of up to five.
MCFields ==
    {A(<<[size |-> n, field |-> f, type |-> "file", name |-> <<"a">>, content |-> Bytes0], File(1)>>, 1, 0, TRUE) :
        n \in {0, 1, 8, 9}, f \in [1..3 -> {"_", "0", "1", "x"}]}
MCNames ==
    {A(<<[File(1) EXCEPT !.name = n]>>, 1, 0, TRUE) : n \in Lists({".", "/", "a"}, 5)}

\* A field either writes the size its member has, or nothing at all.
Consistent(a) ==
    \A i \in DOMAIN a.members : LET m == a.members[i] IN
        Written(m.field) \subseteq {m.size}

MCArchives ==
    MCWhole \cup MCMany \cup Around(MCInner) \cup MCDeep \cup MCDeeper
    \cup {a \in MCFields \cup MCNames : Consistent(a)}

\* Those of the inputs, and those within them.
MCAll == MCArchives \cup MCInner \cup MCFew \cup Around(MCFew)

MCInputs == {[gzip |-> TRUE, tar |-> {a}] : a \in MCArchives} \cup {Bytes0, [gzip |-> TRUE, tar |-> {}]}

=============================================================================
