------------------------------ MODULE TarFormat ------------------------------
(***************************************************************************)
(* Archives as tar writes them: a header block for each member, its        *)
(* content, zeroes up to a whole block, and zero blocks behind the last.   *)
(*                                                                         *)
(* An archive is [members, zeros, cut, magic]: cut bytes are missing at    *)
(* its end, and its first header has the ustar magic or a checksum that    *)
(* verifies.  A member is [size, field, type, name, content], its size     *)
(* written in "field".  Content is [gzip, tar]: whether it is compressed,  *)
(* and a set of the archive it then holds, empty where it holds none that  *)
(* decompresses.                                                           *)
(***************************************************************************)
EXTENDS Integers, Sequences, SequencesExt, FiniteSets, FiniteSetsExt, Folds

CONSTANT BlockSize  \* TAR_BLOCK_SIZE: 512

ASSUME FormatConstants == BlockSize \in Nat \ {0}

Digits == {"0", "1", "2", "3", "4", "5", "6", "7"}
Blank == "_"  \* a NUL or a space

DigitValue(c) == CHOOSE n \in 0..7 : <<"0", "1", "2", "3", "4", "5", "6", "7">>[n + 1] = c

\* Blanks, digits from i to j, and anything behind one more blank; nothing but
\* blanks is zero.
DigitsOf(field, i, j) ==
    /\ i - 1 <= j
    /\ \A k \in 1..(i - 1) : field[k] = Blank
    /\ \A k \in i..j : field[k] \in Digits
    /\ i <= Len(field) => i <= j
    /\ j < Len(field) => field[j + 1] = Blank

\* A digit is three bits.
Worth(field, i, j) == SumFunction([k \in i..j |-> DigitValue(field[k]) * 2^(3 * (j - k))])

\* The number that is written: a set of one, or of none.
Written(field) ==
    {Worth(field, p[1], p[2]) :
        p \in {q \in (1..(Len(field) + 1)) \X (0..Len(field)) : DigitsOf(field, q[1], q[2])}}

\* Some component between slashes is two dots.
LeavesDirectory(name) ==
    \E i \in 1..(Len(name) - 1) :
        /\ name[i] = "." /\ name[i + 1] = "."
        /\ i > 1 => name[i - 1] = "/"
        /\ i + 1 < Len(name) => name[i + 2] = "/"

Blocks(bytes) == (bytes + BlockSize - 1) \div BlockSize

\* Where member i begins; behind the last, where the zero blocks do.
Offset(a, i) == SumFunction([k \in 1..(i - 1) |-> BlockSize * (1 + Blocks(a.members[k].size))])

WholeLength(a) == Offset(a, Len(a.members) + 1) + a.zeros * BlockSize

Length(a) == WholeLength(a) - a.cut

\* The header that begins at a place, if one does, and zero blocks.
HeaderAt(a, pos) == {a.members[i] : i \in {i \in DOMAIN a.members : Offset(a, i) = pos}}

ZeroAt(a, pos) == pos \in {WholeLength(a) - k * BlockSize : k \in 1..a.zeros}

=============================================================================
