------------------------------- MODULE Tarball -------------------------------
(***************************************************************************)
(* extract::tarball::scan_tarball_literals: the members of a compressed    *)
(* tar archive, and of the archives within it, up to a depth.              *)
(*                                                                         *)
(* A frame of the stack is a call of scan_decompressed_tar_gz_archive.     *)
(* One action is one pass of its loop; the archive within a member is      *)
(* walked before the pass over the member ends.                            *)
(***************************************************************************)
EXTENDS TarFormat

CONSTANTS
    Inputs,      \* what is scanned: contents, as of a member
    Archives,    \* every archive that occurs in them, or in another
    MaxBytes,    \* MAX_TARBALL_BYTES
    MaxMembers,  \* MAX_TAR_MEMBERS
    MaxDepth     \* MAX_NESTED_DEPTH

ASSUME TarballConstants == {MaxBytes, MaxMembers, MaxDepth} \subseteq Nat

ContentType == [gzip : BOOLEAN, tar : SUBSET Archives]
MemberType == [size : Nat, field : Seq(STRING), type : STRING, name : Seq(STRING), content : ContentType]

\* Fields and names are bytes, and what is in a member is an archive.
ASSUME ArchiveTypes ==
    /\ Inputs \subseteq ContentType
    /\ Archives \subseteq [members : Seq(MemberType), zeros : Nat, cut : Nat, magic : BOOLEAN]

\* No more is cut off than there is; a field that is well formed writes the size of
\* its member; what is compressed has the magic number of gzip before it, and is
\* one archive if it decompresses.
AtMostOne(content) == \A a, b \in content.tar : a = b

ASSUME ArchiveLayout ==
    /\ \A i \in Inputs : AtMostOne(i)
    /\ \A a \in Archives :
          /\ a.cut <= WholeLength(a)
          /\ \A k \in DOMAIN a.members : LET m == a.members[k] IN
                Written(m.field) \subseteq {m.size} /\ AtMostOne(m.content) /\ (m.content.gzip => m.size >= 2)

VARIABLES
    input,
    status,  \* "running", "ok" or "error"
    stack,   \* of [archive, pos, members, blocks, total], the innermost last
    result   \* the blocks that are returned: [offset, len]

vars == <<input, status, stack, result>>

-----------------------------------------------------------------------------

\* parse_tar_octal_usize: a set of one value, or of none.  Mutant: a blank ends
\* the number wherever it stands.
OctalFromStart(field) ==
    LET step(s, c) == IF s.done THEN s
                      ELSE IF c = Blank THEN [s EXCEPT !.done = TRUE]
                      ELSE IF c \in Digits THEN [s EXCEPT !.found = TRUE, !.value = 8 * @ + DigitValue(c)]
                      ELSE [s EXCEPT !.done = TRUE, !.ok = FALSE]
        s == FoldLeft(step, [value |-> 0, found |-> FALSE, done |-> FALSE, ok |-> TRUE], field)
    IN  IF s.ok THEN {s.value} ELSE {}

AfterByte(s, c) ==
    IF s.done \/ (c = Blank /\ ~s.found) THEN s
    ELSE IF c = Blank THEN [s EXCEPT !.done = TRUE]
    ELSE IF c \in Digits THEN [s EXCEPT !.found = TRUE, !.value = 8 * @ + DigitValue(c)]
    ELSE [s EXCEPT !.done = TRUE, !.ok = FALSE]

Octal(field) ==
    LET after[i \in 0..Len(field)] ==
            IF i = 0 THEN [value |-> 0, found |-> FALSE, done |-> FALSE, ok |-> TRUE]
            ELSE AfterByte(after[i - 1], field[i])
        s == after[Len(field)]
    IN  IF s.ok THEN {s.value} ELSE {}

\* contains_path_traversal; from[n] is the call for what is left of the name.
\* Mutant: the end is not looked at.
TraversalButAtEnd(name) ==
    \/ name = <<".", ".">>
    \/ IsPrefix(<<".", ".", "/">>, name)
    \/ \E i \in 1..(Len(name) - 3) : SubSeq(name, i, i + 3) = <<"/", ".", ".", "/">>

ContainsPathTraversal(name) ==
    LET from[n \in 0..Len(name)] ==
            LET rest == SubSeq(name, Len(name) - n + 1, Len(name))
                tail == SubSeq(rest, 3, n)
            IN  \/ rest = <<".", ".">>
                \/ IsPrefix(<<".", ".", "/">>, rest) \/ IsSuffix(<<"/", ".", ".">>, rest)
                \/ \E i \in 1..(n - 3) : SubSeq(rest, i, i + 3) = <<"/", ".", ".", "/">>
                \/ /\ IsPrefix(<<".", "/">>, rest) /\ n > 2
                   /\ tail[1] = "." \/ "/" \in ToSet(tail)
                   /\ from[n - 2]
    IN  from[Len(name)]

\* next_member_offset.  Mutants: a whole block is added to a size that is one;
\* the size is not rounded up.
NextUnpadded(offset, size) == offset + BlockSize + size
NextByMore(offset, size) == offset + BlockSize + (size \div BlockSize + 1) * BlockSize

NextMemberOffset(offset, size) ==
    LET up == size + (BlockSize - 1) IN offset + BlockSize + (up - (up % BlockSize))

\* decompress_gzip_members.
Decompressed(content) == {a \in content.tar : Length(a) <= MaxBytes}

\* first_tar_block_has_ustar_magic.
IsTar(a) == Length(a) >= BlockSize /\ a.members # <<>> /\ a.magic

\* The number of members is compared before the header is looked at.
Room(f) == f.members < MaxMembers /\ f.pos + BlockSize <= Length(f.archive)

AtEnd(f) == f.pos >= Length(f.archive) \/ (Room(f) /\ ZeroAt(f.archive, f.pos))

\* read_tar_member and the refusal of links.  No size may be one that reaches
\* past the end, so that rounding it up cannot overflow.
ReadMember(f) ==
    {m \in UNION {{[header |-> h, size |-> n] : n \in Octal(h.field)} : h \in HeaderAt(f.archive, f.pos)} :
        /\ Room(f)
        /\ ~ContainsPathTraversal(m.header.name)
        /\ f.pos + BlockSize + m.size <= Length(f.archive)
        /\ m.header.type \notin {"symlink", "hardlink"}}

IsRegular(m) == m.header.type = "file"

\* The magic number of gzip, at the head of the content.
IsGzip(m) == m.header.content.gzip /\ m.size >= 2

Bytes(blocks) == SumFunction([i \in DOMAIN blocks |-> blocks[i].len])

\* A frame behind a member of which blocks were kept.  Mutant: the pass over an
\* archive within the archive ends without moving on.
BehindButNested(f, m, kept) ==
    IF IsGzip(m) /\ m.header.content.tar # {}
    THEN [f EXCEPT !.blocks = @ \o kept, !.total = @ + Bytes(kept)]
    ELSE [f EXCEPT !.pos = NextMemberOffset(f.pos, m.size), !.members = @ + 1,
                   !.blocks = @ \o kept, !.total = @ + Bytes(kept)]

Behind(f, m, kept) ==
    [f EXCEPT !.pos = NextMemberOffset(f.pos, m.size), !.members = @ + 1,
              !.blocks = @ \o kept, !.total = @ + Bytes(kept)]

Frame(a) == [archive |-> a, pos |-> 0, members |-> 0, blocks |-> <<>>, total |-> 0]

Depth == Len(stack) - 1
Inner == stack[Len(stack)]

-----------------------------------------------------------------------------

Init ==
    /\ input \in Inputs
    /\ status = "running" /\ stack = <<>> /\ result = <<>>

\* scan_tarball_literals_with_depth; an empty archive has no blocks.
Open ==
    /\ status = "running" /\ stack = <<>> /\ input.gzip
    /\ \E a \in Decompressed(input) :
          IF Length(a) = 0
          THEN status' = "ok" /\ UNCHANGED stack
          ELSE stack' = <<Frame(a)>> /\ UNCHANGED status
    /\ UNCHANGED <<input, result>>

Walking == status = "running" /\ stack # <<>>

\* The innermost frame goes on behind a member of which blocks were kept.
Continue(frames, m, kept) ==
    LET f == frames[Len(frames)]
    IN  /\ f.total + Bytes(kept) <= MaxBytes
        /\ stack' = [frames EXCEPT ![Len(frames)] = Behind(f, m, kept)]
        /\ UNCHANGED <<input, status, result>>

\* What a regular member is: an archive to walk, nothing that can be read, or bytes.
Archive(m) == IF IsGzip(m) THEN {a \in Decompressed(m.header.content) : IsTar(a)} ELSE {}
Unreadable(m) == IsGzip(m) /\ Decompressed(m.header.content) = {}

RegularFile ==
    /\ Walking
    /\ \E m \in ReadMember(Inner) :
          /\ ~AtEnd(Inner) /\ IsRegular(m) /\ Archive(m) = {} /\ ~Unreadable(m)
          /\ Continue(stack, m, <<[offset |-> Inner.pos, len |-> m.size]>>)

\* Mutant: the depth of the archive that holds it is compared.
DepthAllowedOfOuter == Depth <= MaxDepth
DepthAllowed == Depth + 1 <= MaxDepth

NestedArchive ==
    /\ Walking /\ DepthAllowed
    /\ \E m \in ReadMember(Inner) :
          /\ ~AtEnd(Inner) /\ IsRegular(m)
          /\ \E a \in Archive(m) : stack' = Append(stack, Frame(a))
    /\ UNCHANGED <<input, status, result>>

\* Directories and what else has a header.
OtherMember ==
    /\ Walking
    /\ \E m \in ReadMember(Inner) : ~AtEnd(Inner) /\ ~IsRegular(m) /\ Continue(stack, m, <<>>)

\* The walk of an archive within a member is over.
EndOfNested ==
    /\ Walking /\ Depth > 0 /\ AtEnd(Inner)
    /\ \E m \in ReadMember(stack[Depth]) : Continue(Front(stack), m, Inner.blocks)

EndOfArchive ==
    /\ Walking /\ Depth = 0 /\ AtEnd(Inner)
    /\ status' = "ok" /\ result' = Inner.blocks
    /\ UNCHANGED <<input, stack>>

\* A member that cannot be walked over, and literals that are too many.
Exceeds(f, kept) == f.total + Bytes(kept) > MaxBytes

Refuse ==
    /\ \/ status = "running" /\ stack = <<>> /\ (~input.gzip \/ Decompressed(input) = {})
       \/ /\ Walking /\ ~AtEnd(Inner)
          /\ \A m \in ReadMember(Inner) :
                /\ IsRegular(m)
                /\ \/ Unreadable(m)
                   \/ Archive(m) # {} /\ ~DepthAllowed
                   \/ Archive(m) = {} /\ Exceeds(Inner, <<[offset |-> Inner.pos, len |-> m.size]>>)
       \/ Walking /\ AtEnd(Inner) /\ Depth > 0 /\ Exceeds(stack[Depth], Inner.blocks)
    /\ status' = "error"
    /\ UNCHANGED <<input, stack, result>>

Returned == status # "running" /\ UNCHANGED vars

Next ==
    \/ Open \/ RegularFile \/ NestedArchive \/ OtherMember
    \/ EndOfNested \/ EndOfArchive \/ Refuse \/ Returned

\* The scan is one call: it goes on until it returns.
Spec == Init /\ [][Next]_vars /\ WF_vars(Next)

-----------------------------------------------------------------------------
(* Properties.                                                             *)

BlockType == [offset : Nat, len : Nat]

\* Every variable has its type; a walk stands at whole blocks.
TypeOK ==
    /\ status \in {"running", "ok", "error"}
    /\ result \in Seq(BlockType)
    /\ \A d \in DOMAIN stack :
          /\ stack[d].pos \in Nat /\ stack[d].pos % BlockSize = 0
          /\ stack[d].members \in Nat /\ stack[d].total \in Nat
          /\ stack[d].blocks \in Seq(BlockType)

\* In every archive that is open the limits hold: depth, members, and literals,
\* those of the archives within it counted: many small archives
\* are worth no more than one large.
LimitsHeld ==
    /\ Len(stack) <= MaxDepth + 1
    /\ \A d \in DOMAIN stack :
          /\ stack[d].members <= MaxMembers
          /\ stack[d].total = Bytes(stack[d].blocks) /\ stack[d].total <= MaxBytes
    /\ Bytes(result) <= MaxBytes

\* The scan returns, whatever the archive.
Returns == <>(status # "running")

=============================================================================
