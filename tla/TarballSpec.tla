----------------------------- MODULE TarballSpec -----------------------------
(***************************************************************************)
(* What a scan of an archive returns and what it refuses, by the members   *)
(* of the archive and never by a walk over its bytes.                      *)
(***************************************************************************)
EXTENDS Tarball

\* The archive a regular member holds.
Held(m) ==
    {a \in IF m.type = "file" /\ m.content.gzip THEN m.content.tar ELSE {} :
        a.magic /\ a.members # <<>> /\ Length(a) >= BlockSize}

\* The members of which something is there.
Begun(a) == {i \in DOMAIN a.members : Offset(a, i) < Length(a)}

\* By the number of levels that may still be opened.
Contents[n \in 0..(MaxDepth + 1)] ==
    [a \in Archives |->
        IF n = 0 THEN <<>>
        ELSE FlattenSeq([i \in 1..Cardinality(Begun(a)) |->
                LET m == a.members[i]
                IN  IF m.type # "file" THEN <<>>
                    ELSE IF Held(m) # {} THEN Contents[n - 1][CHOOSE h \in Held(m) : TRUE]
                    ELSE <<[offset |-> Offset(a, i), len |-> m.size]>>])]

\* The archive ends in a header, in a content or in the first zero block.
CutShort(a) ==
    \E i \in 1..(Len(a.members) + 1) :
        /\ Length(a) > Offset(a, i)
        /\ Length(a) < Offset(a, i) + BlockSize + IF i \in DOMAIN a.members THEN a.members[i].size ELSE 0

\* The end of the archive is worth a member: behind MaxMembers nothing may follow.
TooMany(a) == \E i \in 1..(Len(a.members) + 1) : i > MaxMembers /\ Length(a) > Offset(a, i)

NotWalked(m) ==
    \/ m.size \notin Written(m.field)
    \/ LeavesDirectory(m.name) \/ m.type \in {"symlink", "hardlink"}
    \/ m.type = "file" /\ m.content.gzip /\ \A a \in m.content.tar : Length(a) > MaxBytes

Refused[n \in 0..(MaxDepth + 1)] ==
    [a \in Archives |->
        \/ n = 0 \/ CutShort(a) \/ TooMany(a)
        \/ \E i \in Begun(a) :
              NotWalked(a.members[i]) \/ \E h \in Held(a.members[i]) : Refused[n - 1][h]
        \/ Bytes(Contents[n][a]) > MaxBytes]

\* Of every archive, cut anywhere, the scan returns the contents of the regular
\* files in order, those of archives in archives where they stand, or nothing
\* when, and only when, there is something in it that is refused.
ScanExact ==
    LET whole == {a \in IF input.gzip THEN input.tar ELSE {} : Length(a) <= MaxBytes}
            levels == MaxDepth + 1
    IN  /\ status = "ok" => \E a \in whole : ~Refused[levels][a] /\ result = Contents[levels][a]
        /\ status = "error" => \A a \in whole : Refused[levels][a]

=============================================================================
