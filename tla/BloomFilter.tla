---------------------------- MODULE BloomFilter -----------------------------
(***************************************************************************)
(* The life of one BloomFilter in the hands of a client: built by          *)
(* BloomFilterBuilder::build, filled, cleared, its raw bits taken out to   *)
(* be stored, and a filter rebuilt from stored bits by from_bits.          *)
(***************************************************************************)
EXTENDS BloomOps

CONSTANTS
    BuildOptions,     \* the settings of a BloomFilterBuilder a client tries
    ReloadHashes,     \* the hash counts a client passes to from_bits
    MaxLen            \* bound on the length of the backing vector

ASSUME MaxLenInNat == MaxLen \in Nat

ASSUME BuildOptionsOK ==
    /\ BuildOptions # {}
    /\ \A opts \in BuildOptions :
          /\ opts.num_bits \subseteq Nat /\ opts.num_hashes \subseteq Nat
          /\ opts.expected_items \subseteq Nat /\ opts.rate \subseteq Int

ASSUME ReloadHashesInNat == ReloadHashes \subseteq Nat

VARIABLES
    filter,           \* the BloomFilter
    members,          \* ghost: the items the filter must answer "true" for
    saved             \* the bits a client stored, with the ghost that goes
                      \* with them and the parameters they were taken under

vars == <<filter, members, saved>>

-----------------------------------------------------------------------------

Stored(f, S) == [filter |-> f, members |-> S]

Init ==
    /\ \E opts \in BuildOptions : filter = Build(opts)
    /\ members = {}
    /\ saved = Stored(filter, {})

Insert(x) ==
    /\ filter' = InsertItem(filter, x)
    /\ members' = members \cup {x}
    /\ UNCHANGED saved

Clear ==
    /\ filter.len + filter.num_bits <= MaxLen
    /\ filter' = ClearFilter(filter)
    /\ members' = {}
    /\ UNCHANGED saved

\* bits() lends the vector out; the client writes it away.
Serialize ==
    /\ saved' = Stored(filter, members)
    /\ UNCHANGED <<filter, members>>

\* The stored bits mean what they meant when they were stored only under the
\* modulus they were set by, and for at most as many probes.
Answerable(s, hashes) ==
    IF s.filter.len = s.filter.num_bits /\ Clamp(hashes, 1, MaxHashes) <= s.filter.num_hashes
    THEN s.members
    ELSE {}

Reload(hashes) ==
    /\ filter' = FromBits(saved.filter.bits, saved.filter.len, hashes)
    /\ members' = Answerable(saved, hashes)
    /\ UNCHANGED saved

Next ==
    \/ \E x \in Items : Insert(x)
    \/ Clear
    \/ Serialize
    \/ \E hashes \in ReloadHashes : Reload(hashes)

Spec == Init /\ [][Next]_vars

-----------------------------------------------------------------------------
(***************************************************************************)
(* Properties.                                                             *)
(***************************************************************************)

\* The filter and the stored copy are filters over the items: every bit that
\* is set lies below the modulus and the modulus within the vector, so the
\* index BitVec::set is given is never out of range.
TypeOK ==
    /\ FilterOK(filter)
    /\ FilterOK(saved.filter)
    /\ members \in SUBSET Items
    /\ saved.members \in SUBSET Items

\* may_contain's "false" means "definitely not in set", through any sequence
\* of inserts, clears, saves and reloads whose bits are still answerable.
NoFalseNegatives == \A x \in members : MayContain(filter, x)

\* from_bits "reconstructs a bloom filter" from its bits and "the number of hash
\* rounds associated with the serialized filter": given those, it answers for
\* everything the filter did.
RebuiltKeepsMembers ==
    LET rebuilt == FromBits(saved.filter.bits, saved.filter.len, saved.filter.num_hashes)
    IN  \A x \in saved.members : MayContain(rebuilt, x)

\* The filter implements the promise of an approximate set.
Positive(f) == {x \in Items : MayContain(f, x)}

Promise == INSTANCE ApproximateSet WITH
    positive <- Positive(filter),
    blank <- filter.bits = {},
    saved <- [members |-> saved.members, positive |-> Positive(saved.filter),
              blank |-> saved.filter.bits = {}]

ImplementsPromise == Promise!Spec

=============================================================================
