---------------------------- MODULE BloomProofs -----------------------------
(***************************************************************************)
(* The Bloom filter never answers "false" for a member, whatever the hash  *)
(* functions, the sizes and the sequence of calls; and it implements the   *)
(* promise of an approximate set.                                          *)
(***************************************************************************)
EXTENDS BloomFilter, TLAPS

-----------------------------------------------------------------------------
\* Arithmetic of the probes.

\* Clamping puts an integer between two bounds.
LEMMA ClampInRange ==
    ASSUME NEW v \in Int, NEW lo \in Int, NEW hi \in Int, lo <= hi
    PROVE  Clamp(v, lo, hi) \in lo..hi
BY DEF Clamp

\* Every probe of nth_hash lies below the modulus it is reduced by.
LEMMA ProbesInRange ==
    ASSUME NEW x \in Items, NEW k \in Nat, NEW m \in Nat \ {0}
    PROVE  Probes(x, k, m) \subseteq 0..(m - 1)
<1> SUFFICES ASSUME NEW n \in 0..(k - 1)
             PROVE  NthHash(Hash1(x), Hash2(x), n, m) \in 0..(m - 1)
  BY DEF Probes
<1>1. Hash1(x) \in Int /\ Hash2(x) \in Int
  BY HashesInRange, BloomConstants
<1>2. n * Hash2(x) \in Int
  BY <1>1
<1>3. (Hash1(x) + n * Hash2(x)) % HashModulus \in Int
  BY <1>1, <1>2, BloomConstants
<1> QED
  BY <1>3 DEF NthHash

\* Fewer probes are a subset of more probes under the same modulus.
LEMMA FewerProbes ==
    ASSUME NEW x, NEW m, NEW k \in Nat, NEW j \in Nat, j <= k
    PROVE  Probes(x, j, m) \subseteq Probes(x, k, m)
BY DEF Probes

\* There is always at least one probe.
LEMMA ProbesNonEmpty ==
    ASSUME NEW x, NEW m, NEW k \in Nat \ {0}
    PROVE  Probes(x, k, m) # {}
<1>1. 0 \in 0..(k - 1)
  OBVIOUS
<1> QED
  BY <1>1 DEF Probes

-----------------------------------------------------------------------------
\* What the constructors build and the operations keep.

\* An option over S, or its default in S, is unwrapped to an element of S.
LEMMA UnwrapOrIn ==
    ASSUME NEW S, NEW opt, opt \subseteq S, NEW d \in S
    PROVE  UnwrapOr(opt, d) \in S
BY DEF UnwrapOr, None

\* An empty filter of legal sizes is a filter.
LEMMA EmptyFilterOK ==
    ASSUME NEW m \in Nat \ {0}, NEW k \in 1..MaxHashes
    PROVE  /\ FilterOK(EmptyFilter(m, k))
           /\ EmptyFilter(m, k).bits = {}
BY DEF FilterOK, Filters, EmptyFilter

\* with_params and new clamp whatever they are given to legal sizes.
LEMMA WithParamsOK ==
    ASSUME NEW bits \in Int, NEW hashes \in Int
    PROVE  FilterOK(WithParams(bits, hashes)) /\ WithParams(bits, hashes).bits = {}
<1>1. Clamp(bits, 1, MaxBloomBits) \in 1..MaxBloomBits
  BY BloomConstants, ClampInRange
<1>2. Clamp(hashes, 1, MaxHashes) \in 1..MaxHashes
  BY BloomConstants, ClampInRange
<1>3. Clamp(bits, 1, MaxBloomBits) \in Nat \ {0}
  BY <1>1
<1> QED
  BY <1>2, <1>3, EmptyFilterOK DEF WithParams

\* Every rate new clamps to has a size per item.
LEMMA BitsPerItemInt ==
    ASSUME NEW r \in 1..MaxRate
    PROVE  BitsPerItem[r] \in Int
<1>1. BitsPerItem[r] \in Nat
  BY BitsPerItemInRange
<1> QED
  BY <1>1

\* new makes a legal, empty filter of any item count and any rate, NaN too.
LEMMA NewFilterOK ==
    ASSUME NEW items \in Int, NEW rate \in Int
    PROVE  FilterOK(NewFilter(items, rate)) /\ NewFilter(items, rate).bits = {}
<1> DEFINE n == Larger(items, 1)
           p == IF rate = NaN THEN 100 ELSE Clamp(rate, 1, MaxRate)
           m == Clamp((n * BitsPerItem[p] + 999) \div 1000, MinAutoBits, MaxBloomBits)
           k == Clamp((2 * 693 * m + 1000 * n) \div (2000 * n), 1, MaxHashes)
<1>1. n \in Int /\ n >= 1
  BY DEF Larger
<1>2. p \in 1..MaxRate
  BY BloomConstants DEF Clamp
<1>3. BitsPerItem[p] \in Int
  <2> HIDE DEF p
  <2> QED
    BY <1>2, BitsPerItemInt
<1>4. n * BitsPerItem[p] \in Int
  BY <1>1, <1>3
<1>5. (n * BitsPerItem[p] + 999) \div 1000 \in Int
  <2> DEFINE t == n * BitsPerItem[p]
  <2> t \in Int
    BY <1>4
  <2> HIDE DEF t
  <2> (t + 999) \div 1000 \in Int
    OBVIOUS
  <2> QED
    BY DEF t
<1>6. m \in MinAutoBits..MaxBloomBits
  <2> DEFINE t == (n * BitsPerItem[p] + 999) \div 1000
  <2> t \in Int
    BY <1>5
  <2> HIDE DEF t
  <2> Clamp(t, MinAutoBits, MaxBloomBits) \in MinAutoBits..MaxBloomBits
    BY BloomConstants, ClampInRange
  <2> QED
    BY DEF t
<1>7. m \in Nat \ {0}
  BY <1>6, BloomConstants
<1>8. (2 * 693 * m + 1000 * n) \div (2000 * n) \in Int
  <2> HIDE DEF m, n
  <2>1. 2000 * n \in Nat \ {0}
    BY <1>1
  <2>2. 2 * 693 * m + 1000 * n \in Int
    BY <1>1, <1>7
  <2> QED
    BY <2>1, <2>2
<1>9. k \in 1..MaxHashes
  <2> DEFINE t == (2 * 693 * m + 1000 * n) \div (2000 * n)
  <2> t \in Int
    BY <1>8
  <2> HIDE DEF t
  <2> Clamp(t, 1, MaxHashes) \in 1..MaxHashes
    BY BloomConstants, ClampInRange
  <2> QED
    BY DEF t
<1>10. NewFilter(items, rate) = EmptyFilter(m, k)
  BY DEF NewFilter
<1> HIDE DEF m, k
<1> QED
  BY <1>7, <1>9, <1>10, EmptyFilterOK

\* Inserting sets the probes of the item and clears nothing.
LEMMA InsertItemOK ==
    ASSUME NEW f, FilterOK(f), NEW x \in Items
    PROVE  /\ FilterOK(InsertItem(f, x))
           /\ InsertItem(f, x).num_bits = f.num_bits
           /\ InsertItem(f, x).num_hashes = f.num_hashes
           /\ InsertItem(f, x).len = f.len
           /\ InsertItem(f, x).bits = f.bits \cup Probes(x, f.num_hashes, f.num_bits)
<1>1. Probes(x, f.num_hashes, f.num_bits) \subseteq 0..(f.num_bits - 1)
  BY ProbesInRange, BloomConstants DEF FilterOK, Filters
<1>2. InsertItem(f, x) = [bits |-> f.bits \cup Probes(x, f.num_hashes, f.num_bits), len |-> f.len,
                          num_hashes |-> f.num_hashes, num_bits |-> f.num_bits]
  BY DEF InsertItem, FilterOK, Filters
<1> QED
  BY <1>1, <1>2 DEF FilterOK, Filters

\* The inserted item is answered "true", and so is every item that was before.
LEMMA InsertItemAnswers ==
    ASSUME NEW f, FilterOK(f), NEW x \in Items
    PROVE  /\ MayContain(InsertItem(f, x), x)
           /\ \A y \in Items : MayContain(f, y) => MayContain(InsertItem(f, x), y)
BY InsertItemOK DEF MayContain

\* Clearing leaves a legal filter with no bit set, over a longer vector.
LEMMA ClearFilterOK ==
    ASSUME NEW f, FilterOK(f)
    PROVE  /\ FilterOK(ClearFilter(f))
           /\ ClearFilter(f).bits = {}
BY DEF ClearFilter, FilterOK, Filters

\* from_bits makes a legal filter of a non-empty vector and any hash count.
LEMMA FromBitsOK ==
    ASSUME NEW f, FilterOK(f), NEW hashes \in Nat
    PROVE  FilterOK(FromBits(f.bits, f.len, hashes))
<1>1. Clamp(hashes, 1, MaxHashes) \in 1..MaxHashes
  BY BloomConstants, ClampInRange
<1>2. f.bits \subseteq 0..(f.len - 1) /\ f.len \in Nat \ {0}
  BY DEF FilterOK, Filters
<1> QED
  BY <1>1, <1>2 DEF FromBits, FilterOK, Filters

-----------------------------------------------------------------------------
\* Whatever the builder was told, it builds a legal, empty filter.
LEMMA BuildOK ==
    ASSUME NEW opts \in BuildOptions
    PROVE  FilterOK(Build(opts)) /\ Build(opts).bits = {}
<1>1. /\ UnwrapOr(opts.num_bits, 1) \in Int
      /\ UnwrapOr(opts.num_hashes, 1) \in Int
      /\ UnwrapOr(opts.expected_items, 1000) \in Int
      /\ UnwrapOr(opts.rate, 100) \in Int
  BY BuildOptionsOK, UnwrapOrIn
<1> QED
  BY <1>1, WithParamsOK, NewFilterOK DEF Build

\* A filter with no bit set answers "false" to everything.
LEMMA NoBitsNoAnswers ==
    ASSUME NEW f, FilterOK(f), f.bits = {}
    PROVE  Positive(f) = {}
<1>1. \A x : Probes(x, f.num_hashes, f.num_bits) # {}
  BY ProbesNonEmpty, BloomConstants DEF FilterOK, Filters
<1> QED
  BY <1>1 DEF Positive, MayContain

-----------------------------------------------------------------------------
(***************************************************************************)
(* The inductive invariant.  NoFalseNegatives alone is not inductive: a    *)
(* reload brings back the stored bits, so they must answer for the stored  *)
(* members too, and the two hash counts must be compared under one modulus.*)
(***************************************************************************)
Answers(f, S) == \A x \in S : MayContain(f, x)

IInv ==
    /\ TypeOK
    /\ NoFalseNegatives
    /\ Answers(saved.filter, saved.members)

\* A vector reloaded under the modulus it was filled by, with no more probes,
\* answers "true" for the members it was stored with.
LEMMA ReloadAnswers ==
    ASSUME NEW s, FilterOK(s.filter), s.members \in SUBSET Items,
           Answers(s.filter, s.members), NEW hashes \in Nat
    PROVE  Answers(FromBits(s.filter.bits, s.filter.len, hashes), Answerable(s, hashes))
<1> DEFINE k == Clamp(hashes, 1, MaxHashes)
<1> SUFFICES ASSUME s.filter.len = s.filter.num_bits, k <= s.filter.num_hashes,
                    NEW x \in s.members
             PROVE  Probes(x, k, s.filter.len) \subseteq s.filter.bits
  BY DEF Answers, Answerable, MayContain, FromBits
<1>1. k \in 1..MaxHashes /\ s.filter.num_hashes \in Nat
  BY BloomConstants, ClampInRange DEF FilterOK, Filters
<1>2. Probes(x, k, s.filter.len) \subseteq Probes(x, s.filter.num_hashes, s.filter.len)
  BY <1>1, FewerProbes
<1> QED
  BY <1>2 DEF Answers, MayContain

\* A filter that was just built satisfies the inductive invariant.
THEOREM InitInv == Init => IInv
<1> SUFFICES ASSUME Init PROVE IInv
  OBVIOUS
<1>1. PICK opts \in BuildOptions : filter = Build(opts)
  BY DEF Init
<1>2. FilterOK(filter)
  BY <1>1, BuildOK
<1> QED
  BY <1>2 DEF Init, IInv, TypeOK, NoFalseNegatives, Answers, Stored

\* Insert, clear, serialise and reload keep the inductive invariant.
THEOREM StepInv == IInv /\ [Next]_vars => IInv'
<1> SUFFICES ASSUME IInv, [Next]_vars PROVE IInv'
  OBVIOUS
<1> USE DEF IInv
<1>1. ASSUME NEW x \in Items, Insert(x) PROVE IInv'
  <2>1. TypeOK'
    BY <1>1, InsertItemOK DEF Insert, TypeOK
  <2>2. NoFalseNegatives'
    BY <1>1, InsertItemAnswers DEF Insert, TypeOK, NoFalseNegatives
  <2>3. Answers(saved.filter, saved.members)'
    BY <1>1 DEF Insert, Answers, MayContain
  <2> QED
    BY <2>1, <2>2, <2>3
<1>2. CASE Clear
  BY <1>2, ClearFilterOK DEF Clear, TypeOK, NoFalseNegatives, Answers, MayContain
<1>3. CASE Serialize
  BY <1>3 DEF Serialize, Stored, TypeOK, NoFalseNegatives, Answers, MayContain
<1>4. ASSUME NEW hashes \in ReloadHashes, Reload(hashes) PROVE IInv'
  <2>1. hashes \in Nat
    BY ReloadHashesInNat
  <2>2. TypeOK'
    BY <1>4, <2>1, FromBitsOK DEF Reload, TypeOK, Answerable
  <2>3. Answers(FromBits(saved.filter.bits, saved.filter.len, hashes), Answerable(saved, hashes))
    BY <2>1, ReloadAnswers DEF TypeOK
  <2>4. NoFalseNegatives'
    BY <1>4, <2>3 DEF Reload, NoFalseNegatives, Answers
  <2>5. Answers(saved.filter, saved.members)'
    BY <1>4 DEF Reload, Answers, MayContain
  <2> QED
    BY <2>2, <2>4, <2>5
<1>5. CASE UNCHANGED vars
  BY <1>5 DEF vars, TypeOK, NoFalseNegatives, Answers, MayContain
<1> QED
  BY <1>1, <1>2, <1>3, <1>4, <1>5 DEF Next

\* The inductive invariant holds throughout every behaviour.
THEOREM Invariance == Spec => []IInv
BY InitInv, StepInv, PTL DEF Spec

\* The filter and the stored copy keep their types: no probe is ever out of
\* the backing vector's range.
THEOREM TypeCorrect == Spec => []TypeOK
<1>1. IInv => TypeOK
  BY DEF IInv
<1> QED
  BY <1>1, Invariance, PTL

\* may_contain's "false" is definite, through inserts, clears, saves and
\* reloads, for every hash function and every size.
THEOREM NoFalseNegativesCorrect == Spec => []NoFalseNegatives
<1>1. IInv => NoFalseNegatives
  BY DEF IInv
<1> QED
  BY <1>1, Invariance, PTL

-----------------------------------------------------------------------------
\* The filter implements the approximate set.

\* A filter that was just built is an empty approximate set.
LEMMA ImplementsInit == Init => Promise!Init
<1> SUFFICES ASSUME Init PROVE Promise!Init
  OBVIOUS
<1>1. PICK opts \in BuildOptions : filter = Build(opts)
  BY DEF Init
<1>2. Positive(filter) = {}
  BY <1>1, BuildOK, NoBitsNoAnswers
<1> QED
  BY <1>1, <1>2, BuildOK DEF Init, Promise!Init, Stored

\* Each operation is the operation of the approximate set it stands for.
LEMMA ImplementsStep == IInv /\ [Next]_vars => [Promise!Next]_(Promise!vars)
<1> SUFFICES ASSUME IInv, [Next]_vars PROVE [Promise!Next]_(Promise!vars)
  OBVIOUS
<1> USE DEF IInv, TypeOK
<1>1. ASSUME NEW x \in Items, Insert(x) PROVE Promise!Add(x)
  <2>1. Positive(filter) \cup {x} \subseteq Positive(filter')
    BY <1>1, InsertItemAnswers DEF Insert, Positive
  <2>2. Positive(filter)' \in {P \in SUBSET Items : Positive(filter) \cup {x} \subseteq P}
    BY <2>1 DEF Positive
  <2>3. filter'.bits # {}
    <3>1. Probes(x, filter.num_hashes, filter.num_bits) # {}
      BY ProbesNonEmpty, BloomConstants DEF FilterOK, Filters
    <3> QED
      BY <1>1, <3>1, InsertItemOK DEF Insert
  <2> QED
    BY <1>1, <2>2, <2>3 DEF Insert, Promise!Add
<1>2. CASE Clear
  <2>1. Positive(filter') = {}
    BY <1>2, ClearFilterOK, NoBitsNoAnswers DEF Clear
  <2>2. filter'.bits = {}
    BY <1>2, ClearFilterOK DEF Clear
  <2> QED
    BY <1>2, <2>1, <2>2 DEF Clear, Promise!Reset, Promise!Next
<1>3. CASE Serialize
  BY <1>3 DEF Serialize, Stored, Promise!Save, Promise!Next
<1>4. ASSUME NEW hashes \in ReloadHashes, Reload(hashes) PROVE Promise!Restore
  <2>1. members' \in {{}, saved.members}
    BY <1>4 DEF Reload, Answerable
  <2>2. Answers(filter', members')
    BY <1>4, ReloadAnswers, ReloadHashesInNat DEF Reload
  <2>3. members' \subseteq Positive(filter')
    BY <2>1, <2>2 DEF Answers, Positive
  <2>4. Positive(filter)' \in {P \in SUBSET Items : members' \subseteq P}
    BY <2>3 DEF Positive
  <2>5. filter'.bits = saved.filter.bits
    BY <1>4 DEF Reload, FromBits
  <2>6. filter'.bits = {} => Positive(filter') = {}
    BY <1>4, FromBitsOK, ReloadHashesInNat, NoBitsNoAnswers DEF Reload
  <2> QED
    BY <1>4, <2>1, <2>4, <2>5, <2>6 DEF Reload, Promise!Restore
<1>5. CASE UNCHANGED vars
  BY <1>5 DEF vars, Promise!vars
<1> QED
  BY <1>1, <1>2, <1>3, <1>4, <1>5 DEF Next, Promise!Next

\* Every behaviour of the Bloom filter is one of an approximate set.
THEOREM Implements == Spec => ImplementsPromise
BY ImplementsInit, ImplementsStep, Invariance, PTL DEF Spec, ImplementsPromise, Promise!Spec

=============================================================================
