----------------------------- MODULE DataLemmas -----------------------------
(***************************************************************************)
(* Sums over finite sets and sequences of any size, sequences laid end to  *)
(* end, powers of two, and the order of finite sets of numbers.            *)
(*                                                                         *)
(* SumFunction is defined by recursion over subsets, FlattenSeq by         *)
(* recursion over lengths.  What they compute follows from one principle,  *)
(* that a nonempty set of naturals has a least element: a least set, or    *)
(* length, for which a claim fails is empty or has a smaller one below it, *)
(* for which the claim holds.                                              *)
(***************************************************************************)
EXTENDS Integers, Sequences, FiniteSets, Functions, SequencesExt,
        WellFoundedInduction, FiniteSetTheorems, FunctionTheorems,
        SequenceTheorems, TLAPS

-----------------------------------------------------------------------------
(* Least elements.                                                         *)

\* A nonempty set of naturals has a least element.
LEMMA LeastNat ==
  ASSUME NEW T, T \subseteq Nat, T # {}
  PROVE  \E x \in T : \A y \in T : x <= y
<1> DEFINE R == {ss \in Nat \X Nat : ss[1] < ss[2]}
<1>1. R = OpToRel(<, Nat)
  BY Zenon DEF OpToRel
<1>2. IsWellFoundedOn(R, Nat)
  BY <1>1, NatLessThanWellFounded, Zenon
<1> HIDE DEF R
<1>3. PICK x \in T : \A y \in T : ~ (<<y, x>> \in R)
  BY <1>2, WFMin
<1>4. \A y \in T : ~(y < x)
  BY <1>3 DEF R
<1>5. QED
  BY <1>4

\* Of the finite sets in a family one is the smallest.
LEMMA LeastSet ==
  ASSUME NEW F, F # {}, \A s \in F : IsFiniteSet(s)
  PROVE  \E s \in F : \A t \in F : t \subseteq s => t = s
<1> DEFINE N == {Cardinality(s) : s \in F}
<1>1. N \subseteq Nat /\ N # {}
  BY FS_CardinalityType
<1> HIDE DEF N
<1>2. PICK n \in N : \A m \in N : n <= m
  BY <1>1, LeastNat
<1>3. PICK s \in F : n = Cardinality(s)
  BY <1>2 DEF N
<1>4. ASSUME NEW t \in F, t \subseteq s, t # s  PROVE FALSE
  <2>1. Cardinality(t) < Cardinality(s)
    <3>1. t \in SUBSET s /\ IsFiniteSet(s) /\ IsFiniteSet(t)
      BY <1>4, <1>3
    <3>2. Cardinality(t) <= Cardinality(s) /\ Cardinality(s) # Cardinality(t)
      BY <3>1, <1>4, FS_Subset
    <3>3. Cardinality(t) \in Nat /\ Cardinality(s) \in Nat
      BY <3>1, FS_CardinalityType
    <3>4. QED
      BY <3>2, <3>3
  <2>2. Cardinality(s) <= Cardinality(t)
    BY <1>2, <1>3 DEF N
  <2>3. Cardinality(t) \in Nat /\ Cardinality(s) \in Nat
    BY <1>3, FS_CardinalityType
  <2>4. QED
    BY <2>1, <2>2, <2>3
<1>5. QED
  BY <1>3, <1>4

-----------------------------------------------------------------------------
(* The recursion of SumFunctionOnSet.                                      *)

AnyOf(s) == CHOOSE x \in s : TRUE
Step(g, h, s) == IF s = {} THEN 0 ELSE h[AnyOf(s)] + g[s \ {AnyOf(s)}]
Sums(g, h, S) == g = [s \in SUBSET S |-> Step(g, h, s)]
TheSums(h, S) == CHOOSE g : Sums(g, h, S)

\* What SumFunctionOnSet stands for.
LEMMA SumDef == ASSUME NEW h, NEW S PROVE SumFunctionOnSet(h, S) = TheSums(h, S)[S]
BY Zenon DEF SumFunctionOnSet, FoldFunctionOnSet, MapThenFoldSet, TheSums, Sums, Step, AnyOf

\* The element taken first is one of the set.
LEMMA AnyOfIn == ASSUME NEW s, s # {} PROVE AnyOf(s) \in s
BY DEF AnyOf

\* One unfolding.
LEMMA SumsAt ==
  ASSUME NEW h, NEW S, NEW g, Sums(g, h, S), NEW s \in SUBSET S
  PROVE  g[s] = Step(g, h, s)
BY DEF Sums

\* The equations have at most one solution.
LEMMA SumsUnique ==
  ASSUME NEW h, NEW S, NEW T, NEW g, NEW f, Sums(g, h, S), Sums(f, h, T),
         IsFiniteSet(S), S \subseteq T
  PROVE  g[S] = f[S]
<1> DEFINE F == {s \in SUBSET S : g[s] # f[s]}
<1>1. SUFFICES F = {}
  OBVIOUS
<1>2. SUFFICES ASSUME F # {} PROVE FALSE
  OBVIOUS
<1>3. \A s \in F : IsFiniteSet(s)
  BY FS_Subset
<1>4. PICK s \in F : \A t \in F : t \subseteq s => t = s
  <2> HIDE DEF F
  <2> QED BY <1>2, <1>3, LeastSet
<1>5. g[s] = Step(g, h, s)
  BY SumsAt
<1>6. f[s] = Step(f, h, s)
  <2>1. s \in SUBSET T
    OBVIOUS
  <2>2. QED
    BY <2>1, SumsAt
<1>7. s # {}
  BY <1>4, <1>5, <1>6 DEF Step
<1>8. s \ {AnyOf(s)} \notin F
  BY <1>4, <1>7, AnyOfIn
<1>9. QED
  BY <1>4, <1>5, <1>6, <1>7, <1>8 DEF Step

\* They have one.
LEMMA SumsExist ==
  ASSUME NEW h, NEW S, IsFiniteSet(S)
  PROVE  Sums(TheSums(h, S), h, S)
<1> DEFINE F == {s \in SUBSET S : ~ \E g : Sums(g, h, s)}
<1>1. SUFFICES S \notin F
  BY Zenon DEF TheSums
<1>2. SUFFICES ASSUME F # {} PROVE FALSE
  OBVIOUS
<1>3. \A s \in F : IsFiniteSet(s)
  BY FS_Subset
<1>4. PICK s \in F : \A t \in F : t \subseteq s => t = s
  <2> HIDE DEF F
  <2> QED BY <1>2, <1>3, LeastSet
<1> DEFINE v(t) == TheSums(h, t)[t]
           at(t) == IF t = {} THEN 0 ELSE h[AnyOf(t)] + v(t \ {AnyOf(t)})
           g == [t \in SUBSET s |-> at(t)]
<1>5. ASSUME NEW t \in SUBSET s, t # s  PROVE Sums(TheSums(h, t), h, t) /\ IsFiniteSet(t)
  <2>1. t \notin F
    BY <1>4, <1>5
  <2>2. \E f : Sums(f, h, t)
    BY <2>1
  <2>3. QED
    BY <2>2, <1>4, <1>3, FS_Subset, Zenon DEF TheSums
<1>6. ASSUME NEW t \in SUBSET s, t # s  PROVE v(t) = at(t)
  <2>1. TheSums(h, t)[t] = Step(TheSums(h, t), h, t)
    <3>1. Sums(TheSums(h, t), h, t) /\ t \in SUBSET t
      BY <1>5, <1>6
    <3>2. QED
      BY <3>1, SumsAt
  <2>2. ASSUME t # {} PROVE TheSums(h, t)[t \ {AnyOf(t)}] = v(t \ {AnyOf(t)})
    <3> DEFINE r == t \ {AnyOf(t)}
    <3>1. r # s /\ r \in SUBSET s /\ r \subseteq t
      BY <2>2, <1>6, AnyOfIn
    <3>2. Sums(TheSums(h, r), h, r) /\ IsFiniteSet(r)
      BY <3>1, <1>5
    <3> HIDE DEF r
    <3>3. TheSums(h, r)[r] = TheSums(h, t)[r]
      <4>1. Sums(TheSums(h, t), h, t)
        BY <1>5, <1>6
      <4> HIDE DEF F, v, at, g
      <4>2. QED
        BY <3>1, <3>2, <4>1, SumsUnique
    <3>4. QED
      BY <3>3 DEF r
  <2>3. QED
    BY <2>1, <2>2 DEF Step
<1>7. ASSUME NEW t \in SUBSET s  PROVE g[t] = Step(g, h, t)
  <2>1. CASE t = {}
    BY <2>1 DEF Step
  <2>2. CASE t # {}
    <3> DEFINE r == t \ {AnyOf(t)}
    <3>1. r \in SUBSET s /\ r # s
      BY <2>2, AnyOfIn
    <3>2. g[r] = v(r)
      <4>1. g[r] = at(r)
        BY <3>1
      <4>2. v(r) = at(r)
        <5> HIDE DEF v, at, g, r
        <5> QED BY <3>1, <1>6
      <4>3. QED
        BY <4>1, <4>2, Zenon
    <3>3. g[t] = h[AnyOf(t)] + v(r)
      BY <2>2
    <3>4. QED
      BY <2>2, <3>2, <3>3 DEF Step
  <2>3. QED
    BY <2>1, <2>2
<1>8. Sums(g, h, s)
  <2>1. g = [t \in SUBSET s |-> Step(g, h, t)]
    <3>1. DOMAIN g = SUBSET s
      OBVIOUS
    <3>2. g = [t \in SUBSET s |-> g[t]]
      OBVIOUS
    <3> HIDE DEF g
    <3>3. QED
      BY <3>1, <3>2, <1>7
  <2> HIDE DEF g
  <2>2. QED
    BY <2>1, Zenon DEF Sums
<1>9. QED
  BY <1>4, <1>8

-----------------------------------------------------------------------------
(* What sums are.                                                          *)

\* A sum is its first term and the sum of the others.
LEMMA SumAny ==
  ASSUME NEW h, NEW S, IsFiniteSet(S)
  PROVE  SumFunctionOnSet(h, S) =
           IF S = {} THEN 0 ELSE h[AnyOf(S)] + SumFunctionOnSet(h, S \ {AnyOf(S)})
<1> DEFINE R == S \ {AnyOf(S)}
<1>1. Sums(TheSums(h, S), h, S)
  BY SumsExist
<1>2. TheSums(h, S)[S] = IF S = {} THEN 0 ELSE h[AnyOf(S)] + TheSums(h, S)[R]
  <2>1. S \in SUBSET S
    OBVIOUS
  <2>2. TheSums(h, S)[S] = Step(TheSums(h, S), h, S)
    BY <1>1, <2>1, SumsAt
  <2>3. QED
    BY <2>2 DEF Step
<1>3. IsFiniteSet(R) /\ R \subseteq S
  BY FS_Subset
<1>4. Sums(TheSums(h, R), h, R)
  BY <1>3, SumsExist
<1> HIDE DEF R
<1>5. TheSums(h, R)[R] = TheSums(h, S)[R]
  BY <1>1, <1>3, <1>4, SumsUnique
<1>6. QED
  BY <1>2, <1>5, SumDef DEF R

\* No summands.
LEMMA SumEmpty == ASSUME NEW h PROVE SumFunctionOnSet(h, {}) = 0
BY SumAny, FS_EmptySet

\* Sums of naturals are naturals.
LEMMA SumType ==
  ASSUME NEW h, NEW S, IsFiniteSet(S), \A x \in S : h[x] \in Nat
  PROVE  SumFunctionOnSet(h, S) \in Nat
<1> DEFINE F == {s \in SUBSET S : SumFunctionOnSet(h, s) \notin Nat}
<1>1. SUFFICES ASSUME F # {} PROVE FALSE
  OBVIOUS
<1>2. \A s \in F : IsFiniteSet(s)
  BY FS_Subset
<1>3. PICK s \in F : \A t \in F : t \subseteq s => t = s
  <2> HIDE DEF F
  <2> QED BY <1>1, <1>2, LeastSet
<1>4. SumFunctionOnSet(h, s) = IF s = {} THEN 0 ELSE h[AnyOf(s)] + SumFunctionOnSet(h, s \ {AnyOf(s)})
  BY <1>2, SumAny
<1>5. s # {}
  BY <1>4
<1>6. AnyOf(s) \in s /\ s \ {AnyOf(s)} \notin F
  BY <1>3, <1>5, AnyOfIn
<1>7. QED
  BY <1>4, <1>5, <1>6

\* A sum depends on its summands only.
LEMMA SumSame ==
  ASSUME NEW h, NEW k, NEW S, IsFiniteSet(S), \A x \in S : h[x] = k[x]
  PROVE  SumFunctionOnSet(h, S) = SumFunctionOnSet(k, S)
<1> DEFINE F == {s \in SUBSET S : SumFunctionOnSet(h, s) # SumFunctionOnSet(k, s)}
<1>1. SUFFICES ASSUME F # {} PROVE FALSE
  OBVIOUS
<1>2. \A s \in F : IsFiniteSet(s)
  BY FS_Subset
<1>3. PICK s \in F : \A t \in F : t \subseteq s => t = s
  <2> HIDE DEF F
  <2> QED BY <1>1, <1>2, LeastSet
<1>4. SumFunctionOnSet(h, s) = IF s = {} THEN 0 ELSE h[AnyOf(s)] + SumFunctionOnSet(h, s \ {AnyOf(s)})
  BY <1>2, SumAny
<1>5. SumFunctionOnSet(k, s) = IF s = {} THEN 0 ELSE k[AnyOf(s)] + SumFunctionOnSet(k, s \ {AnyOf(s)})
  BY <1>2, SumAny
<1>6. s # {}
  BY <1>3, <1>4, <1>5
<1>7. AnyOf(s) \in s /\ s \ {AnyOf(s)} \notin F
  BY <1>3, <1>6, AnyOfIn
<1>8. QED
  BY <1>3, <1>4, <1>5, <1>6, <1>7

\* A factor of every summand is one of the sum.
LEMMA SumScale ==
  ASSUME NEW h, NEW k, NEW S, IsFiniteSet(S), NEW c \in Nat,
         \A x \in S : h[x] \in Nat /\ k[x] = c * h[x]
  PROVE  SumFunctionOnSet(k, S) = c * SumFunctionOnSet(h, S)
<1> DEFINE F == {s \in SUBSET S : SumFunctionOnSet(k, s) # c * SumFunctionOnSet(h, s)}
<1>1. SUFFICES ASSUME F # {} PROVE FALSE
  OBVIOUS
<1>2. \A s \in F : IsFiniteSet(s)
  BY FS_Subset
<1>3. PICK s \in F : \A t \in F : t \subseteq s => t = s
  <2> HIDE DEF F
  <2> QED BY <1>1, <1>2, LeastSet
<1>4. SumFunctionOnSet(h, s) = IF s = {} THEN 0 ELSE h[AnyOf(s)] + SumFunctionOnSet(h, s \ {AnyOf(s)})
  BY <1>2, SumAny
<1>5. SumFunctionOnSet(k, s) = IF s = {} THEN 0 ELSE k[AnyOf(s)] + SumFunctionOnSet(k, s \ {AnyOf(s)})
  BY <1>2, SumAny
<1>6. s # {}
  BY <1>3, <1>4, <1>5
<1> DEFINE z == AnyOf(s)
           r == s \ {z}
<1>7. z \in s /\ r \notin F /\ r \subseteq S /\ s \subseteq S
  BY <1>3, <1>6, AnyOfIn
<1>8. IsFiniteSet(r)
  BY <1>7, FS_Subset
<1>9. SumFunctionOnSet(h, r) \in Nat
  BY <1>7, <1>8, SumType
<1> DEFINE x == SumFunctionOnSet(h, r)
           y == h[z]
<1>10. x \in Nat /\ y \in Nat /\ k[z] = c * y /\ SumFunctionOnSet(k, r) = c * x
  BY <1>7, <1>9
<1>11. c * (y + x) = c * y + c * x
  <2> HIDE DEF x, y
  <2>1. QED
    BY <1>10
<1>12. SumFunctionOnSet(h, s) = y + x /\ SumFunctionOnSet(k, s) = c * y + c * x
  <2> HIDE DEF F
  <2>1. QED
    BY <1>4, <1>5, <1>6, <1>10
<1>13. SumFunctionOnSet(k, s) = c * SumFunctionOnSet(h, s)
  BY <1>11, <1>12, Zenon
<1>14. QED
  BY <1>3, <1>13

\* Any summand may be taken first: the order in which they are added is free.
LEMMA SumRemove ==
  ASSUME NEW h, NEW S, IsFiniteSet(S), \A x \in S : h[x] \in Nat, NEW z \in S
  PROVE  SumFunctionOnSet(h, S) = h[z] + SumFunctionOnSet(h, S \ {z})
<1> DEFINE sum(s) == SumFunctionOnSet(h, s)
           F == {s \in SUBSET S : \E x \in s : sum(s) # h[x] + sum(s \ {x})}
<1>1. SUFFICES ASSUME F # {} PROVE FALSE
  OBVIOUS
<1>2. \A s \in SUBSET S : IsFiniteSet(s) /\ sum(s) \in Nat
  BY FS_Subset, SumType
<1>3. PICK s \in F : \A t \in F : t \subseteq s => t = s
  <2>1. \A t \in F : IsFiniteSet(t)
    BY <1>2
  <2> HIDE DEF F
  <2> QED BY <1>1, <2>1, LeastSet
<1>4. PICK x \in s : sum(s) # h[x] + sum(s \ {x})
  BY <1>3
<1> DEFINE a == AnyOf(s)
           r == s \ {x, a}
<1>5. a \in s
  BY <1>4, AnyOfIn
<1>6. sum(s) = h[a] + sum(s \ {a})
  BY <1>2, <1>4, SumAny
<1>7. a # x
  BY <1>4, <1>6
<1> HIDE DEF sum, a
<1>8. sum(s \ {a}) = h[x] + sum(r)
  <2>1. s \ {a} \notin F /\ s \ {a} \in SUBSET S /\ x \in s \ {a}
    BY <1>3, <1>5, <1>7
  <2>2. (s \ {a}) \ {x} = r
    OBVIOUS
  <2>3. QED
    BY <2>1, <2>2
<1>9. sum(s \ {x}) = h[a] + sum(r)
  <2>1. s \ {x} \notin F /\ s \ {x} \in SUBSET S /\ a \in s \ {x}
    BY <1>3, <1>5, <1>7
  <2>2. (s \ {x}) \ {a} = r
    OBVIOUS
  <2>3. QED
    BY <2>1, <2>2
<1>10. sum(r) \in Nat /\ h[a] \in Nat /\ h[x] \in Nat
  BY <1>2, <1>5
<1>11. QED
  BY <1>4, <1>6, <1>8, <1>9, <1>10

\* What adds nothing may be left out.
LEMMA SumZeroes ==
  ASSUME NEW h, NEW S, NEW T, IsFiniteSet(T), S \subseteq T,
         \A x \in T : h[x] \in Nat, \A x \in T \ S : h[x] = 0
  PROVE  SumFunctionOnSet(h, T) = SumFunctionOnSet(h, S)
<1> DEFINE sum(s) == SumFunctionOnSet(h, s)
           F == {s \in SUBSET T : S \subseteq s /\ sum(s) # sum(S)}
<1>1. SUFFICES ASSUME F # {} PROVE FALSE
  OBVIOUS
<1>2. \A s \in SUBSET T : IsFiniteSet(s) /\ sum(s) \in Nat
  BY FS_Subset, SumType
<1>3. PICK s \in F : \A t \in F : t \subseteq s => t = s
  <2>1. \A t \in F : IsFiniteSet(t)
    BY <1>2
  <2> HIDE DEF F
  <2> QED BY <1>1, <2>1, LeastSet
<1>4. s \in SUBSET T /\ S \subseteq s /\ sum(s) # sum(S)
  BY <1>3
<1>5. PICK x \in s : x \notin S
  BY <1>4
<1>6. sum(s) = h[x] + sum(s \ {x})
  <2>1. IsFiniteSet(s) /\ \A y \in s : h[y] \in Nat
    BY <1>2, <1>4
  <2>2. QED
    BY <2>1, SumRemove
<1>7. h[x] = 0 /\ s \ {x} \in SUBSET T /\ S \subseteq s \ {x} /\ s \ {x} # s
  BY <1>4, <1>5
<1> HIDE DEF sum
<1>8. sum(s \ {x}) = sum(S)
  BY <1>3, <1>7
<1>9. QED
  BY <1>2, <1>4, <1>6, <1>7, <1>8

\* More summands make no smaller sum.
LEMMA SumGrows ==
  ASSUME NEW h, NEW S, NEW T, IsFiniteSet(T), S \subseteq T, \A x \in T : h[x] \in Nat
  PROVE  SumFunctionOnSet(h, S) \in Nat /\ SumFunctionOnSet(h, T) \in Nat
         /\ SumFunctionOnSet(h, S) <= SumFunctionOnSet(h, T)
<1> DEFINE sum(s) == SumFunctionOnSet(h, s)
           F == {s \in SUBSET T : S \subseteq s /\ sum(s) < sum(S)}
<1>1. \A s \in SUBSET T : IsFiniteSet(s) /\ sum(s) \in Nat
  BY FS_Subset, SumType
<1>2. SUFFICES F = {}
  BY <1>1
<1>3. SUFFICES ASSUME F # {} PROVE FALSE
  OBVIOUS
<1>4. PICK s \in F : \A t \in F : t \subseteq s => t = s
  <2>1. \A t \in F : IsFiniteSet(t)
    BY <1>1
  <2> HIDE DEF F
  <2> QED BY <1>3, <2>1, LeastSet
<1>5. s \in SUBSET T /\ S \subseteq s /\ sum(s) < sum(S)
  BY <1>4
<1>6. sum(S) \in Nat
  BY <1>1
<1>7. PICK x \in s : x \notin S
  <2>1. s # S
    BY <1>5, <1>6
  <2>2. QED
    BY <1>5, <2>1
<1>8. sum(s) = h[x] + sum(s \ {x})
  <2>1. IsFiniteSet(s) /\ \A y \in s : h[y] \in Nat
    BY <1>1, <1>5
  <2>2. QED
    BY <2>1, SumRemove
<1>9. h[x] \in Nat /\ s \ {x} \in SUBSET T /\ S \subseteq s \ {x} /\ s \ {x} # s
  BY <1>5, <1>7
<1> HIDE DEF sum
<1>10. sum(s \ {x}) >= sum(S) /\ sum(s \ {x}) \in Nat
  BY <1>1, <1>4, <1>6, <1>9
<1>11. QED
  BY <1>5, <1>6, <1>8, <1>9, <1>10

-----------------------------------------------------------------------------
(* Sums of sequences.                                                      *)

\* What Append does, element by element.
LEMMA Appended ==
  ASSUME NEW S, NEW q \in Seq(S), NEW b \in S, NEW r, r = Append(q, b)
  PROVE  /\ r \in Seq(S) /\ Len(q) \in Nat /\ Len(r) = Len(q) + 1
         /\ DOMAIN q = 1..Len(q) /\ DOMAIN r = 1..(Len(q) + 1)
         /\ r[Len(q) + 1] = b /\ \A i \in 1..Len(q) : r[i] = q[i]
OBVIOUS

\* A sequence of numbers has a number for its sum.
LEMMA SumSeqType == ASSUME NEW q \in Seq(Nat) PROVE SumFunction(q) \in Nat
<1>1. DOMAIN q = 1..Len(q) /\ Len(q) \in Nat
  OBVIOUS
<1>2. IsFiniteSet(DOMAIN q) /\ \A i \in DOMAIN q : q[i] \in Nat
  <2>1. IsFiniteSet(1..Len(q))
    BY <1>1, FS_Interval
  <2>2. QED
    BY <1>1, <2>1
<1>3. QED
  BY <1>2, SumType DEF SumFunction

\* Nothing sums to zero.
LEMMA SumSeqEmpty == ASSUME NEW q, DOMAIN q = {} PROVE SumFunction(q) = 0
BY SumEmpty DEF SumFunction

\* One more term is added to the sum.
LEMMA SumAppend ==
  ASSUME NEW q \in Seq(Nat), NEW n \in Nat
  PROVE  SumFunction(Append(q, n)) = SumFunction(q) + n
<1> DEFINE p == Append(q, n)
           last == Len(q) + 1
<1>1. /\ DOMAIN q = 1..Len(q) /\ Len(q) \in Nat
      /\ p \in Seq(Nat) /\ DOMAIN p = 1..last /\ p[last] = n
      /\ \A i \in 1..Len(q) : p[i] = q[i] /\ p[i] \in Nat
  OBVIOUS
<1> HIDE DEF p
<1>2. IsFiniteSet(1..last) /\ IsFiniteSet(1..Len(q)) /\ (1..last) \ {last} = 1..Len(q) /\ last \in 1..last
  <2>1. last \in Int /\ Len(q) \in Int /\ last = Len(q) + 1 /\ Len(q) \in Nat
    BY <1>1
  <2> HIDE DEF last
  <2>2. IsFiniteSet(1..last) /\ IsFiniteSet(1..Len(q))
    BY <2>1, FS_Interval
  <2>3. QED
    BY <2>1, <2>2
<1>3. \A i \in 1..last : p[i] \in Nat
  BY <1>1
<1> HIDE DEF last
<1>4. SumFunctionOnSet(p, 1..last) = p[last] + SumFunctionOnSet(p, (1..last) \ {last})
  BY <1>2, <1>3, SumRemove
<1>5. SumFunctionOnSet(p, 1..Len(q)) = SumFunctionOnSet(q, 1..Len(q))
  <2>1. IsFiniteSet(1..Len(q)) /\ \A i \in 1..Len(q) : p[i] = q[i]
    BY <1>1, <1>2
  <2>2. QED
    BY <2>1, SumSame
<1>6. SumFunction(q) \in Nat
  BY SumSeqType
<1>7. SumFunction(p) = n + SumFunction(q)
  BY <1>1, <1>2, <1>4, <1>5 DEF SumFunction
<1>8. QED
  BY <1>6, <1>7 DEF p

\* The sum of two sequences joined is that of both.
LEMMA SumConcat ==
  ASSUME NEW p \in Seq(Nat), NEW q \in Seq(Nat)
  PROVE  SumFunction(p \o q) = SumFunction(p) + SumFunction(q)
<1> DEFINE upto(n) == SubSeq(q, 1, n)
           T == {n \in 0..Len(q) : SumFunction(p \o upto(n)) # SumFunction(p) + SumFunction(upto(n))}
<1>1. upto(Len(q)) = q /\ Len(q) \in 0..Len(q)
  OBVIOUS
<1>2. SUFFICES T = {}
  BY <1>1
<1>3. SUFFICES ASSUME T # {} PROVE FALSE
  OBVIOUS
<1>4. PICK n \in T : \A m \in T : n <= m
  <2>1. T \subseteq Nat
    OBVIOUS
  <2> HIDE DEF T
  <2>2. QED
    BY <1>3, <2>1, LeastNat
<1>5. CASE n = 0
  <2>1. upto(0) = <<>> /\ p \o <<>> = p
    OBVIOUS
  <2>2. SumFunction(p) \in Nat /\ SumFunction(<<>>) = 0
    BY SumSeqType, SumSeqEmpty
  <2>3. SumFunction(p \o upto(n)) = SumFunction(p) /\ SumFunction(upto(n)) = 0
    BY <1>5, <2>1, <2>2
  <2>4. SumFunction(p \o upto(n)) = SumFunction(p) + SumFunction(upto(n))
    BY <2>2, <2>3
  <2>5. QED
    BY <1>4, <2>4
<1>6. CASE n # 0
  <2> DEFINE m == n - 1
  <2>1. n \in 1..Len(q) /\ m \in 0..Len(q) /\ m \notin T
    BY <1>4, <1>6
  <2>2. SumFunction(p \o upto(m)) = SumFunction(p) + SumFunction(upto(m))
    BY <2>1
  <2>3. upto(n) = Append(upto(m), q[n]) /\ upto(m) \in Seq(Nat) /\ q[n] \in Nat
    BY <2>1, SMTT(30)
  <2>4. p \o upto(n) = Append(p \o upto(m), q[n]) /\ p \o upto(m) \in Seq(Nat)
    BY <2>3
  <2>5. SumFunction(p) \in Nat /\ SumFunction(upto(m)) \in Nat
    BY <2>3, SumSeqType
  <2>6. SumFunction(p \o upto(n)) # SumFunction(p) + SumFunction(upto(n))
    BY <1>4
  <2> HIDE DEF m, upto, T
  <2>7. /\ SumFunction(upto(n)) = SumFunction(upto(m)) + q[n]
        /\ SumFunction(p \o upto(n)) = SumFunction(p \o upto(m)) + q[n]
    BY <2>3, <2>4, SumAppend
  <2>8. QED
    BY <2>2, <2>3, <2>5, <2>6, <2>7
<1>7. QED
  BY <1>5, <1>6

-----------------------------------------------------------------------------
(* Quotients, and sequences joined.                                        *)

\* Division has one quotient and one remainder.
LEMMA DivMod ==
  ASSUME NEW a \in Nat, NEW b \in Nat, NEW m \in Nat, b < m
  PROVE  (a * m + b) \div m = a /\ (a * m + b) % m = b
<1> DEFINE n == a * m + b
           q == n \div m
           r == n % m
<1>1. n \in Nat /\ a * m \in Nat
  BY SMT
<1>2. q \in Nat /\ r \in 0..(m - 1) /\ n = m * q + r
  <2> HIDE DEF n
  <2>1. n \in Nat
    BY <1>1
  <2>2. QED
    BY <2>1
<1> HIDE DEF q, r
<1>3. n = a * m + b
  OBVIOUS
<1> HIDE DEF n
<1>4. ASSUME q < a PROVE FALSE
  <2>1. a = q + 1 + (a - q - 1) /\ a - q - 1 \in Nat
    BY <1>2, <1>4
  <2>2. PICK d \in Nat : a = q + 1 + d
    BY <2>1
  <2>3. a * m = m * q + m + d * m /\ d * m \in Nat
    BY <1>2, <2>2
  <2>4. m * q \in Nat
    BY <1>2
  <2>5. QED
    BY <1>2, <1>3, <2>3, <2>4
<1>5. ASSUME a < q PROVE FALSE
  <2>1. q = a + 1 + (q - a - 1) /\ q - a - 1 \in Nat
    BY <1>2, <1>5
  <2>2. PICK d \in Nat : q = a + 1 + d
    BY <2>1
  <2>3. m * q = a * m + m + d * m /\ d * m \in Nat
    BY <1>2, <2>2
  <2>5. QED
    BY <1>1, <1>2, <1>3, <2>3
<1>6. q = a
  BY <1>2, <1>4, <1>5
<1>7. r = b
  BY <1>1, <1>2, <1>3, <1>6
<1>8. QED
  BY <1>6, <1>7 DEF n, q, r

\* A function on 1..n with values in S is a sequence over S.
LEMMA ASequence ==
  ASSUME NEW S, NEW n \in Nat, NEW f, f = [i \in 1..n |-> f[i]], \A i \in 1..n : f[i] \in S
  PROVE  f \in Seq(S) /\ Len(f) = n
OBVIOUS

\* r is s with t behind it, element by element.
IsJoin(r, s, t) ==
  /\ Len(s) \in Nat /\ Len(t) \in Nat /\ Len(r) = Len(s) + Len(t)
  /\ \A j \in 1..Len(s) : r[j] = s[j]
  /\ \A j \in 1..Len(t) : r[Len(s) + j] = t[j]

\* Concatenation does just that.
LEMMA Joined ==
  ASSUME NEW S, NEW s \in Seq(S), NEW t \in Seq(S)
  PROVE  s \o t \in Seq(S) /\ IsJoin(s \o t, s, t)
<1>1. /\ s \o t \in Seq(S) /\ Len(s \o t) = Len(s) + Len(t)
      /\ \A j \in 1..(Len(s) + Len(t)) : (s \o t)[j] = IF j <= Len(s) THEN s[j] ELSE t[j - Len(s)]
  BY ConcatProperties, Zenon
<1>2. Len(s) \in Nat /\ Len(t) \in Nat
  OBVIOUS
<1>3. ASSUME NEW j \in 1..Len(t) PROVE (s \o t)[Len(s) + j] = t[j]
  <2>1. Len(s) + j \in 1..(Len(s) + Len(t)) /\ ~(Len(s) + j <= Len(s)) /\ (Len(s) + j) - Len(s) = j
    BY <1>2
  <2>2. QED
    BY <1>1, <2>1
<1>4. QED
  BY <1>1, <1>2, <1>3 DEF IsJoin

-----------------------------------------------------------------------------
(* Sequences laid end to end.  FlattenSeq is recursive; its equation has a  *)
(* solution, shown by the least length for which it would have none.        *)

Flattens(f, q, n) == f = [i \in 1..n |-> IF i = 1 THEN q[i] ELSE f[i - 1] \o q[i]]

\* The equation has a solution for every length.
LEMMA FlattenExists ==
  ASSUME NEW q, NEW n \in Nat
  PROVE  \E f : Flattens(f, q, n)
<1> DEFINE T == {m \in Nat : ~ \E f : Flattens(f, q, m)}
<1>1. SUFFICES ASSUME T # {} PROVE FALSE
  OBVIOUS
<1>2. PICK m \in T : \A k \in T : m <= k
  <2>1. T \subseteq Nat
    OBVIOUS
  <2> HIDE DEF T
  <2>2. QED
    BY <1>1, <2>1, LeastNat
<1>3. CASE m = 0
  <2> DEFINE f == [i \in 1..0 |-> q[i]]
  <2>1. f = [i \in 1..0 |-> IF i = 1 THEN q[i] ELSE f[i - 1] \o q[i]]
    OBVIOUS
  <2>2. Flattens(f, q, 0)
    BY <2>1 DEF Flattens
  <2>3. QED
    BY <1>2, <1>3, <2>2
<1>4. CASE m # 0
  <2>1. m \in Nat /\ m - 1 \in Nat /\ m - 1 \notin T
    BY <1>2, <1>4
  <2>2. PICK g : Flattens(g, q, m - 1)
    BY <2>1
  <2> DEFINE f == [i \in 1..m |-> IF i < m THEN g[i] ELSE IF i = 1 THEN q[i] ELSE g[i - 1] \o q[i]]
  <2>3. \A i \in 1..(m - 1) : g[i] = IF i = 1 THEN q[i] ELSE g[i - 1] \o q[i]
    BY <2>1, <2>2, Zenon DEF Flattens
  <2>4. ASSUME NEW i \in 1..m PROVE f[i] = IF i = 1 THEN q[i] ELSE f[i - 1] \o q[i]
    <3>1. CASE i = 1
      <4>1. i < m => g[i] = q[i]
        BY <2>1, <2>3, <3>1
      <4>2. QED
        BY <3>1, <4>1
    <3>2. CASE i # 1
      <4>1. i - 1 \in 1..m /\ i - 1 < m
        BY <2>1, <3>2
      <4>2. f[i - 1] = g[i - 1]
        BY <4>1
      <4>3. i < m => i \in 1..(m - 1)
        BY <2>1
      <4>4. f[i] = g[i - 1] \o q[i]
        BY <2>3, <3>2, <4>3
      <4>5. QED
        BY <3>2, <4>2, <4>4
    <3>3. QED
      BY <3>1, <3>2
  <2>5. f = [i \in 1..m |-> f[i]]
    OBVIOUS
  <2> HIDE DEF f
  <2>6. Flattens(f, q, m)
    BY <2>4, <2>5, Zenon DEF Flattens
  <2>7. QED
    BY <1>2, <2>6
<1>5. QED
  BY <1>3, <1>4

\* FlattenSeq takes the last value of a solution.
LEMMA FlattenIs ==
  ASSUME NEW q, Len(q) \in Nat, Len(q) # 0
  PROVE  \E f : Flattens(f, q, Len(q)) /\ FlattenSeq(q) = f[Len(q)]
<1> DEFINE g == CHOOSE f : Flattens(f, q, Len(q))
<1>1. Flattens(g, q, Len(q))
  BY FlattenExists, Zenon
<1>2. FlattenSeq(q) = g[Len(q)]
  BY Zenon DEF FlattenSeq, Flattens
<1>3. QED
  BY <1>1, <1>2, Zenon

\* One more sequence at the end.
LEMMA FlattenMore ==
  ASSUME NEW S, NEW q \in Seq(Seq(S)), NEW r \in Seq(Seq(S)), Len(r) = Len(q) + 1,
         \A i \in 1..Len(q) : r[i] = q[i]
  PROVE  FlattenSeq(r) = FlattenSeq(q) \o r[Len(r)]
<1> DEFINE n == Len(q)
<1>1. n \in Nat /\ Len(r) = n + 1
  OBVIOUS
<1> HIDE DEF n
<1>2. PICK f : Flattens(f, r, n + 1) /\ FlattenSeq(r) = f[n + 1]
  <2>1. Len(r) \in Nat /\ Len(r) # 0
    BY <1>1
  <2>2. QED
    BY <1>1, <2>1, FlattenIs
<1>3. \A i \in 1..(n + 1) : f[i] = IF i = 1 THEN r[i] ELSE f[i - 1] \o r[i]
  BY <1>2, Zenon DEF Flattens
<1>4. CASE n = 0
  <2>1. q = <<>>
    BY <1>4 DEF n
  <2>2. FlattenSeq(q) = <<>>
    BY <2>1 DEF FlattenSeq
  <2>3. FlattenSeq(r) = r[1] /\ r[1] \in Seq(S)
    BY <1>1, <1>2, <1>3, <1>4
  <2>4. QED
    BY <1>1, <1>4, <2>2, <2>3
<1>5. CASE n # 0
  <2>1. PICK g : Flattens(g, q, n) /\ FlattenSeq(q) = g[n]
    <3>1. Len(q) \in Nat /\ Len(q) # 0
      BY <1>1, <1>5 DEF n
    <3>2. QED
      BY <3>1, FlattenIs DEF n
  <2>2. \A i \in 1..n : g[i] = IF i = 1 THEN q[i] ELSE g[i - 1] \o q[i]
    BY <2>1, Zenon DEF Flattens
  <2> DEFINE T == {i \in 1..n : f[i] # g[i]}
  <2>3. T = {}
    <3>1. SUFFICES ASSUME T # {} PROVE FALSE
      OBVIOUS
    <3>2. PICK i \in T : \A k \in T : i <= k
      <4>1. T \subseteq Nat
        OBVIOUS
      <4> HIDE DEF T
      <4>2. QED
        BY <3>1, <4>1, LeastNat
    <3>3. i \in 1..n /\ i \in 1..(n + 1) /\ r[i] = q[i]
      BY <1>1, <3>2 DEF n
    <3>4. CASE i = 1
      BY <1>3, <2>2, <3>2, <3>3, <3>4
    <3>5. CASE i # 1
      <4>1. i - 1 \in 1..n /\ i - 1 \notin T
        BY <1>1, <3>2, <3>3, <3>5
      <4>2. f[i - 1] = g[i - 1]
        BY <4>1
      <4>3. QED
        BY <1>3, <2>2, <3>2, <3>3, <3>5, <4>2
    <3>6. QED
      BY <3>4, <3>5
  <2>4. n \in 1..n /\ n + 1 \in 1..(n + 1) /\ n + 1 # 1 /\ (n + 1) - 1 = n
    BY <1>1, <1>5
  <2>5. f[n] = g[n]
    BY <2>3, <2>4
  <2>6. f[n + 1] = f[n] \o r[n + 1]
    BY <1>3, <2>4
  <2>7. QED
    BY <1>1, <1>2, <2>1, <2>5, <2>6
<1>6. QED
  BY <1>4, <1>5

\* The first n of q laid end to end.
FlatTo(q, n) == FlattenSeq(SubSeq(q, 1, n))

\* From nothing to all of q, one sequence at a time.
LEMMA FlatToSteps ==
  ASSUME NEW S, NEW q \in Seq(Seq(S))
  PROVE  /\ FlatTo(q, 0) = <<>> /\ FlatTo(q, Len(q)) = FlattenSeq(q)
         /\ \A n \in 1..Len(q) : FlatTo(q, n) = FlatTo(q, n - 1) \o q[n]
<1>1. SubSeq(q, 1, 0) = <<>> /\ SubSeq(q, 1, Len(q)) = q
  OBVIOUS
<1>2. FlattenSeq(<<>>) = <<>>
  BY DEF FlattenSeq
<1>3. ASSUME NEW n \in 1..Len(q) PROVE FlatTo(q, n) = FlatTo(q, n - 1) \o q[n]
  <2> DEFINE r == SubSeq(q, 1, n)
             p == SubSeq(q, 1, n - 1)
  <2>1. /\ r \in Seq(Seq(S)) /\ p \in Seq(Seq(S)) /\ Len(r) = n /\ Len(p) = n - 1 /\ r[n] = q[n]
        /\ \A i \in 1..(n - 1) : r[i] = p[i]
    OBVIOUS
  <2> HIDE DEF r, p
  <2>2. Len(r) = Len(p) + 1 /\ \A i \in 1..Len(p) : r[i] = p[i]
    BY <2>1
  <2>3. FlattenSeq(r) = FlattenSeq(p) \o r[Len(r)]
    BY <2>1, <2>2, FlattenMore
  <2>4. QED
    BY <2>1, <2>3 DEF r, p, FlatTo
<1>4. QED
  BY <1>1, <1>2, <1>3 DEF FlatTo

\* Sequences over S laid end to end are a sequence over S.
LEMMA FlatToType ==
  ASSUME NEW S, NEW q \in Seq(Seq(S)), NEW n \in 0..Len(q)
  PROVE  FlatTo(q, n) \in Seq(S)
<1> DEFINE T == {m \in 0..Len(q) : FlatTo(q, m) \notin Seq(S)}
<1>1. SUFFICES ASSUME T # {} PROVE FALSE
  OBVIOUS
<1>2. PICK m \in T : \A k \in T : m <= k
  <2>1. T \subseteq Nat
    OBVIOUS
  <2> HIDE DEF T
  <2>2. QED
    BY <1>1, <2>1, LeastNat
<1>3. CASE m = 0
  <2>1. FlatTo(q, 0) = <<>>
    BY FlatToSteps
  <2>2. <<>> \in Seq(S)
    OBVIOUS
  <2>3. QED
    BY <1>2, <1>3, <2>1, <2>2
<1>4. CASE m # 0
  <2>1. m \in 1..Len(q) /\ m - 1 \in 0..Len(q) /\ m - 1 \notin T
    BY <1>2, <1>4
  <2>2. FlatTo(q, m - 1) \in Seq(S) /\ q[m] \in Seq(S)
    BY <2>1
  <2>3. FlatTo(q, m) = FlatTo(q, m - 1) \o q[m]
    BY <2>1, FlatToSteps
  <2>4. FlatTo(q, m) \in Seq(S)
    BY <2>2, <2>3, ConcatProperties
  <2>5. QED
    BY <1>2, <2>4
<1>5. QED
  BY <1>3, <1>4

\* What is laid first stays where it is.
LEMMA FlatToPrefix ==
  ASSUME NEW S, NEW q \in Seq(Seq(S)), NEW n \in 0..Len(q)
  PROVE  /\ Len(FlatTo(q, n)) <= Len(FlattenSeq(q))
         /\ \A j \in 1..Len(FlatTo(q, n)) : FlattenSeq(q)[j] = FlatTo(q, n)[j]
<1> DEFINE p == FlatTo(q, n)
           T == {m \in n..Len(q) : ~ (/\ Len(p) <= Len(FlatTo(q, m))
                                      /\ \A j \in 1..Len(p) : FlatTo(q, m)[j] = p[j])}
<1>1. SUFFICES T = {}
  <2>1. Len(q) \in n..Len(q)
    OBVIOUS
  <2>2. FlatTo(q, Len(q)) = FlattenSeq(q)
    BY FlatToSteps
  <2>3. QED
    BY <2>1, <2>2
<1>2. SUFFICES ASSUME T # {} PROVE FALSE
  OBVIOUS
<1>3. PICK m \in T : \A k \in T : m <= k
  <2>1. T \subseteq Nat
    OBVIOUS
  <2> HIDE DEF T
  <2>2. QED
    BY <1>2, <2>1, LeastNat
<1>4. m \in Nat /\ n \in Nat /\ m \in n..Len(q) /\ p \in Seq(S)
  BY <1>3, FlatToType
<1>5. CASE m = n
  BY <1>3, <1>4, <1>5
<1>6. CASE m # n
  <2>1. m \in 1..Len(q) /\ m - 1 \in n..Len(q) /\ m - 1 \in 0..Len(q) /\ m - 1 \notin T
    BY <1>3, <1>4, <1>6
  <2>2. FlatTo(q, m - 1) \in Seq(S) /\ q[m] \in Seq(S)
    BY <2>1, FlatToType
  <2>3. FlatTo(q, m) = FlatTo(q, m - 1) \o q[m]
    BY <2>1, FlatToSteps
  <2>4. Len(p) <= Len(FlatTo(q, m - 1)) /\ \A j \in 1..Len(p) : FlatTo(q, m - 1)[j] = p[j]
    BY <2>1
  <2> DEFINE r == FlatTo(q, m - 1)
             t == FlatTo(q, m)
             d == q[m]
  <2> HIDE DEF p, r, t
  <2>5. r \in Seq(S) /\ t = r \o d /\ Len(p) <= Len(r) /\ \A j \in 1..Len(p) : r[j] = p[j]
    BY <2>2, <2>3, <2>4 DEF r, t
  <2>6. Len(p) \in Nat /\ Len(r) \in Nat /\ Len(d) \in Nat /\ d \in Seq(S)
    BY <1>4, <2>2, <2>5
  <2> HIDE DEF d
  <2>7. Len(t) = Len(r) + Len(d) /\ \A j \in 1..Len(r) : t[j] = r[j]
    BY <2>5, <2>6
  <2>8. Len(p) <= Len(t) /\ \A j \in 1..Len(p) : t[j] = p[j]
    BY <2>5, <2>6, <2>7
  <2>9. QED
    BY <1>3, <2>8 DEF p, t
<1>7. QED
  BY <1>5, <1>6

-----------------------------------------------------------------------------
(* Powers of two.                                                          *)

\* A power of two is a positive number.
LEMMA PowType == ASSUME NEW n \in Nat PROVE 2^n \in Nat /\ 2^n > 0
<1>1. IsFiniteSet(1..n) /\ Cardinality(1..n) = n
  BY FS_Interval
<1>2. IsFiniteSet(SUBSET (1..n)) /\ Cardinality(SUBSET (1..n)) = 2^n
  BY <1>1, FS_SUBSET
<1>3. SUBSET (1..n) # {}
  OBVIOUS
<1>4. QED
  BY <1>2, <1>3, FS_CardinalityType, FS_EmptySet

\* The next one is twice as large: each set of numbers up to n is one of those up
\* to n + 1, without the last and with it.
LEMMA PowNext == ASSUME NEW n \in Nat PROVE 2^(n + 1) = 2 * 2^n
<1> DEFINE A == SUBSET (1..n)
           B == {s \cup {n + 1} : s \in A}
           f == [s \in A |-> s \cup {n + 1}]
<1>1. /\ IsFiniteSet(1..n) /\ Cardinality(1..n) = n
      /\ IsFiniteSet(1..(n + 1)) /\ Cardinality(1..(n + 1)) = n + 1
  BY FS_Interval
<1>2. IsFiniteSet(A) /\ Cardinality(A) = 2^n
  BY <1>1, FS_SUBSET
<1>3. Cardinality(SUBSET (1..(n + 1))) = 2^(n + 1)
  BY <1>1, FS_SUBSET
<1>4. SUBSET (1..(n + 1)) = A \cup B
  <2>1. 1..(n + 1) = (1..n) \cup {n + 1}
    OBVIOUS
  <2>2. ASSUME NEW t \in SUBSET (1..(n + 1)) PROVE t \in A \cup B
    <3>1. CASE n + 1 \in t
      <4>1. t \ {n + 1} \in A /\ t = (t \ {n + 1}) \cup {n + 1}
        BY <2>1, <3>1
      <4>2. QED
        BY <4>1
    <3>2. CASE n + 1 \notin t
      BY <2>1, <3>2
    <3>3. QED
      BY <3>1, <3>2
  <2>3. ASSUME NEW t \in A \cup B PROVE t \in SUBSET (1..(n + 1))
    BY <2>1
  <2>4. QED
    BY <2>2, <2>3
<1>5. A \cap B = {}
  <2>1. n + 1 \notin 1..n
    OBVIOUS
  <2>2. QED
    BY <2>1
<1>6. IsFiniteSet(B) /\ Cardinality(B) = Cardinality(A)
  <2>1. f \in Bijection(A, B)
    <3>1. f \in [A -> B]
      OBVIOUS
    <3>2. ASSUME NEW s \in A, NEW t \in A, f[s] = f[t] PROVE s = t
      <4>1. n + 1 \notin s /\ n + 1 \notin t /\ s \cup {n + 1} = t \cup {n + 1}
        BY <3>2
      <4>2. QED
        BY <4>1
    <3>3. \A t \in B : \E s \in A : f[s] = t
      OBVIOUS
    <3> HIDE DEF f, A, B
    <3>4. f \in Injection(A, B)
      BY <3>1, <3>2 DEF Injection, IsInjective
    <3>5. f \in Surjection(A, B)
      BY <3>1, <3>3 DEF Surjection
    <3>6. QED
      BY <3>4, <3>5 DEF Bijection
  <2> HIDE DEF f, A, B
  <2>2. QED
    BY <1>2, <2>1, FS_Bijection DEF ExistsBijection
<1> HIDE DEF A, B
<1>7. Cardinality(A \cup B) = Cardinality(A) + Cardinality(B) - Cardinality(A \cap B)
  BY <1>2, <1>6, FS_Union
<1>8. 2^n \in Nat
  BY PowType
<1>9. Cardinality(A \cap B) = 0
  BY <1>5, FS_EmptySet, Zenon
<1>10. Cardinality(A \cup B) = 2^(n + 1)
  BY <1>3, <1>4, Zenon
<1>11. 2^(n + 1) = 2^n + 2^n - 0
  BY <1>2, <1>6, <1>7, <1>9, <1>10, Zenon
<1>12. QED
  BY <1>8, <1>11

\* Exponents add up.
LEMMA PowAdd == ASSUME NEW a \in Nat, NEW b \in Nat PROVE 2^(a + b) = 2^a * 2^b
<1> DEFINE T == {k \in Nat : 2^(a + k) # 2^a * 2^k}
<1>1. SUFFICES ASSUME T # {} PROVE FALSE
  OBVIOUS
<1>2. PICK k \in T : \A j \in T : k <= j
  <2>1. T \subseteq Nat
    OBVIOUS
  <2> HIDE DEF T
  <2>2. QED
    BY <1>1, <2>1, LeastNat
<1>3. k # 0
  <2>1. 2^(a + 0) = 2^a * 2^0
    <3>1. a + 0 = a /\ 2^0 = 1 /\ 2^a \in Nat
      BY PowType
    <3>2. QED
      BY <3>1
  <2>2. QED
    BY <1>2, <2>1
<1>4. k - 1 \in Nat /\ k - 1 \notin T
  BY <1>2, <1>3
<1>5. 2^(a + (k - 1)) = 2^a * 2^(k - 1)
  BY <1>4
<1>6. 2^((a + (k - 1)) + 1) = 2 * 2^(a + (k - 1)) /\ 2^((k - 1) + 1) = 2 * 2^(k - 1)
  BY <1>4, PowNext
<1>7. (a + (k - 1)) + 1 = a + k /\ (k - 1) + 1 = k
  BY <1>2
<1>8. 2^a \in Nat /\ 2^(k - 1) \in Nat
  BY <1>4, PowType
<1>9. 2^(a + k) = 2^a * 2^k
  <2> DEFINE x == 2^a
             y == 2^(k - 1)
  <2>1. 2^(a + k) = 2 * (x * y) /\ 2^k = 2 * y /\ x \in Nat /\ y \in Nat
    BY <1>5, <1>6, <1>7, <1>8
  <2> HIDE DEF x, y
  <2>2. 2 * (x * y) = x * (2 * y)
    BY <2>1
  <2>3. QED
    BY <2>1, <2>2 DEF x
<1>10. QED
  BY <1>2, <1>9

\* So they are in the order of their exponents.
LEMMA PowOrder == ASSUME NEW a \in Nat, NEW b \in Nat
                  PROVE  /\ a <= b => 2^a <= 2^b /\ 2^b = 2^a * 2^(b - a)
                         /\ a < b => 2 * 2^a <= 2^b
<1>1. ASSUME NEW c \in Nat, NEW d \in Nat, c <= d PROVE 2^c <= 2^d /\ 2^d = 2^c * 2^(d - c)
  <2>1. d - c \in Nat /\ c + (d - c) = d
    BY <1>1
  <2>2. 2^d = 2^c * 2^(d - c)
    BY <2>1, PowAdd
  <2>3. 2^c \in Nat /\ 2^(d - c) \in Nat /\ 2^(d - c) > 0
    BY <2>1, PowType
  <2> DEFINE x == 2^c
             y == 2^(d - c)
  <2>4. x * y >= x
    <3>1. x \in Nat /\ y \in Nat /\ y > 0
      BY <2>3
    <3> HIDE DEF x, y
    <3>2. x * y = x + x * (y - 1) /\ x * (y - 1) \in Nat
      BY <3>1
    <3>3. QED
      BY <3>1, <3>2
  <2>5. QED
    BY <2>2, <2>4
<1>2. ASSUME a < b PROVE 2 * 2^a <= 2^b
  <2>1. 2^(a + 1) = 2 * 2^a /\ a + 1 \in Nat /\ a + 1 <= b
    BY <1>2, PowNext
  <2>2. QED
    BY <1>1, <2>1
<1>3. QED
  BY <1>1, <1>2

-----------------------------------------------------------------------------
(* Induction, over a set of numbers in the place of a claim about them.    *)

\* What holds at zero, and behind every number where it holds, holds up to n.
LEMMA UpTo ==
  ASSUME NEW n \in Nat, NEW P, 0 \in P, \A i \in 0..(n - 1) : i \in P => i + 1 \in P
  PROVE  \A i \in 0..n : i \in P
<1> DEFINE T == {i \in 0..n : i \notin P}
<1>1. SUFFICES ASSUME T # {} PROVE FALSE
  OBVIOUS
<1>2. PICK i \in T : \A k \in T : i <= k
  <2>1. T \subseteq Nat
    OBVIOUS
  <2> HIDE DEF T
  <2>2. QED
    BY <1>1, <2>1, LeastNat
<1>3. i \in 0..n /\ i \notin P /\ i # 0
  BY <1>2
<1>4. i - 1 \in 0..(n - 1) /\ i - 1 \notin T /\ i - 1 \in 0..n /\ (i - 1) + 1 = i
  BY <1>2, <1>3
<1>5. QED
  BY <1>3, <1>4

\* f has x at zero, and each value up to n from the one before.
Iterates(f, S, x, n, g) == f \in [0..n -> S] /\ f[0] = x /\ \A i \in 1..n : f[i] = g[i][f[i - 1]]

\* A function of numbers may be defined that way.
LEMMA Recursive ==
  ASSUME NEW S, NEW x \in S, NEW n \in Nat, NEW g \in [1..n -> [S -> S]]
  PROVE  \E f : Iterates(f, S, x, n, g)
<1> DEFINE Solves(f, m) == f \in [0..m -> S] /\ f[0] = x /\ \A i \in 1..m : f[i] = g[i][f[i - 1]]
           P == {m \in 0..n : \E f : Solves(f, m)}
<1>1. 0 \in P
  <2> DEFINE f == [i \in 0..0 |-> x]
  <2>1. f \in [0..0 -> S] /\ f[0] = x /\ 1..0 = {}
    OBVIOUS
  <2> HIDE DEF f
  <2>2. Solves(f, 0)
    BY <2>1
  <2>3. QED
    BY <2>2
<1>2. ASSUME NEW m \in 0..(n - 1), m \in P PROVE m + 1 \in P
  <2>1. PICK f : Solves(f, m)
    BY <1>2
  <2> DEFINE v == g[m + 1][f[m]]
             h == [i \in 0..(m + 1) |-> IF i = m + 1 THEN v ELSE f[i]]
  <2>2. m \in Nat /\ m + 1 \in 1..n /\ f[m] \in S /\ v \in S
    BY <2>1
  <2> HIDE DEF v
  <2>3. h \in [0..(m + 1) -> S]
    <3>1. \A i \in 0..(m + 1) : i = m + 1 \/ i \in 0..m
      BY <2>2
    <3>2. \A i \in 0..m : f[i] \in S
      BY <2>1
    <3>3. QED
      BY <2>2, <3>1, <3>2
  <2>4. h[0] = x
    BY <2>1, <2>2
  <2>5. ASSUME NEW i \in 1..(m + 1) PROVE h[i] = g[i][h[i - 1]]
    <3>1. i - 1 \in 0..m /\ i - 1 # m + 1 /\ i - 1 \in 0..(m + 1) /\ i \in 0..(m + 1)
      BY <2>2
    <3>2. h[i - 1] = f[i - 1]
      BY <3>1
    <3>3. CASE i = m + 1
      <4>1. h[i] = v /\ i - 1 = m
        BY <2>2, <3>1, <3>3
      <4>2. QED
        BY <3>2, <3>3, <4>1 DEF v
    <3>4. CASE i # m + 1
      <4>1. i \in 1..m /\ h[i] = f[i]
        BY <2>2, <3>1, <3>4
      <4>2. QED
        BY <2>1, <3>2, <4>1
    <3>5. QED
      BY <3>3, <3>4
  <2> HIDE DEF h
  <2>6. Solves(h, m + 1)
    BY <2>3, <2>4, <2>5
  <2>7. m + 1 \in 0..n
    BY <2>2
  <2>8. QED
    BY <2>6, <2>7
<1> HIDE DEF P
<1>3. n \in P
  <2>1. \A i \in 0..(n - 1) : i \in P => i + 1 \in P
    BY <1>2
  <2>2. \A i \in 0..n : i \in P
    BY <1>1, <2>1, UpTo
  <2>3. n \in 0..n
    OBVIOUS
  <2>4. QED
    BY <2>2, <2>3
<1>4. \E f : Solves(f, n)
  <2> HIDE DEF Solves
  <2>1. QED
    BY <1>3 DEF P
<1>5. PICK f : f \in [0..n -> S] /\ f[0] = x /\ \A i \in 1..n : f[i] = g[i][f[i - 1]]
  <2>1. \A f : Solves(f, n) <=> (f \in [0..n -> S] /\ f[0] = x /\ \A i \in 1..n : f[i] = g[i][f[i - 1]])
    OBVIOUS
  <2> HIDE DEF Solves
  <2>2. QED
    BY <1>4, <2>1, Zenon
<1>6. QED
  BY <1>5, Zenon DEF Iterates

-----------------------------------------------------------------------------
(* Products and quotients.                                                 *)

\* The order of powers is that of their exponents.
LEMMA PowBack == ASSUME NEW a \in Nat, NEW b \in Nat
                 PROVE  /\ 2^a <= 2^b => a <= b
                        /\ 2^a < 2^b => a < b
<1>1. 2^a \in Nat /\ 2^b \in Nat /\ 2^a > 0 /\ 2^b > 0
  BY PowType
<1>2. /\ (b <= a => 2^b <= 2^a) /\ (b < a => 2 * 2^b <= 2^a)
  BY PowOrder
<1> DEFINE x == 2^a
           y == 2^b
<1>3. /\ x \in Nat /\ y \in Nat /\ x > 0 /\ y > 0 /\ (b <= a => y <= x) /\ (b < a => 2 * y <= x)
  BY <1>1, <1>2
<1> HIDE DEF x, y
<1>4. (x <= y => a <= b) /\ (x < y => a < b)
  BY <1>3
<1>5. QED
  BY <1>4 DEF x, y

\* Quotient and remainder.
LEMMA Euclid ==
    ASSUME NEW a \in Nat, NEW m \in Nat, m > 0
    PROVE  a \div m \in Nat /\ a % m \in 0..(m - 1) /\ a = (a \div m) * m + (a % m)
OBVIOUS

\* A positive factor cancels.
LEMMA Cancel ==
    ASSUME NEW a \in Nat, a > 0, NEW x \in Nat, NEW y \in Nat, a * x = a * y
    PROVE  x = y
<1>1. a * (x - y) = 0 /\ a * (y - x) = 0
  OBVIOUS
<1>2. ASSUME NEW z \in Int, z > 0 PROVE a * z > 0
  BY <1>2
<1>3. CASE x > y
  <2>1. a * (x - y) > 0
    BY <1>2, <1>3
  <2>2. QED
    BY <1>1, <2>1
<1>4. CASE y > x
  <2>1. a * (y - x) > 0
    BY <1>2, <1>4
  <2>2. QED
    BY <1>1, <2>1
<1>5. QED
  BY <1>3, <1>4

\* A code that is shifted up and filled from below lies within the table.
LEMMA FilledBelow ==
    ASSUME NEW n \in Nat, NEW max \in Nat, n <= max, NEW code \in Nat, NEW low \in Nat, low < 2^n
    PROVE  /\ (code * 2^n) % 2^max \in Nat
           /\ ((code * 2^n) % 2^max) + low < 2^max
<1> DEFINE w == 2^n
           q == 2^(max - n)
           k == code \div q
           r == code % q
<1>1. w \in Nat /\ w > 0 /\ q \in Nat /\ q > 0 /\ 2^max = w * q
  <2>1. max - n \in Nat
    OBVIOUS
  <2>2. QED
    BY <2>1, PowType, PowOrder
<1>2. low < w
  OBVIOUS
<1> HIDE DEF w, q
<1>3. k \in Nat /\ r \in Nat /\ r < q /\ code = k * q + r
  BY <1>1, Euclid
<1> HIDE DEF k, r
<1>4. w * q \in Nat /\ w * r \in Nat /\ w * r + w <= w * q
  <2>1. w * r \in Nat /\ w * q \in Nat
    BY <1>1, <1>3
  <2>2. w * (q - r - 1) \in Nat
    BY <1>1, <1>3
  <2>3. w * q = w * r + w + w * (q - r - 1)
    BY <1>1, <1>3
  <2>4. QED
    BY <1>1, <2>1, <2>2, <2>3
<1>5. code * w = k * (w * q) + w * r
  BY <1>1, <1>3
<1>6. (code * w) % (w * q) = w * r
  <2> DEFINE m == w * q
             b == w * r
  <2>1. m \in Nat /\ b \in Nat /\ b < m
    BY <1>1, <1>4
  <2> HIDE DEF m, b
  <2>2. (k * m + b) % m = b
    BY <1>3, <2>1, DivMod
  <2>3. QED
    BY <1>5, <2>2 DEF m, b
<1> DEFINE wr == w * r
           wq == w * q
<1>7. wr \in Nat /\ wq \in Nat /\ wr + w <= wq
  BY <1>4
<1>8. (code * 2^n) % 2^max = wr /\ 2^max = wq
  BY <1>1, <1>6 DEF w
<1> HIDE DEF wr, wq
<1>9. wr + low < wq
  BY <1>1, <1>2, <1>7
<1>10. QED
  BY <1>7, <1>8, <1>9

\* What an odd number times d is a multiple of, among the powers of two, d is.
LEMMA OddFactor ==
    ASSUME NEW s \in Nat, s % 2 = 1, NEW n \in Nat
    PROVE  \A d \in Nat, m \in Nat : d * s = 2^n * m => \E e \in Nat : d = 2^n * e
<1> DEFINE P == {k \in 0..n : \A d \in Nat, m \in Nat : d * s = 2^k * m => \E e \in Nat : d = 2^k * e}
<1>1. 0 \in P
  <2>1. 2^0 = 1 /\ 0 \in 0..n
    OBVIOUS
  <2>2. \A d \in Nat : d = 1 * d
    OBVIOUS
  <2>3. QED
    BY <2>1, <2>2
<1>2. ASSUME NEW k \in 0..(n - 1), k \in P PROVE k + 1 \in P
  <2>1. k \in Nat /\ k + 1 \in 0..n /\ 2^(k + 1) = 2 * 2^k /\ 2^k \in Nat /\ 2^k > 0
    BY PowNext, PowType
  <2>2. ASSUME NEW d \in Nat, NEW m \in Nat, d * s = 2^(k + 1) * m
        PROVE  \E e \in Nat : d = 2^(k + 1) * e
    <3> DEFINE p == 2^k
               t == s \div 2
    <3>0. t \in Nat /\ s = 2 * t + 1
      BY DivMod
    <3>1. d * s = p * (2 * m) /\ 2 * m \in Nat
      <4>1. d * s = (2 * p) * m /\ p \in Nat
        BY <2>1, <2>2
      <4> HIDE DEF p
      <4>2. QED
        BY <4>1
    <3>2. PICK e \in Nat : d = p * e
      BY <1>2, <3>1
    <3>3. e * s = 2 * m
      <4>1. p * (e * s) = p * (2 * m)
        <5>1. p \in Nat
          BY <2>1
        <5> HIDE DEF p
        <5>2. QED
          BY <3>1, <3>2, <5>1
      <4>2. e * s \in Nat
        OBVIOUS
      <4>3. p \in Nat /\ p > 0
        BY <2>1
      <4> HIDE DEF p
      <4>4. QED
        BY <3>1, <4>1, <4>2, <4>3, Cancel
    <3> DEFINE h == m - e * t
    <3>4. h \in Nat /\ e = 2 * h
      <4>1. e * t \in Nat
        BY <3>0
      <4> HIDE DEF t
      <4>2. e * s = 2 * (e * t) + e
        BY <3>0
      <4>3. QED
        BY <3>3, <4>1, <4>2
    <3>5. d = 2^(k + 1) * h
      <4>1. d = p * (2 * h) /\ p \in Nat /\ 2^(k + 1) = 2 * p
        BY <2>1, <3>2, <3>4
      <4> HIDE DEF p, h
      <4>2. QED
        BY <3>4, <4>1
    <3>6. QED
      BY <3>4, <3>5
  <2>3. QED
    BY <2>1, <2>2
<1> HIDE DEF P
<1>3. n \in P
  <2>1. \A i \in 0..(n - 1) : i \in P => i + 1 \in P
    BY <1>2
  <2>2. \A i \in 0..n : i \in P
    BY <1>1, <2>1, UpTo
  <2>3. QED
    BY <2>2
<1>4. QED
  BY <1>3 DEF P

-----------------------------------------------------------------------------
(* Finite sets of numbers.                                                 *)

\* As many numbers as there are up to n.
LEMMA CardUpTo == ASSUME NEW n \in Nat
                  PROVE  /\ IsFiniteSet(1..n) /\ Cardinality(1..n) = n
                         /\ IsFiniteSet(0..(n - 1)) /\ Cardinality(0..(n - 1)) = n
<1>1. 1 \in Int /\ n \in Int /\ 0 \in Int /\ n - 1 \in Int
  OBVIOUS
<1>2. Cardinality(1..n) = IF 1 > n THEN 0 ELSE n - 1 + 1
  BY <1>1, FS_Interval
<1>3. Cardinality(0..(n - 1)) = IF 0 > n - 1 THEN 0 ELSE (n - 1) - 0 + 1
  BY <1>1, FS_Interval
<1>4. QED
  BY <1>1, <1>2, <1>3, FS_Interval

\* The place of an element of a finite set of numbers in its order.
LEMMA RankOnto ==
    ASSUME NEW C \in SUBSET Nat, IsFiniteSet(C)
    PROVE  /\ [c \in C |-> Cardinality({x \in C : x < c})] \in Bijection(C, 0..(Cardinality(C) - 1))
           /\ \A c \in C : Cardinality({x \in C : x < c}) \in 0..(Cardinality(C) - 1)
<1> DEFINE below(c) == {x \in C : x < c}
           rank(c) == Cardinality(below(c))
           f == [c \in C |-> rank(c)]
           n == Cardinality(C)
<1>1. n \in Nat
  BY FS_CardinalityType
<1>2. ASSUME NEW c \in C PROVE IsFiniteSet(below(c)) /\ rank(c) \in Nat
  <2>1. below(c) \in SUBSET C
    OBVIOUS
  <2> HIDE DEF below
  <2>2. IsFiniteSet(below(c))
    BY <2>1, FS_Subset
  <2>3. QED
    BY <2>2, FS_CardinalityType
<1>3. ASSUME NEW c \in C PROVE rank(c) < n
  <2>1. below(c) \in SUBSET C /\ c \notin below(c)
    BY DEF below
  <2> HIDE DEF below
  <2>2. Cardinality(below(c)) <= n /\ (n = Cardinality(below(c)) => C = below(c))
    BY <2>1, FS_Subset
  <2>3. QED
    BY <1>1, <1>2, <2>1, <2>2
<1>4. ASSUME NEW c \in C, NEW d \in C, c < d PROVE rank(c) < rank(d)
  <2>1. below(c) \in SUBSET below(d) /\ c \notin below(c) /\ c \in below(d)
    <3>1. \A x \in C : x < c => x < d
      <4>1. ASSUME NEW x \in C, x < c PROVE x < d
        <5>1. x \in Nat /\ c \in Nat /\ d \in Nat
          OBVIOUS
        <5>2. QED
          BY <1>4, <4>1, <5>1
      <4>2. QED
        BY <4>1
    <3>2. ~(c < c)
      <4>1. c \in Nat
        OBVIOUS
      <4>2. QED
        BY <4>1
    <3>3. QED
      BY <1>4, <3>1, <3>2, Zenon
  <2> HIDE DEF below
  <2>2. IsFiniteSet(below(d))
    BY <1>2
  <2>3. Cardinality(below(c)) <= Cardinality(below(d))
        /\ (Cardinality(below(d)) = Cardinality(below(c)) => below(d) = below(c))
    BY <2>1, <2>2, FS_Subset
  <2>4. rank(c) \in Nat /\ rank(d) \in Nat
    BY <1>2
  <2>5. QED
    BY <2>1, <2>3, <2>4
<1>5. f \in [C -> 0..(n - 1)]
  <2>1. \A c \in C : rank(c) \in 0..(n - 1)
    BY <1>1, <1>2, <1>3
  <2> HIDE DEF rank, n
  <2>2. QED
    BY <2>1
<1>6. ASSUME NEW c \in C, NEW d \in C, f[c] = f[d] PROVE c = d
  <2>1. rank(c) = rank(d) /\ rank(c) \in Nat
    BY <1>2, <1>6
  <2>2. ~(c < d) /\ ~(d < c)
    <3> HIDE DEF rank
    <3>1. QED
      BY <1>4, <2>1
  <2>3. QED
    BY <2>2
<1>7. f \in Injection(C, 0..(n - 1))
  <2> HIDE DEF f, n
  <2>1. QED
    BY <1>5, <1>6 DEF Injection, IsInjective
<1>8. f \in Surjection(C, 0..(n - 1))
  <2> HIDE DEF f
  <2>1. IsFiniteSet(0..(n - 1)) /\ Cardinality(0..(n - 1)) = n
    BY <1>1, CardUpTo
  <2>2. QED
    BY <1>7, <2>1, FS_Injection
<1>9. \A c \in C : rank(c) \in 0..(n - 1)
  BY <1>1, <1>2, <1>3
<1>10. f \in Bijection(C, 0..(n - 1))
  <2> HIDE DEF f, n
  <2>1. QED
    BY <1>7, <1>8 DEF Bijection
<1>11. QED
  BY <1>9, <1>10

\* The numbers of a finite set up to one of them.
LEMMA UpToIncluded ==
    ASSUME NEW R \in SUBSET Nat, IsFiniteSet(R), NEW i \in R
    PROVE  Cardinality({j \in R : j <= i}) = Cardinality({j \in R : j < i}) + 1
           /\ Cardinality({j \in R : j < i}) \in Nat
<1> DEFINE A == {j \in R : j < i}
<1>1. {j \in R : j <= i} = A \cup {i} /\ i \notin A
  <2>1. \A j \in R : j \in Nat
    OBVIOUS
  <2>2. \A j \in R : j <= i <=> j < i \/ j = i
    BY <2>1
  <2>3. ~(i < i)
    BY <2>1
  <2>4. QED
    BY <2>2, <2>3
<1>2. IsFiniteSet(A)
  <2>1. A \in SUBSET R
    OBVIOUS
  <2> HIDE DEF A
  <2>2. QED
    BY <2>1, FS_Subset
<1> HIDE DEF A
<1>3. Cardinality(A \cup {i}) = Cardinality(A) + 1
  BY <1>1, <1>2, FS_AddElement
<1>4. QED
  BY <1>1, <1>2, <1>3, FS_CardinalityType DEF A

-----------------------------------------------------------------------------
(* Sequences of a few elements, and sums with larger terms.                *)

\* A sequence of one.
LEMMA SingleOf == ASSUME NEW S, NEW x \in S PROVE <<x>> \in Seq(S) /\ Len(<<x>>) = 1
OBVIOUS

\* A sequence of two.
LEMMA PairOf == ASSUME NEW S, NEW x \in S, NEW y \in S PROVE <<x, y>> \in Seq(S) /\ Len(<<x, y>>) = 2
OBVIOUS

\* A sequence over a set is one over a larger set.
LEMMA SeqWithin == ASSUME NEW S, NEW T, S \subseteq T, NEW q \in Seq(S) PROVE q \in Seq(T)
OBVIOUS

\* A sequence of which one is replaced.
LEMMA Replaced ==
    ASSUME NEW S, NEW q \in Seq(S), NEW i \in 1..Len(q), NEW x \in S, NEW p, p = [q EXCEPT ![i] = x]
    PROVE  p \in Seq(S) /\ Len(p) = Len(q)
OBVIOUS

\* The sum of one number.
LEMMA OneOf == ASSUME NEW n \in Nat PROVE <<n>> \in Seq(Nat) /\ SumFunction(<<n>>) = n
<1>1. <<>> \in Seq(Nat) /\ Append(<<>>, n) = <<n>> /\ DOMAIN <<>> = {}
  OBVIOUS
<1>2. SumFunction(Append(<<>>, n)) = SumFunction(<<>>) + n
  BY <1>1, SumAppend
<1>3. SumFunction(<<>>) = 0
  BY <1>1, SumSeqEmpty
<1>4. QED
  BY <1>1, <1>2, <1>3

\* The terms in S of q are larger than those of r by w, the others the same.
LargerBy(n, q, r, S, w) == \A i \in 1..n : q[i] \in Nat /\ r[i] \in Nat /\ q[i] = r[i] + IF i \in S THEN w ELSE 0

\* x is y and k times w.
MoreBy(x, y, k, w) == x = y + k * w

\* A sum in which the terms of a set are larger by w.
LEMMA SumMore ==
    ASSUME NEW n \in Nat, NEW q, NEW r, NEW S \in SUBSET (1..n), NEW w \in Nat,
           LargerBy(n, q, r, S, w)
    PROVE  /\ SumFunctionOnSet(r, 1..n) \in Nat /\ SumFunctionOnSet(q, 1..n) \in Nat
           /\ IsFiniteSet(S) /\ Cardinality(S) \in Nat
           /\ MoreBy(SumFunctionOnSet(q, 1..n), SumFunctionOnSet(r, 1..n), Cardinality(S), w)
<1> DEFINE Q(k) == SumFunctionOnSet(q, 1..k)
           R(k) == SumFunctionOnSet(r, 1..k)
           upto(k) == {i \in S : i <= k}
           C(k) == Cardinality(upto(k))
           P == {k \in 0..n : Q(k) = R(k) + C(k) * w}
<1> \A i \in 1..n : q[i] \in Nat /\ r[i] \in Nat /\ q[i] = r[i] + IF i \in S THEN w ELSE 0
  BY DEF LargerBy
<1>0. \A i \in S : i \in Nat /\ 1 <= i /\ i <= n
  <2>1. \A i \in S : i \in 1..n
    OBVIOUS
  <2>2. QED
    BY <2>1
<1>1. ASSUME NEW k \in 0..n PROVE IsFiniteSet(1..k) /\ Q(k) \in Nat /\ R(k) \in Nat
  <2>1. k \in Nat
    OBVIOUS
  <2>2. IsFiniteSet(1..k)
    BY <2>1, CardUpTo
  <2>3. \A i \in 1..k : i \in 1..n
    OBVIOUS
  <2>4. \A i \in 1..k : q[i] \in Nat /\ r[i] \in Nat
    BY <2>3
  <2>5. QED
    BY <2>2, <2>4, SumType
<1>2. ASSUME NEW k \in 0..n PROVE IsFiniteSet(upto(k)) /\ C(k) \in Nat
  <2>1. IsFiniteSet(1..n)
    BY CardUpTo
  <2>2. IsFiniteSet(upto(k))
    BY <2>1, FS_Subset
  <2>3. QED
    BY <2>2, FS_CardinalityType
<1>3. 0 \in P
  <2>1. 1..0 = {}
    OBVIOUS
  <2>2. Q(0) = 0 /\ R(0) = 0
    BY <2>1, SumEmpty
  <2>3. upto(0) = {}
    <3>1. \A i \in S : ~(i <= 0)
      BY <1>0
    <3>2. QED
      BY <3>1, Zenon
  <2>4. C(0) = 0
    BY <2>3, FS_EmptySet
  <2>5. 0 \in 0..n
    OBVIOUS
  <2> HIDE DEF Q, R, C
  <2>6. Q(0) = R(0) + C(0) * w
    BY <2>2, <2>4
  <2>7. QED
    BY <2>5, <2>6
<1>4. ASSUME NEW k \in 0..(n - 1), k \in P PROVE k + 1 \in P
  <2>1. k \in Nat /\ k \in 0..n /\ k + 1 \in 0..n /\ k + 1 \in 1..n /\ (1..(k + 1)) \ {k + 1} = 1..k
        /\ k + 1 \in 1..(k + 1)
    OBVIOUS
  <2>2. Q(k + 1) = q[k + 1] + Q(k) /\ R(k + 1) = r[k + 1] + R(k)
    <3>1. \A i \in 1..(k + 1) : i \in 1..n
      OBVIOUS
    <3>2. \A i \in 1..(k + 1) : q[i] \in Nat /\ r[i] \in Nat
      BY <3>1
    <3>3. IsFiniteSet(1..(k + 1))
      BY <1>1, <2>1
    <3> DEFINE T == 1..(k + 1)
    <3> HIDE DEF T
    <3>4. /\ SumFunctionOnSet(q, 1..(k + 1)) = q[k + 1] + SumFunctionOnSet(q, (1..(k + 1)) \ {k + 1})
          /\ SumFunctionOnSet(r, 1..(k + 1)) = r[k + 1] + SumFunctionOnSet(r, (1..(k + 1)) \ {k + 1})
      <4>1. IsFiniteSet(T) /\ k + 1 \in T /\ (\A x \in T : q[x] \in Nat) /\ \A x \in T : r[x] \in Nat
        BY <2>1, <3>2, <3>3 DEF T
      <4>2. SumFunctionOnSet(q, T) = q[k + 1] + SumFunctionOnSet(q, T \ {k + 1})
        BY <4>1, SumRemove
      <4>3. SumFunctionOnSet(r, T) = r[k + 1] + SumFunctionOnSet(r, T \ {k + 1})
        BY <4>1, SumRemove
      <4>4. QED
        BY <4>2, <4>3 DEF T
    <3>5. QED
      BY <2>1, <3>4, Zenon
  <2>3. C(k + 1) = C(k) + IF k + 1 \in S THEN 1 ELSE 0
    <3>1. CASE k + 1 \in S
      <4>1. upto(k + 1) = upto(k) \cup {k + 1} /\ k + 1 \notin upto(k)
        <5>1. \A i \in S : i <= k + 1 <=> i <= k \/ i = k + 1
          BY <1>0, <2>1
        <5>2. ~(k + 1 <= k) /\ k + 1 <= k + 1
          BY <2>1
        <5>3. QED
          BY <3>1, <5>1, <5>2
      <4> HIDE DEF upto
      <4>2. Cardinality(upto(k) \cup {k + 1}) = Cardinality(upto(k)) + 1
        BY <1>2, <2>1, <4>1, FS_AddElement
      <4>3. QED
        BY <3>1, <4>1, <4>2
    <3>2. CASE k + 1 \notin S
      <4>1. upto(k + 1) = upto(k)
        <5>1. \A i \in S : i <= k + 1 <=> i <= k
          BY <1>0, <2>1, <3>2
        <5>2. QED
          BY <5>1
      <4> HIDE DEF upto
      <4>2. Cardinality(upto(k)) \in Nat
        BY <1>2, <2>1
      <4>3. QED
        BY <3>2, <4>1, <4>2
    <3>3. QED
      BY <3>1, <3>2
  <2>4. /\ Q(k) \in Nat /\ R(k) \in Nat /\ C(k) \in Nat /\ Q(k) = R(k) + C(k) * w
        /\ r[k + 1] \in Nat /\ q[k + 1] \in Nat /\ q[k + 1] = r[k + 1] + IF k + 1 \in S THEN w ELSE 0
    BY <1>1, <1>2, <1>4, <2>1
  <2> HIDE DEF Q, R, C
  <2>5. Q(k + 1) = R(k + 1) + C(k + 1) * w
    <3>1. CASE k + 1 \in S
      <4>1. (C(k) + 1) * w = C(k) * w + w /\ C(k) * w \in Nat
        BY <2>4
      <4>2. QED
        BY <2>2, <2>3, <2>4, <3>1, <4>1
    <3>2. CASE k + 1 \notin S
      <4>1. C(k) * w \in Nat /\ C(k + 1) = C(k)
        BY <2>3, <2>4, <3>2
      <4>2. QED
        BY <2>2, <2>4, <3>2, <4>1
    <3>3. QED
      BY <3>1, <3>2
  <2>6. QED
    BY <2>1, <2>5
<1>5. Q(n) = R(n) + C(n) * w
  <2> HIDE DEF P
  <2>1. \A k \in 0..(n - 1) : k \in P => k + 1 \in P
    BY <1>4
  <2>2. \A k \in 0..n : k \in P
    BY <1>3, <2>1, UpTo
  <2>3. n \in P
    BY <2>2
  <2>4. QED
    BY <2>3 DEF P
<1>6. upto(n) = S /\ n \in 0..n
  <2>1. \A i \in S : i <= n
    BY <1>0
  <2>2. upto(n) = S
    BY <2>1, Zenon
  <2>3. QED
    BY <2>2
<1> HIDE DEF upto
<1>7. MoreBy(SumFunctionOnSet(q, 1..n), SumFunctionOnSet(r, 1..n), Cardinality(S), w)
  BY <1>5, <1>6 DEF MoreBy
<1>8. QED
  BY <1>1, <1>2, <1>6, <1>7
\* A quotient of a quotient.
LEMMA DivDiv ==
    ASSUME NEW a \in Nat, NEW m \in Nat, m > 0, NEW n \in Nat, n > 0
    PROVE  (a \div m) \div n = a \div (m * n) /\ m * n \in Nat /\ m * n > 0
PROOF
<1> DEFINE q == a \div m
           r == a % m
           t == q \div n
           s == q % n
           low == s * m + r
           mn == m * n
<1>1. q \in Nat /\ r \in Nat /\ r < m /\ a = q * m + r
  BY Euclid
<1>2. t \in Nat /\ s \in Nat /\ s < n /\ q = t * n + s
  <2> HIDE DEF q
  <2>1. QED
    BY <1>1, Euclid
<1> HIDE DEF q, r, t, s
<1>3. mn \in Nat /\ mn > 0 /\ low \in Nat /\ t * mn \in Nat
  BY <1>1, <1>2
<1>4. a = t * mn + low
  <2>1. q * m = (t * n + s) * m
    BY <1>2
  <2>2. (t * n + s) * m = t * (m * n) + s * m
    BY <1>1, <1>2
  <2>3. QED
    BY <1>1, <1>2, <2>1, <2>2
<1>5. low < mn
  <2>1. s + 1 <= n
    BY <1>2
  <2>2. (n - (s + 1)) * m >= 0
    BY <1>2, <2>1
  <2>3. (n - (s + 1)) * m = mn - s * m - m
    BY <1>2
  <2>4. QED
    BY <1>1, <1>2, <2>2, <2>3
<1> HIDE DEF mn, low
<1>6. (t * mn + low) \div mn = t
  BY <1>2, <1>3, <1>5, DivMod
<1>7. QED
  BY <1>3, <1>4, <1>6 DEF mn, t, q

\* The sum over two sets that share nothing.
LEMMA SumUnion ==
  ASSUME NEW h, NEW S, NEW T, IsFiniteSet(S), IsFiniteSet(T), \A x \in S \cup T : h[x] \in Nat, S \cap T = {}
  PROVE  /\ SumFunctionOnSet(h, S) \in Nat /\ SumFunctionOnSet(h, T) \in Nat
         /\ SumFunctionOnSet(h, S \cup T) = SumFunctionOnSet(h, S) + SumFunctionOnSet(h, T)
<1> DEFINE sum(s) == SumFunctionOnSet(h, s)
           F == {s \in SUBSET T : sum(S \cup s) # sum(S) + sum(s)}
<1>1. ASSUME NEW s \in SUBSET T PROVE IsFiniteSet(s) /\ sum(s) \in Nat /\ IsFiniteSet(S \cup s) /\ \A x \in S \cup s : h[x] \in Nat
  <2>1. IsFiniteSet(s) /\ IsFiniteSet(S \cup s)
    BY FS_Subset, FS_Union
  <2>2. \A x \in S \cup s : h[x] \in Nat
    OBVIOUS
  <2>3. sum(s) \in Nat
    BY <2>1, <2>2, SumType
  <2>4. QED
    BY <2>1, <2>2, <2>3
<1>2. sum(S) \in Nat
  BY SumType
<1>3. SUFFICES ASSUME F # {} PROVE FALSE
  <2>1. F = {} => sum(S \cup T) = sum(S) + sum(T)
    OBVIOUS
  <2>2. sum(T) \in Nat
    BY <1>1
  <2> HIDE DEF F
  <2>3. QED
    BY <1>2, <2>1, <2>2
<1>4. PICK s \in F : \A t \in F : t \subseteq s => t = s
  <2>1. \A t \in F : IsFiniteSet(t)
    BY <1>1
  <2> HIDE DEF F
  <2> QED BY <1>3, <2>1, LeastSet
<1>5. s \in SUBSET T /\ sum(S \cup s) # sum(S) + sum(s)
  BY <1>4
<1>6. PICK x : x \in s
  <2>1. s # {}
    <3>1. sum({}) = 0 /\ S \cup {} = S
      BY SumEmpty
    <3>2. s = {} => S \cup s = S /\ sum(s) = 0
      BY <3>1
    <3> HIDE DEF sum
    <3>3. s = {} => sum(S \cup s) = sum(S)
      BY <3>2
    <3>4. sum(S \cup s) # sum(S) + sum(s)
      BY <1>5
    <3> HIDE DEF F
    <3>5. QED
      BY <1>2, <3>2, <3>3, <3>4
  <2>2. QED
    BY <2>1
<1>7. sum(s) = h[x] + sum(s \ {x})
  BY <1>1, <1>5, <1>6, SumRemove
<1>8. sum(S \cup s) = h[x] + sum(S \cup (s \ {x}))
  <2>1. (S \cup s) \ {x} = S \cup (s \ {x}) /\ x \in S \cup s
    BY <1>5, <1>6
  <2> DEFINE U == S \cup s
  <2>2. IsFiniteSet(U) /\ x \in U /\ \A y \in U : h[y] \in Nat
    BY <1>1, <1>5, <2>1
  <2> HIDE DEF U
  <2>3. sum(U) = h[x] + sum(U \ {x})
    BY <2>2, SumRemove
  <2>4. QED
    BY <2>1, <2>3 DEF U
<1>9. s \ {x} \in SUBSET T /\ s \ {x} # s /\ h[x] \in Nat
  BY <1>5, <1>6
<1>10. sum(S \cup (s \ {x})) = sum(S) + sum(s \ {x}) /\ sum(s \ {x}) \in Nat
  <2>1. s \ {x} \notin F
    BY <1>4, <1>9
  <2>2. QED
    BY <1>1, <1>9, <2>1
<1> HIDE DEF sum
<1>11. QED
  BY <1>2, <1>5, <1>7, <1>8, <1>9, <1>10

\* The sum of a number again and again.
LEMMA SumConstant ==
  ASSUME NEW h, NEW S, IsFiniteSet(S), NEW c \in Nat, \A x \in S : h[x] = c
  PROVE  Cardinality(S) \in Nat /\ SumFunctionOnSet(h, S) = Cardinality(S) * c
<1> DEFINE sum(s) == SumFunctionOnSet(h, s)
           F == {s \in SUBSET S : sum(s) # Cardinality(s) * c}
<1>1. ASSUME NEW s \in SUBSET S PROVE IsFiniteSet(s) /\ sum(s) \in Nat /\ Cardinality(s) \in Nat
  <2>1. IsFiniteSet(s)
    BY FS_Subset
  <2>2. \A x \in s : h[x] \in Nat
    OBVIOUS
  <2>3. QED
    BY <2>1, <2>2, SumType, FS_CardinalityType
<1>2. Cardinality(S) \in Nat
  BY <1>1
<1>3. SUFFICES ASSUME F # {} PROVE FALSE
  BY <1>2
<1>4. PICK s \in F : \A t \in F : t \subseteq s => t = s
  <2>1. \A t \in F : IsFiniteSet(t)
    BY <1>1
  <2> HIDE DEF F
  <2> QED BY <1>3, <2>1, LeastSet
<1>5. s \in SUBSET S /\ sum(s) # Cardinality(s) * c
  BY <1>4
<1>6. PICK x : x \in s
  <2>1. s # {}
    <3>1. sum({}) = 0 /\ Cardinality({}) = 0 /\ 0 * c = 0
      BY SumEmpty, FS_EmptySet
    <3> HIDE DEF sum, F
    <3>2. QED
      BY <1>5, <3>1
  <2>2. QED
    BY <2>1
<1>7. sum(s) = c + sum(s \ {x})
  <2>1. \A y \in s : h[y] \in Nat
    BY <1>5
  <2>2. IsFiniteSet(s)
    BY <1>1, <1>5
  <2>3. sum(s) = h[x] + sum(s \ {x})
    BY <1>6, <2>1, <2>2, SumRemove
  <2>4. h[x] = c
    BY <1>5, <1>6
  <2>5. QED
    BY <2>3, <2>4
<1>8. Cardinality(s) = Cardinality(s \ {x}) + 1
  <2>1. IsFiniteSet(s \ {x}) /\ Cardinality(s \ {x}) = Cardinality(s) - 1
    BY <1>1, <1>5, <1>6, FS_RemoveElement
  <2>2. QED
    BY <1>1, <1>5, <2>1
<1>9. s \ {x} \in SUBSET S /\ s \ {x} # s
  BY <1>5, <1>6
<1> DEFINE a == Cardinality(s \ {x})
           b == sum(s \ {x})
<1>10. b = a * c /\ a \in Nat /\ b \in Nat
  BY <1>1, <1>4, <1>9
<1>11. sum(s) = c + b /\ Cardinality(s) = a + 1
  BY <1>7, <1>8
<1> HIDE DEF a, b, sum
<1>12. (a + 1) * c = a * c + c
  BY <1>10
<1>13. QED
  BY <1>5, <1>10, <1>11, <1>12

\* Of numbers that are bounded one is the greatest.
LEMMA MaxIs ==
  ASSUME NEW S, NEW m \in Nat, S \subseteq 0..m, S # {}
  PROVE  Max(S) \in S /\ \A y \in S : y <= Max(S)
<1> DEFINE T == {m - y : y \in S}
<1>1. T \subseteq Nat /\ T # {}
  <2>1. T \subseteq Nat
    <3>1. ASSUME NEW y \in S PROVE m - y \in Nat
      <4>1. y \in 0..m
        OBVIOUS
      <4>2. QED
        BY <4>1
    <3>2. QED
      BY <3>1
  <2>2. PICK y : y \in S
    OBVIOUS
  <2>3. m - y \in T
    BY <2>2
  <2>4. QED
    BY <2>1, <2>3
<1>2. PICK t \in T : \A u \in T : t <= u
  <2> HIDE DEF T
  <2>1. QED
    BY <1>1, LeastNat
<1>3. PICK x \in S : t = m - x
  BY <1>2
<1>4. \A y \in S : x >= y
  <2>1. ASSUME NEW y \in S PROVE x >= y
    <3>1. m - y \in T /\ x \in Nat /\ y \in Nat
      OBVIOUS
    <3>2. m - x <= m - y
      BY <1>2, <1>3, <3>1
    <3>3. QED
      BY <3>1, <3>2
  <2>2. QED
    BY <2>1
<1>5. Max(S) \in S /\ \A y \in S : Max(S) >= y
  BY <1>3, <1>4 DEF Max
<1>6. QED
  BY <1>5

=============================================================================
