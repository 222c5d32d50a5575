---------------------------- MODULE LibraryLemmas ----------------------------
(***************************************************************************)
(* Facts about the library operators the models are built from, which the  *)
(* proofs of several components need: sums over a finite set, and the      *)
(* removal of an element from a sequence.                                  *)
(*                                                                         *)
(* The induction theorems of the library take the induction hypothesis as  *)
(* an operator.  Here induction is stated for a set of natural numbers:    *)
(* one that is not empty has a smallest member, so a claim about all       *)
(* finite sets is proved by looking at a smallest set it fails for.        *)
(***************************************************************************)
EXTENDS Integers, Sequences, FiniteSets, SequencesExt, FiniteSetsExt,
        FiniteSetTheorems, SequenceTheorems, TLAPS

\* A set of natural numbers that is not empty has a smallest member.
LEMMA SmallestNat ==
  ASSUME NEW T, T \subseteq Nat, T # {}
  PROVE  \E n \in T : \A m \in T : n <= m
  <1> DEFINE R == {ss \in Nat \X Nat : ss[1] < ss[2]}
  <1>1. IsWellFoundedOn(R, Nat)
    BY NatLessThanWellFounded DEF OpToRel
  <1>2. \A x, y \in Nat : ~(<<y, x>> \in R) => x <= y
    OBVIOUS
  <1> HIDE DEF R
  <1>3. \E x \in T : \A y \in T : ~(<<y, x>> \in R)
    BY <1>1, WFMin
  <1> QED BY <1>2, <1>3

\* A collection of finite sets that is not empty has a member no other is
\* smaller than.
LEMMA SmallestSet ==
  ASSUME NEW C, C # {}, \A S \in C : IsFiniteSet(S)
  PROVE  \E S \in C : \A T \in C : Cardinality(S) <= Cardinality(T)
  <1>1. \A S \in C : Cardinality(S) \in Nat
    BY FS_CardinalityType
  <1>2. {Cardinality(S) : S \in C} \subseteq Nat /\ {Cardinality(S) : S \in C} # {}
    BY <1>1
  <1>3. \E n \in {Cardinality(S) : S \in C} : \A m \in {Cardinality(S) : S \in C} : n <= m
    BY <1>2, SmallestNat
  <1> QED BY <1>3

-------------------------------------------------------------------------------
(* Sums over a finite set.                                                 *)

\* The sum of the len fields of the records f[x], for x in S.
LenSum(f, S) == MapThenSumSet(LAMBDA x : f[x].len, S)

\* What LenSum computes it with: the sums over every subset of S.
Partial(f, S, g) ==
  g = [s \in SUBSET S |-> IF s = {} THEN 0
                          ELSE LET x == CHOOSE x \in s : TRUE IN f[x].len + g[s \ {x}]]

LEMMA LenSumIsPartial ==
  ASSUME NEW f, NEW S
  PROVE  LenSum(f, S) = (CHOOSE g : Partial(f, S, g))[S]
  BY DEF LenSum, Partial, MapThenSumSet, MapThenFoldSet

\* Two tables of partial sums agree on a finite set both contain.
LEMMA PartialUnique ==
  ASSUME NEW f, NEW S, NEW T, NEW g, NEW h, Partial(f, S, g), Partial(f, T, h),
         NEW s, s \subseteq S, s \subseteq T, IsFiniteSet(s)
  PROVE  g[s] = h[s]
  <1> DEFINE C == {u \in SUBSET s : g[u] # h[u]}
  <1>1. SUFFICES ASSUME C # {} PROVE FALSE
    BY <1>1
  <1>2. \A u \in SUBSET s : IsFiniteSet(u)
    BY FS_Subset
  <1>3. PICK u \in C : \A v \in C : Cardinality(u) <= Cardinality(v)
    BY <1>1, <1>2, SmallestSet
  <1>4. CASE u = {}
    BY <1>4 DEF Partial
  <1>5. CASE u # {}
    <2> DEFINE x == CHOOSE x \in u : TRUE
    <2>1. x \in u /\ u \ {x} \in SUBSET s
      BY <1>5
    <2> HIDE DEF x
    <2>2. Cardinality(u \ {x}) = Cardinality(u) - 1 /\ Cardinality(u) \in Nat
      BY <2>1, <1>2, FS_RemoveElement, FS_CardinalityType
    <2>3. u \ {x} \notin C
      BY <2>2, <1>3
    <2>4. g[u \ {x}] = h[u \ {x}]
      BY <2>1, <2>3
    <2>5. g[u] = f[x].len + g[u \ {x}] /\ h[u] = f[x].len + h[u \ {x}]
      BY <1>5 DEF Partial, x
    <2> QED BY <2>4, <2>5
  <1> QED BY <1>4, <1>5

LEMMA PartialOfLenSum ==
  ASSUME NEW f, NEW S, IsFiniteSet(S), NEW g, Partial(f, S, g)
  PROVE  \A s \in SUBSET S : g[s] = LenSum(f, s)
  <1> SUFFICES ASSUME NEW s \in SUBSET S PROVE g[s] = LenSum(f, s)
    OBVIOUS
  <1> DEFINE h == [t \in SUBSET s |-> g[t]]
  <1>1. Partial(f, s, h)
    <2>1. \A t \in SUBSET s : t # {} => (CHOOSE x \in t : TRUE) \in t
      OBVIOUS
    <2> QED BY <2>1 DEF Partial
  <1>2. IsFiniteSet(s)
    BY FS_Subset
  <1> DEFINE k == CHOOSE k : Partial(f, s, k)
  <1>3. Partial(f, s, k)
    BY <1>1
  <1> HIDE DEF h, k
  <1>4. g[s] = k[s]
    BY <1>2, <1>3, PartialUnique
  <1> QED BY <1>4, LenSumIsPartial DEF k

\* Every finite set has a table of partial sums.
LEMMA PartialExists ==
  ASSUME NEW f, NEW S, IsFiniteSet(S)
  PROVE  \E g : Partial(f, S, g)
  <1> DEFINE C == {T \in SUBSET S : ~ \E g : Partial(f, T, g)}
  <1>1. SUFFICES ASSUME C # {} PROVE FALSE
    BY <1>1
  <1>2. \A T \in SUBSET S : IsFiniteSet(T)
    BY FS_Subset
  <1>3. PICK T \in C : \A u \in C : Cardinality(T) <= Cardinality(u)
    BY <1>1, <1>2, SmallestSet
  <1> DEFINE G == [s \in SUBSET T |-> IF s = {} THEN 0
                    ELSE LET x == CHOOSE x \in s : TRUE IN f[x].len + LenSum(f, s \ {x})]
  <1>4. ASSUME NEW s \in SUBSET T, s # {}
        PROVE  G[s \ {CHOOSE x \in s : TRUE}] = LenSum(f, s \ {CHOOSE x \in s : TRUE})
    <2> DEFINE x == CHOOSE x \in s : TRUE
               u == s \ {x}
    <2>1. x \in s
      BY <1>4
    <2>2. u \in SUBSET S /\ u \in SUBSET T /\ x \in T /\ x \notin u
      BY <2>1
    <2> HIDE DEF x
    <2>3. Cardinality(u) < Cardinality(T)
      <3>1. Cardinality(u) <= Cardinality(T) /\ u # T
        BY <2>2, <1>2, FS_Subset
      <3> QED BY <3>1, <2>2, <1>2, FS_Subset, FS_CardinalityType
    <2>4. u \notin C
      BY <2>3, <2>2, <1>2, <1>3, FS_CardinalityType
    <2>5. PICK k : Partial(f, u, k)
      BY <2>4, <2>2
    <2>6. \A t \in SUBSET u : k[t] = LenSum(f, t)
      BY <2>5, <2>2, <1>2, PartialOfLenSum
    <2>7. k[u] = G[u]
      <3>1. CASE u = {}
        BY <3>1, <2>2, <2>5 DEF Partial
      <3>2. CASE u # {}
        <4> DEFINE y == CHOOSE y \in u : TRUE
        <4>1. k[u] = f[y].len + k[u \ {y}]
          BY <3>2, <2>5 DEF Partial
        <4>2. k[u \ {y}] = LenSum(f, u \ {y})
          BY <2>6
        <4> QED BY <4>1, <4>2, <3>2, <2>2
      <3> QED BY <3>1, <3>2
    <2> QED BY <2>6, <2>7 DEF x
  <1>5. Partial(f, T, G)
    <2> DEFINE H == [s \in SUBSET T |-> IF s = {} THEN 0
                      ELSE LET x == CHOOSE x \in s : TRUE IN f[x].len + G[s \ {x}]]
    <2>1. ASSUME NEW s \in SUBSET T PROVE G[s] = H[s]
      <3>1. CASE s = {}
        BY <3>1
      <3>2. CASE s # {}
        <4>1. G[s] = f[CHOOSE x \in s : TRUE].len + LenSum(f, s \ {CHOOSE x \in s : TRUE})
          BY <3>2
        <4>2. G[s \ {CHOOSE x \in s : TRUE}] = LenSum(f, s \ {CHOOSE x \in s : TRUE})
          BY <3>2, <1>4
        <4> HIDE DEF G
        <4>3. H[s] = f[CHOOSE x \in s : TRUE].len + G[s \ {CHOOSE x \in s : TRUE}]
          BY <3>2
        <4> QED BY <4>1, <4>2, <4>3
      <3> QED BY <3>1, <3>2
    <2>2. G = H
      BY <2>1
    <2> HIDE DEF G
    <2> QED BY <2>2 DEF Partial
  <1> QED BY <1>3, <1>5

LEMMA LenSumEmpty == ASSUME NEW f PROVE LenSum(f, {}) = 0
  <1>1. PICK g : Partial(f, {}, g)
    BY PartialExists, FS_EmptySet
  <1>2. g[{}] = 0
    BY <1>1 DEF Partial
  <1>3. g[{}] = LenSum(f, {})
    BY <1>1, PartialOfLenSum, FS_EmptySet
  <1> QED BY <1>2, <1>3

LEMMA LenSumChosen ==
  ASSUME NEW f, NEW S, IsFiniteSet(S), S # {}
  PROVE  LenSum(f, S) = f[CHOOSE x \in S : TRUE].len + LenSum(f, S \ {CHOOSE x \in S : TRUE})
  <1>1. PICK g : Partial(f, S, g)
    BY PartialExists
  <1>2. g[S] = f[CHOOSE x \in S : TRUE].len + g[S \ {CHOOSE x \in S : TRUE}]
    BY <1>1 DEF Partial
  <1>3. \A s \in SUBSET S : g[s] = LenSum(f, s)
    BY <1>1, PartialOfLenSum
  <1>4. S \ {CHOOSE x \in S : TRUE} \in SUBSET S
    OBVIOUS
  <1>5. g[S \ {CHOOSE x \in S : TRUE}] = LenSum(f, S \ {CHOOSE x \in S : TRUE})
    BY <1>3, <1>4
  <1> QED BY <1>2, <1>3, <1>5

\* The sum over a set is that over the set without one of its elements, plus
\* that element: the order in which the library adds does not matter.
LEMMA LenSumRemove ==
  ASSUME NEW f, NEW S, IsFiniteSet(S), \A x \in S : f[x].len \in Nat, NEW y \in S
  PROVE  LenSum(f, S \ {y}) \in Nat /\ LenSum(f, S) = f[y].len + LenSum(f, S \ {y})
  <1> DEFINE Good(T) == /\ LenSum(f, T) \in Nat
                        /\ \A z \in T : LenSum(f, T) = f[z].len + LenSum(f, T \ {z})
             C == {T \in SUBSET S : ~Good(T)}
  <1>1. \A T \in SUBSET S : IsFiniteSet(T) /\ Cardinality(T) \in Nat
    BY FS_Subset, FS_CardinalityType
  <1>2. ASSUME C # {} PROVE FALSE
    <2>1. PICK T \in C : \A u \in C : Cardinality(T) <= Cardinality(u)
      BY <1>1, <1>2, SmallestSet
    <2>2. ASSUME NEW z \in T PROVE Good(T \ {z})
      <3>1. Cardinality(T \ {z}) = Cardinality(T) - 1 /\ Cardinality(T) \in Nat
        BY <1>1, FS_RemoveElement
      <3>2. T \ {z} \notin C
        <4> HIDE DEF C
        <4> QED BY <3>1, <2>1
      <3> QED BY <3>2
    <2> HIDE DEF Good
    <2>3. T # {}
      BY LenSumEmpty DEF Good
    <2>4. PICK x \in T : LenSum(f, T) = f[x].len + LenSum(f, T \ {x})
      BY <2>3, <1>1, LenSumChosen
    <2>5. LenSum(f, T \ {x}) \in Nat /\ LenSum(f, T) \in Nat
      BY <2>2, <2>4 DEF Good
    <2>6. ASSUME NEW z \in T PROVE LenSum(f, T) = f[z].len + LenSum(f, T \ {z})
      <3>1. CASE z = x
        BY <3>1, <2>4
      <3>2. CASE z # x
        <4>1. z \in T \ {x} /\ x \in T \ {z} /\ (T \ {x}) \ {z} = (T \ {z}) \ {x}
          BY <3>2
        <4>2. LenSum(f, T \ {x}) = f[z].len + LenSum(f, (T \ {x}) \ {z})
          BY <4>1, <2>2 DEF Good
        <4>3. LenSum(f, T \ {z}) = f[x].len + LenSum(f, (T \ {x}) \ {z})
          BY <4>1, <2>2 DEF Good
        <4>4. LenSum(f, (T \ {x}) \ {z}) \in Nat
          <5>1. Good((T \ {x}) \ {z})
            <6>1. Cardinality((T \ {x}) \ {z}) < Cardinality(T)
              <7>1. Cardinality(T \ {x}) = Cardinality(T) - 1 /\ Cardinality(T) \in Nat
                BY <1>1, FS_RemoveElement
              <7>2. Cardinality((T \ {x}) \ {z}) = Cardinality(T \ {x}) - 1
                BY <1>1, <4>1, FS_RemoveElement
              <7> QED BY <7>1, <7>2
            <6>2. (T \ {x}) \ {z} \notin C
              <7>1. Cardinality((T \ {x}) \ {z}) \in Nat /\ Cardinality(T) \in Nat
                BY <1>1
              <7> HIDE DEF C
              <7> QED BY <6>1, <7>1, <2>1
            <6> QED BY <6>2
          <5> QED BY <5>1 DEF Good
        <4>5. f[x].len \in Nat /\ f[z].len \in Nat
          OBVIOUS
        <4> QED BY <2>4, <4>2, <4>3, <4>4, <4>5
      <3> QED BY <3>1, <3>2
    <2> QED BY <2>5, <2>6 DEF Good
  <1>3. Good(S) /\ Good(S \ {y})
    BY <1>2
  <1> QED BY <1>3

LEMMA LenSumAdd ==
  ASSUME NEW f, NEW S, IsFiniteSet(S), NEW y, y \notin S,
         \A x \in S \cup {y} : f[x].len \in Nat
  PROVE  LenSum(f, S) \in Nat /\ LenSum(f, S \cup {y}) = LenSum(f, S) + f[y].len
  <1>1. IsFiniteSet(S \cup {y}) /\ (S \cup {y}) \ {y} = S
    BY FS_AddElement
  <1> DEFINE T == S \cup {y}
  <1>2. y \in T /\ f[y].len \in Nat
    OBVIOUS
  <1>3. LenSum(f, T \ {y}) \in Nat /\ LenSum(f, T) = f[y].len + LenSum(f, T \ {y})
    <2> HIDE DEF T
    <2>1. IsFiniteSet(T) /\ \A x \in T : f[x].len \in Nat
      BY <1>1 DEF T
    <2> QED BY <1>2, <2>1, LenSumRemove
  <1>4. T \ {y} = S
    BY <1>1
  <1>5. LenSum(f, S) \in Nat /\ LenSum(f, T) = LenSum(f, S) + f[y].len
    <2> HIDE DEF T
    <2>1. LenSum(f, S) \in Nat /\ LenSum(f, T) = f[y].len + LenSum(f, S)
      BY <1>3, <1>4, Zenon
    <2> QED BY <1>2, <2>1
  <1> QED BY <1>5

LEMMA LenSumNat ==
  ASSUME NEW f, NEW S, IsFiniteSet(S), \A x \in S : f[x].len \in Nat
  PROVE  LenSum(f, S) \in Nat
  <1>1. CASE S = {}
    BY <1>1, LenSumEmpty
  <1>2. ASSUME NEW y \in S PROVE LenSum(f, S) \in Nat
    <2>1. LenSum(f, S \ {y}) \in Nat /\ LenSum(f, S) = f[y].len + LenSum(f, S \ {y})
      BY LenSumRemove
    <2> QED BY <2>1
  <1> QED BY <1>1, <1>2

\* The same for every subset, when the elements have lengths.
LEMMA LenSumParts ==
  ASSUME NEW f, NEW S, IsFiniteSet(S), \A x \in S : f[x].len \in Nat
  PROVE  \A T \in SUBSET S : \A z \in T :
           LenSum(f, T \ {z}) \in Nat /\ LenSum(f, T) = f[z].len + LenSum(f, T \ {z})
  <1> SUFFICES ASSUME NEW T \in SUBSET S, NEW z \in T
               PROVE  LenSum(f, T \ {z}) \in Nat
                      /\ LenSum(f, T) = f[z].len + LenSum(f, T \ {z})
    OBVIOUS
  <1>1. IsFiniteSet(T) /\ \A x \in T : f[x].len \in Nat
    BY FS_Subset
  <1> QED BY <1>1, LenSumRemove, ZenonT(60)

\* A sum does not change when the elements of S are renamed one to one.
LEMMA LenSumRenamed ==
  ASSUME NEW f, NEW g, NEW r, NEW S, IsFiniteSet(S),
         \A x \in S : f[x].len \in Nat /\ g[r[x]].len = f[x].len,
         \A x, y \in S : r[x] = r[y] => x = y
  PROVE  LenSum(g, {r[x] : x \in S}) = LenSum(f, S)
  <1> DEFINE Good(T) == IsFiniteSet({r[x] : x \in T})
                        /\ LenSum(g, {r[x] : x \in T}) = LenSum(f, T)
             C == {T \in SUBSET S : ~Good(T)}
  <1>0. \A T \in SUBSET S : \A z \in T :
          LenSum(f, T \ {z}) \in Nat /\ LenSum(f, T) = f[z].len + LenSum(f, T \ {z})
    BY LenSumParts, ZenonT(60)
  <1>1. \A T \in SUBSET S : IsFiniteSet(T) /\ Cardinality(T) \in Nat
    BY FS_Subset, FS_CardinalityType
  <1>2. ASSUME C # {} PROVE FALSE
    <2>1. PICK T \in C : \A u \in C : Cardinality(T) <= Cardinality(u)
      BY <1>1, <1>2, SmallestSet
    <2>2. CASE T = {}
      BY <2>2, LenSumEmpty, FS_EmptySet
    <2>3. ASSUME NEW z \in T PROVE FALSE
      <3>1. Cardinality(T \ {z}) = Cardinality(T) - 1 /\ Cardinality(T) \in Nat
        BY <1>1, FS_RemoveElement
      <3>2. T \ {z} \notin C
        <4> HIDE DEF C
        <4> QED BY <3>1, <2>1
      <3>3. Good(T \ {z})
        BY <3>2
      <3> DEFINE R == {r[x] : x \in T \ {z}}
      <3>4. R \cup {r[z]} = {r[x] : x \in T} /\ r[z] \notin R
        OBVIOUS
      <3>5. IsFiniteSet(R) /\ LenSum(g, R) = LenSum(f, T \ {z})
        BY <3>3
      <3>6. \A y \in R \cup {r[z]} : g[y].len \in Nat
        OBVIOUS
      <3> HIDE DEF R
      <3>7. IsFiniteSet(R \cup {r[z]}) /\ LenSum(g, R \cup {r[z]}) = LenSum(g, R) + g[r[z]].len
        <4>1. PICK y : y = r[z]
          OBVIOUS
        <4>2. y \notin R /\ \A x \in R \cup {y} : g[x].len \in Nat
          BY <4>1, <3>4, <3>6
        <4>3. IsFiniteSet(R \cup {y})
          BY <3>5, FS_AddElement
        <4>4. LenSum(g, R \cup {y}) = LenSum(g, R) + g[y].len
          BY <4>2, <3>5, LenSumAdd
        <4> QED BY <4>1, <4>3, <4>4
      <3>8. LenSum(f, T \ {z}) \in Nat /\ LenSum(f, T) = f[z].len + LenSum(f, T \ {z})
        BY <1>0
      <3>9. Good(T)
        <4>1. g[r[z]].len = f[z].len /\ f[z].len \in Nat
          OBVIOUS
        <4>2. LenSum(g, R \cup {r[z]}) = LenSum(f, T)
          BY <3>5, <3>7, <3>8, <4>1
        <4> QED BY <3>4, <3>7, <4>2
      <3> QED BY <3>9
    <2> QED BY <2>2, <2>3
  <1> QED BY <1>2

\* g has in T the elements that f has in S, each of them moved by r.
Moved(f, S, g, T, r) == /\ T = {r[x] : x \in S}
                        /\ \A x \in S : f[x].len \in Nat /\ g[r[x]].len = f[x].len
                        /\ \A x, y \in S : r[x] = r[y] => x = y

LEMMA LenSumMoved ==
  ASSUME NEW f, NEW S, NEW g, NEW T, NEW r, Moved(f, S, g, T, r), IsFiniteSet(S)
  PROVE  LenSum(g, T) = LenSum(f, S)
  BY LenSumRenamed DEF Moved

\* A sum depends on the lengths of its own elements only.
LEMMA LenSumSame ==
  ASSUME NEW f, NEW g, NEW S, IsFiniteSet(S),
         \A x \in S : f[x].len \in Nat /\ g[x].len = f[x].len
  PROVE  LenSum(g, S) = LenSum(f, S)
  <1> DEFINE r == [x \in S |-> x]
  <1>1. {r[x] : x \in S} = S
    OBVIOUS
  <1>2. LenSum(g, {r[x] : x \in S}) = LenSum(f, S)
    <2>1. /\ \A x \in S : f[x].len \in Nat /\ g[r[x]].len = f[x].len
          /\ \A x, y \in S : r[x] = r[y] => x = y
      OBVIOUS
    <2> HIDE DEF r
    <2> QED BY <2>1, LenSumRenamed
  <1> QED BY <1>1, <1>2

-------------------------------------------------------------------------------
(* Lists: the removal of an element, and the addition of one at the front. *)

LEMMA ToSetOfSeq ==
  ASSUME NEW S, NEW s \in Seq(S)
  PROVE  /\ ToSet(s) \subseteq S /\ IsFiniteSet(ToSet(s))
         /\ \A x : x \in ToSet(s) <=> \E i \in 1..Len(s) : s[i] = x
  <1>1. DOMAIN s = 1..Len(s) /\ Len(s) \in Nat /\ \A i \in 1..Len(s) : s[i] \in S
    BY LenProperties, ElementOfSeq
  <1>2. s \in Surjection(1..Len(s), ToSet(s))
    BY <1>1 DEF ToSet, Surjection
  <1>3. IsFiniteSet(1..Len(s))
    BY <1>1, FS_Interval
  <1> QED BY <1>1, <1>2, <1>3, FS_Surjection DEF ToSet

LEMMA ConsProperties ==
  ASSUME NEW S, NEW s \in Seq(S), NEW x \in S
  PROVE  /\ <<x>> \o s \in Seq(S) /\ ToSet(<<x>> \o s) = {x} \cup ToSet(s)
         /\ Len(<<x>> \o s) = Len(s) + 1 /\ (<<x>> \o s)[1] = x
         /\ \A i \in 1..Len(s) : (<<x>> \o s)[i + 1] = s[i]
         /\ IsInjective(<<x>> \o s) <=> x \notin ToSet(s) /\ IsInjective(s)
  <1> DEFINE c == <<x>> \o s
  <1>1. c \in Seq(S) /\ Len(c) = Len(s) + 1 /\ DOMAIN c = 1..Len(s) + 1
        /\ DOMAIN s = 1..Len(s) /\ Len(s) \in Nat
    BY LenProperties
  <1>2. c[1] = x /\ \A i \in 1..Len(s) : c[i + 1] = s[i]
    BY <1>1
  <1> HIDE DEF c
  <1>3. ToSet(c) = {x} \cup ToSet(s)
    <2>1. \A y : y \in ToSet(s) => y \in ToSet(c)
      BY <1>1, <1>2 DEF ToSet
    <2>2. ASSUME NEW i \in 1..Len(s) + 1 PROVE c[i] \in {x} \cup ToSet(s)
      <3>1. i = 1 \/ (i - 1 \in 1..Len(s) /\ i = (i - 1) + 1)
        BY <1>1
      <3> QED BY <3>1, <1>1, <1>2 DEF ToSet
    <2>3. x \in ToSet(c)
      BY <1>1, <1>2 DEF ToSet
    <2> QED BY <2>1, <2>2, <2>3, <1>1 DEF ToSet
  <1>4. IsInjective(c) => x \notin ToSet(s) /\ IsInjective(s)
    <2> SUFFICES ASSUME IsInjective(c) PROVE x \notin ToSet(s) /\ IsInjective(s)
      OBVIOUS
    <2>1. \A i \in 1..Len(s) : s[i] # x
      BY <1>1, <1>2 DEF IsInjective
    <2>2. \A i, j \in 1..Len(s) : s[i] = s[j] => i + 1 = j + 1
      BY <1>1, <1>2 DEF IsInjective
    <2> QED BY <1>1, <2>1, <2>2 DEF ToSet, IsInjective
  <1>5. x \notin ToSet(s) /\ IsInjective(s) => IsInjective(c)
    <2> SUFFICES ASSUME x \notin ToSet(s), IsInjective(s),
                        NEW i \in 1..Len(s) + 1, NEW j \in 1..Len(s) + 1, c[i] = c[j]
                 PROVE  i = j
      BY <1>1 DEF IsInjective
    <2>1. \A k \in 1..Len(s) + 1 : k = 1 \/ (k - 1 \in 1..Len(s) /\ c[k] = s[k - 1])
      <3> SUFFICES ASSUME NEW k \in 1..Len(s) + 1, k # 1
                   PROVE  k - 1 \in 1..Len(s) /\ c[k] = s[k - 1]
        OBVIOUS
      <3>1. k - 1 \in 1..Len(s) /\ (k - 1) + 1 = k
        BY <1>1
      <3> QED BY <3>1, <1>2
    <2>2. \A k \in 1..Len(s) : s[k] # x
      BY <1>1 DEF ToSet
    <2>3. \A k, l \in 1..Len(s) : s[k] = s[l] => k = l
      BY <1>1 DEF IsInjective
    <2>4. CASE i = 1
      BY <2>4, <2>1, <2>2, <1>2
    <2>5. CASE j = 1
      BY <2>5, <2>1, <2>2, <1>2
    <2>6. CASE i # 1 /\ j # 1
      <3>1. i - 1 \in 1..Len(s) /\ j - 1 \in 1..Len(s) /\ s[i - 1] = s[j - 1]
        BY <2>6, <2>1
      <3>2. i - 1 = j - 1
        BY <3>1, <2>3
      <3> QED BY <3>2, <1>1
    <2> QED BY <2>4, <2>5, <2>6
  <1> QED BY <1>1, <1>2, <1>3, <1>4, <1>5 DEF c

\* RemoveFirst takes an element that a list has out of its only place.
LEMMA RemoveFirstAt ==
  ASSUME NEW S, NEW s \in Seq(S), IsInjective(s), NEW k \in 1..Len(s)
  PROVE  RemoveFirst(s, s[k]) = SubSeq(s, 1, k - 1) \o SubSeq(s, k + 1, Len(s))
  <1>1. {i \in 1..Len(s) : s[i] = s[k]} = {k}
    BY LenProperties DEF IsInjective
  <1>2. SelectInSeq(s, LAMBDA v : v = s[k]) = k
    <2>1. Min({k}) = k
      BY DEF Min
    <2> QED BY <1>1, <2>1 DEF SelectInSeq
  <1> QED BY <1>2 DEF RemoveFirst, RemoveAt

LEMMA RemoveFirstProperties ==
  ASSUME NEW S, NEW s \in Seq(S), IsInjective(s), NEW k \in 1..Len(s)
  PROVE  LET r == RemoveFirst(s, s[k])
         IN  /\ r \in Seq(S) /\ Len(r) = Len(s) - 1
             /\ \A i \in 1..Len(r) : r[i] = IF i < k THEN s[i] ELSE s[i + 1]
             /\ IsInjective(r) /\ ToSet(r) = ToSet(s) \ {s[k]}
  <1> DEFINE r == RemoveFirst(s, s[k])
             a == SubSeq(s, 1, k - 1)
             b == SubSeq(s, k + 1, Len(s))
  <1>0. Len(s) \in Nat /\ DOMAIN s = 1..Len(s)
    BY LenProperties
  <1>1. a \in Seq(S) /\ Len(a) = k - 1 /\ \A i \in 1..k - 1 : a[i] = s[i]
    BY <1>0
  <1>2. b \in Seq(S) /\ Len(b) = Len(s) - k /\ \A i \in 1..Len(s) - k : b[i] = s[k + i]
    <2>1. k + 1 \in 1..Len(s) + 1 /\ Len(s) \in (k + 1) - 1..Len(s)
      BY <1>0
    <2>2. /\ b \in Seq(S) /\ Len(b) = Len(s) - (k + 1) + 1
          /\ \A i \in 1..Len(s) - (k + 1) + 1 : b[i] = s[(k + 1) + i - 1]
      BY <2>1, SubSeqProperties
    <2>3. Len(s) - (k + 1) + 1 = Len(s) - k /\ \A i \in 1..Len(s) - k : (k + 1) + i - 1 = k + i
      BY <1>0
    <2> HIDE DEF b
    <2> QED BY <2>2, <2>3
  <1>3. r = a \o b
    BY RemoveFirstAt
  <1> HIDE DEF a, b, r
  <1>8. /\ a \o b \in Seq(S) /\ Len(a \o b) = Len(a) + Len(b)
        /\ \A i \in 1..Len(a) + Len(b) :
             (a \o b)[i] = IF i <= Len(a) THEN a[i] ELSE b[i - Len(a)]
    BY <1>1, <1>2, ConcatProperties
  <1>4. r \in Seq(S) /\ Len(r) = Len(s) - 1 /\ DOMAIN r = 1..Len(r)
    <2>1. Len(r) = (k - 1) + (Len(s) - k)
      BY <1>1, <1>2, <1>3, <1>8
    <2> QED BY <2>1, <1>0, <1>3, <1>8, LenProperties
  <1>5. ASSUME NEW i \in 1..Len(r) PROVE r[i] = IF i < k THEN s[i] ELSE s[i + 1]
    <2>0. /\ i \in 1..Len(a) + Len(b) /\ Len(a) = k - 1 /\ k \in Nat /\ i \in Nat
          /\ Len(a) + Len(b) = Len(s) - 1
      BY <1>0, <1>1, <1>2, <1>4
    <2>3. r[i] = IF i <= k - 1 THEN a[i] ELSE b[i - (k - 1)]
      BY <2>0, <1>3, <1>8
    <2>1. CASE i < k
      BY <2>1, <2>0, <2>3, <1>1
    <2>2. CASE ~(i < k)
      <3>1. r[i] = b[i - (k - 1)] /\ i - (k - 1) \in 1..Len(s) - k
        BY <2>2, <2>0, <2>3, <1>0
      <3>2. b[i - (k - 1)] = s[k + (i - (k - 1))] /\ k + (i - (k - 1)) = i + 1
        BY <3>1, <1>2, <1>0
      <3> QED BY <3>1, <3>2, <2>2
    <2> QED BY <2>1, <2>2
  <1>6. IsInjective(r)
    <2> SUFFICES ASSUME NEW i \in 1..Len(r), NEW j \in 1..Len(r), r[i] = r[j] PROVE i = j
      BY <1>4 DEF IsInjective
    <2> DEFINE at(x) == IF x < k THEN x ELSE x + 1
    <2>1. at(i) \in 1..Len(s) /\ at(j) \in 1..Len(s) /\ (at(i) = at(j) => i = j)
      BY <1>0, <1>4
    <2>2. s[at(i)] = s[at(j)]
      BY <1>5
    <2> HIDE DEF at
    <2> QED BY <2>1, <2>2, <1>0 DEF IsInjective
  <1>7. ToSet(r) = ToSet(s) \ {s[k]}
    <2>1. ASSUME NEW i \in 1..Len(r) PROVE r[i] \in ToSet(s) \ {s[k]}
      <3>1. CASE i < k
        BY <3>1, <1>0, <1>4, <1>5 DEF ToSet, IsInjective
      <3>2. CASE ~(i < k)
        <4>1. r[i] = s[i + 1] /\ i + 1 \in 1..Len(s) /\ i + 1 # k
          BY <3>2, <1>0, <1>4, <1>5
        <4> QED BY <4>1, <1>0 DEF ToSet, IsInjective
      <3> QED BY <3>1, <3>2
    <2>2. ASSUME NEW i \in 1..Len(s), s[i] # s[k] PROVE s[i] \in ToSet(r)
      <3>1. CASE i < k
        <4>1. i \in 1..Len(r) /\ r[i] = s[i]
          BY <3>1, <1>0, <1>4, <1>5
        <4> QED BY <4>1, <1>4 DEF ToSet
      <3>2. CASE i > k
        <4>1. i - 1 \in 1..Len(r) /\ ~(i - 1 < k) /\ (i - 1) + 1 = i
          BY <3>2, <1>0, <1>4
        <4>2. r[i - 1] = s[i]
          BY <4>1, <1>5
        <4> QED BY <4>1, <4>2, <1>4 DEF ToSet
      <3> QED BY <3>1, <3>2, <2>2, <1>0
    <2> QED BY <2>1, <2>2, <1>0, <1>4 DEF ToSet
  <1> QED BY <1>4, <1>5, <1>6, <1>7 DEF r

\* The list of what f gives for each element of s.
Mapped(f, s) == [i \in DOMAIN s |-> f[s[i]]]

Image(f, S) == {f[x] : x \in S}

LEMMA MappedProperties ==
  ASSUME NEW S, NEW f, NEW s \in Seq(S)
  PROVE  /\ Mapped(f, s) \in Seq(Image(f, S)) /\ Len(Mapped(f, s)) = Len(s)
         /\ \A i \in 1..Len(s) : Mapped(f, s)[i] = f[s[i]]
  BY DEF Mapped, Image

LEMMA MappedCons ==
  ASSUME NEW S, NEW f, NEW s \in Seq(S), NEW x \in S
  PROVE  Mapped(f, <<x>> \o s) = <<f[x]>> \o Mapped(f, s)
  <1> DEFINE c == <<x>> \o s
             d == <<f[x]>> \o Mapped(f, s)
  <1>0. Len(s) \in Nat
    BY LenProperties
  <1>1. /\ c \in Seq(S) /\ Len(c) = Len(s) + 1 /\ c[1] = x
        /\ \A i \in 1..Len(s) : c[i + 1] = s[i]
    BY ConsProperties
  <1>2. /\ Mapped(f, s) \in Seq(Image(f, S)) /\ Len(Mapped(f, s)) = Len(s)
        /\ \A i \in 1..Len(s) : Mapped(f, s)[i] = f[s[i]]
    BY DEF Mapped, Image
  <1>3. /\ d \in Seq(Image(f, S)) /\ Len(d) = Len(s) + 1 /\ d[1] = f[x]
        /\ \A i \in 1..Len(s) : d[i + 1] = Mapped(f, s)[i]
    <2>1. f[x] \in Image(f, S)
      BY DEF Image
    <2> QED BY <2>1, <1>2, ConsProperties
  <1> HIDE DEF c, d
  <1>4. /\ Mapped(f, c) \in Seq(Image(f, S)) /\ Len(Mapped(f, c)) = Len(s) + 1
        /\ \A i \in 1..Len(s) + 1 : Mapped(f, c)[i] = f[c[i]]
    <2>1. c \in Seq(S)
      BY <1>1
    <2>2. /\ Mapped(f, c) \in Seq(Image(f, S)) /\ Len(Mapped(f, c)) = Len(c)
          /\ \A i \in 1..Len(c) : Mapped(f, c)[i] = f[c[i]]
      BY <2>1 DEF Mapped, Image
    <2> QED BY <2>2, <1>1
  <1>5. ASSUME NEW i \in 1..Len(s) + 1 PROVE f[c[i]] = d[i]
    <2>1. CASE i = 1
      BY <2>1, <1>1, <1>3
    <2>2. CASE i # 1
      <3>1. PICK j \in 1..Len(s) : i = j + 1
        BY <2>2, <1>0
      <3>2. c[j + 1] = s[j] /\ d[j + 1] = f[s[j]]
        BY <3>1, <1>1, <1>2, <1>3
      <3> QED BY <3>1, <3>2
    <2> QED BY <2>1, <2>2
  <1>6. Mapped(f, c) = d
    BY <1>3, <1>4, <1>5, SeqEqual
  <1> QED BY <1>6 DEF c, d

LEMMA RemoveAtProperties ==
  ASSUME NEW S, NEW s \in Seq(S), NEW k \in 1..Len(s)
  PROVE  /\ RemoveAt(s, k) \in Seq(S) /\ Len(RemoveAt(s, k)) = Len(s) - 1
         /\ \A i \in 1..Len(s) - 1 : RemoveAt(s, k)[i] = IF i < k THEN s[i] ELSE s[i + 1]
  <1> DEFINE a == SubSeq(s, 1, k - 1)
             b == SubSeq(s, k + 1, Len(s))
  <1>0. Len(s) \in Nat /\ k \in Nat
    BY LenProperties
  <1>1. /\ a \in Seq(S) /\ Len(a) = k - 1 /\ \A i \in 1..k - 1 : a[i] = s[i]
    BY <1>0, SubSeqProperties
  <1>2. /\ b \in Seq(S) /\ Len(b) = Len(s) - k
        /\ \A i \in 1..Len(s) - k : b[i] = s[k + i]
    BY <1>0, SubSeqProperties
  <1>4. RemoveAt(s, k) = a \o b
    BY DEF RemoveAt
  <1> HIDE DEF a, b
  <1>3. /\ a \o b \in Seq(S) /\ Len(a \o b) = Len(s) - 1
        /\ \A i \in 1..Len(s) - 1 : (a \o b)[i] = IF i <= k - 1 THEN a[i] ELSE b[i - (k - 1)]
    <2>1. Len(a) + Len(b) = Len(s) - 1
      BY <1>0, <1>1, <1>2
    <2>2. /\ a \o b \in Seq(S) /\ Len(a \o b) = Len(a) + Len(b)
          /\ \A i \in 1..Len(a) + Len(b) : (a \o b)[i] = IF i <= Len(a) THEN a[i] ELSE b[i - Len(a)]
      BY <1>1, <1>2, ConcatProperties
    <2> QED BY <2>1, <2>2, <1>1
  <1>5. ASSUME NEW i \in 1..Len(s) - 1
        PROVE  (a \o b)[i] = IF i < k THEN s[i] ELSE s[i + 1]
    <2>1. CASE i < k
      <3>1. i \in 1..k - 1 /\ i <= k - 1
        BY <2>1, <1>0
      <3> QED BY <2>1, <3>1, <1>1, <1>3
    <2>2. CASE ~(i < k)
      <3>1. ~(i <= k - 1) /\ i - (k - 1) \in 1..Len(s) - k /\ k + (i - (k - 1)) = i + 1
        BY <2>2, <1>0
      <3>2. (a \o b)[i] = b[i - (k - 1)] /\ b[i - (k - 1)] = s[i + 1]
        BY <3>1, <1>2, <1>3
      <3> QED BY <2>2, <3>2
    <2> QED BY <2>1, <2>2
  <1>6. \A i \in 1..Len(s) - 1 : (a \o b)[i] = IF i < k THEN s[i] ELSE s[i + 1]
    BY <1>5
  <1> QED BY <1>3, <1>4, <1>6

\* Taking an element out of a list takes what f gives for it out of the mapped
\* list, at the same place.
LEMMA MappedRemove ==
  ASSUME NEW S, NEW f,
         NEW s \in Seq(S), IsInjective(s), NEW k \in 1..Len(s)
  PROVE  Mapped(f, RemoveFirst(s, s[k])) = RemoveAt(Mapped(f, s), k)
  <1> DEFINE m == Mapped(f, s)
             r == RemoveFirst(s, s[k])
  <1>0. Len(s) \in Nat /\ k \in Nat
    BY LenProperties
  <1>1. /\ r \in Seq(S) /\ Len(r) = Len(s) - 1
        /\ \A i \in 1..Len(s) - 1 : r[i] = IF i < k THEN s[i] ELSE s[i + 1]
    BY RemoveFirstProperties
  <1>2. /\ m \in Seq(Image(f, S)) /\ Len(m) = Len(s) /\ \A i \in 1..Len(s) : m[i] = f[s[i]]
    BY DEF Mapped, Image
  <1> HIDE DEF m, r
  <1>3. /\ Mapped(f, r) \in Seq(Image(f, S)) /\ Len(Mapped(f, r)) = Len(s) - 1
        /\ \A i \in 1..Len(s) - 1 : Mapped(f, r)[i] = f[r[i]]
    <2>1. r \in Seq(S)
      BY <1>1
    <2>2. /\ Mapped(f, r) \in Seq(Image(f, S)) /\ Len(Mapped(f, r)) = Len(r)
          /\ \A i \in 1..Len(r) : Mapped(f, r)[i] = f[r[i]]
      BY <2>1 DEF Mapped, Image
    <2> QED BY <2>2, <1>1
  <1>4. /\ RemoveAt(m, k) \in Seq(Image(f, S)) /\ Len(RemoveAt(m, k)) = Len(s) - 1
        /\ \A i \in 1..Len(s) - 1 : RemoveAt(m, k)[i] = IF i < k THEN m[i] ELSE m[i + 1]
    <2>1. PICK T : T = Image(f, S)
      OBVIOUS
    <2>2. m \in Seq(T) /\ k \in 1..Len(m) /\ Len(m) = Len(s)
      BY <1>2, <2>1
    <2>3. /\ RemoveAt(m, k) \in Seq(T) /\ Len(RemoveAt(m, k)) = Len(m) - 1
          /\ \A i \in 1..Len(m) - 1 : RemoveAt(m, k)[i] = IF i < k THEN m[i] ELSE m[i + 1]
      BY <2>2, RemoveAtProperties, ZenonT(60)
    <2> QED BY <2>1, <2>2, <2>3, ZenonT(60)
  <1>5. ASSUME NEW i \in 1..Len(s) - 1 PROVE Mapped(f, r)[i] = RemoveAt(m, k)[i]
    <2>1. i \in 1..Len(s) /\ i + 1 \in 1..Len(s)
      BY <1>0
    <2>2. CASE i < k
      <3>1. r[i] = s[i] /\ RemoveAt(m, k)[i] = m[i] /\ m[i] = f[s[i]]
        BY <2>1, <2>2, <1>1, <1>2, <1>4
      <3>2. Mapped(f, r)[i] = f[r[i]]
        BY <1>3
      <3> QED BY <3>1, <3>2
    <2>3. CASE ~(i < k)
      <3>1. r[i] = s[i + 1] /\ RemoveAt(m, k)[i] = m[i + 1] /\ m[i + 1] = f[s[i + 1]]
        BY <2>1, <2>3, <1>1, <1>2, <1>4
      <3>2. Mapped(f, r)[i] = f[r[i]]
        BY <1>3
      <3> QED BY <3>1, <3>2
    <2> QED BY <2>2, <2>3
  <1>6. Mapped(f, r) = RemoveAt(m, k)
    BY <1>3, <1>4, <1>5, SeqEqual
  <1> QED BY <1>6 DEF m, r

\* A list cut in two after n elements.
LEMMA CutProperties ==
  ASSUME NEW S, NEW s \in Seq(S), NEW n \in 0..Len(s)
  PROVE  /\ SubSeq(s, 1, n) \in Seq(S) /\ Len(SubSeq(s, 1, n)) = n
         /\ \A i \in 1..n : SubSeq(s, 1, n)[i] = s[i]
         /\ SubSeq(s, n + 1, Len(s)) \in Seq(S) /\ Len(SubSeq(s, n + 1, Len(s))) = Len(s) - n
         /\ \A i \in 1..Len(s) - n : SubSeq(s, n + 1, Len(s))[i] = s[n + i]
         /\ SubSeq(s, 1, n) \o SubSeq(s, n + 1, Len(s)) = s
  <1> DEFINE a == SubSeq(s, 1, n)
             b == SubSeq(s, n + 1, Len(s))
  <1>0. Len(s) \in Nat /\ n \in Nat
    BY LenProperties
  <1>1. a \in Seq(S) /\ Len(a) = n /\ \A i \in 1..n : a[i] = s[i]
    BY <1>0, SubSeqProperties
  <1>2. b \in Seq(S) /\ Len(b) = Len(s) - n /\ \A i \in 1..Len(s) - n : b[i] = s[n + i]
    BY <1>0, SubSeqProperties
  <1>3. CASE s = <<>>
    <2>1. n = 0 /\ Len(s) = 0
      BY <1>0, <1>3
    <2>2. Len(a) = 0 /\ Len(b) = 0
      BY <1>1, <1>2, <2>1
    <2> HIDE DEF a, b
    <2>3. a = <<>> /\ b = <<>>
      BY <1>1, <1>2, <2>2, EmptySeq
    <2> QED BY <1>1, <1>2, <1>3, <2>3, ConcatEmptySeq DEF a, b
  <1>4. CASE s # <<>>
    <2>1. 1 \in 1..Len(s) + 1 /\ n \in 1 - 1..Len(s) /\ Len(s) \in n..Len(s)
      BY <1>0
    <2>2. a \o b = SubSeq(s, 1, Len(s))
      BY <2>1, ConcatAdjacentSubSeq
    <2> QED BY <1>1, <1>2, <2>2, SubSeqFull
  <1> QED BY <1>3, <1>4

-------------------------------------------------------------------------------
(* Extrema of two integers.                                                *)

LEMMA MinOfTwo ==
  ASSUME NEW a \in Int, NEW b \in Int
  PROVE  Min({a, b}) = IF a <= b THEN a ELSE b
  <1>1. \E x \in {a, b} : \A y \in {a, b} : x <= y
    OBVIOUS
  <1>2. Min({a, b}) \in {a, b} /\ \A y \in {a, b} : Min({a, b}) <= y
    BY <1>1 DEF Min
  <1> QED BY <1>2

LEMMA MaxOfTwo ==
  ASSUME NEW a \in Int, NEW b \in Int
  PROVE  Max({a, b}) = IF a <= b THEN b ELSE a
  <1>1. \E x \in {a, b} : \A y \in {a, b} : x >= y
    OBVIOUS
  <1>2. Max({a, b}) \in {a, b} /\ \A y \in {a, b} : Max({a, b}) >= y
    BY <1>1 DEF Max
  <1> QED BY <1>2

\* A list without repetition has as many elements as positions.
LEMMA PrefixCount ==
  ASSUME NEW S, NEW q \in Seq(S), IsInjective(q), NEW n \in 0..Len(q)
  PROVE  IsFiniteSet({q[m] : m \in 1..n}) /\ Cardinality({q[m] : m \in 1..n}) = n
  <1> DEFINE T == {q[m] : m \in 1..n}
             g == [m \in 1..n |-> q[m]]
  <1>1. n \in Nat /\ 1..n \subseteq DOMAIN q
    BY LenProperties
  <1>2. g \in Bijection(1..n, T)
    <2>1. \A x, y \in 1..n : g[x] = g[y] => x = y
      BY <1>1 DEF IsInjective
    <2>2. g \in [1..n -> T] /\ \A t \in T : \E m \in 1..n : g[m] = t
      OBVIOUS
    <2> HIDE DEF g, T
    <2> QED BY <2>1, <2>2 DEF Bijection, Injection, Surjection, IsInjective
  <1>3. IsFiniteSet(1..n) /\ Cardinality(1..n) = n
    BY <1>1, FS_Interval
  <1> QED BY <1>2, <1>3, FS_Bijection DEF ExistsBijection

===============================================================================
