-------------------------------- MODULE Sums --------------------------------
(***************************************************************************)
(* Lemmas about SumFunctionOnSet, with which the models add up quantities  *)
(* and costs, about the fold of a sequence, and the induction principles   *)
(* they rest on; about shares and quotients that round down; and about     *)
(* sequences of whatever they hold.                                        *)
(*                                                                         *)
(* The induction theorems of the library take the induction hypothesis as  *)
(* an operator; here it is the set of the values that have it, which first *)
(* order provers can instantiate.                                          *)
(***************************************************************************)
EXTENDS Integers, Sequences, FiniteSets, FiniteSetsExt, Functions, FiniteSetTheorems,
        WellFoundedInduction, TLAPS

(* Every set of numbers has a least one. *)
LEMMA NatMinimum ==
  ASSUME NEW T, T \subseteq Nat, T # {}
  PROVE  \E x \in T : \A y \in T : x <= y
  <1> DEFINE R == OpToRel(<, Nat)
  <1>1. PICK x \in T : \A y \in T : <<y, x>> \notin R
    <2>1. IsWellFoundedOn(R, Nat)
      BY NatLessThanWellFounded
    <2> HIDE DEF R
    <2> QED
      BY <2>1, WFMin
  <1>2. \A y \in T : ~(y < x)
    <2> SUFFICES ASSUME NEW y \in T, y < x PROVE FALSE
      OBVIOUS
    <2>1. <<y, x>> \in {ss \in Nat \X Nat : ss[1] < ss[2]}
      OBVIOUS
    <2> QED
      BY <1>1, <2>1 DEF OpToRel
  <1> QED
    BY <1>2

(* Induction over the numbers. *)
LEMMA NumberInduction ==
  ASSUME NEW P, 0 \in P, \A n \in Nat : n \in P => n + 1 \in P
  PROVE  Nat \subseteq P
  <1> SUFFICES ASSUME Nat \ P # {} PROVE FALSE
    OBVIOUS
  <1>1. PICK x \in Nat \ P : \A y \in Nat \ P : x <= y
    BY NatMinimum
  <1>2. x # 0
    OBVIOUS
  <1>3. x - 1 \in Nat /\ x - 1 \in P
    BY <1>1, <1>2
  <1>4. x - 1 + 1 \in P
    BY <1>3
  <1> QED
    BY <1>4

(* Induction over the subsets of a finite set, an element at a time. *)
LEMMA SubsetInduction ==
  ASSUME NEW A, IsFiniteSet(A), NEW P, {} \in P,
         \A T \in SUBSET A : \A x \in A \ T : T \in P => T \cup {x} \in P
  PROVE  A \in P
  <1> DEFINE Q == {n \in Nat : \A T \in SUBSET A : Cardinality(T) = n => T \in P}
  <1>1. 0 \in Q
    <2> SUFFICES ASSUME NEW T \in SUBSET A, Cardinality(T) = 0 PROVE T \in P
      OBVIOUS
    <2> QED
      BY FS_EmptySet, FS_Subset
  <1>2. ASSUME NEW n \in Nat, n \in Q PROVE n + 1 \in Q
    <2> SUFFICES ASSUME NEW T \in SUBSET A, Cardinality(T) = n + 1 PROVE T \in P
      OBVIOUS
    <2>1. IsFiniteSet(T)
      BY FS_Subset
    <2>2. T # {}
      <3>1. n + 1 # 0 /\ Cardinality({}) = 0
        BY FS_EmptySet
      <3> HIDE DEF Q
      <3> QED
        BY <3>1
    <2>3. PICK x \in T : TRUE
      BY <2>2
    <2>4. Cardinality(T \ {x}) = n
      <3>1. Cardinality(T \ {x}) = Cardinality(T) - 1
        BY <2>1, <2>3, FS_RemoveElement
      <3> HIDE DEF Q
      <3> QED
        BY <3>1
    <2>5. T \ {x} \in P
      BY <1>2, <2>4
    <2>6. (T \ {x}) \cup {x} \in P
      BY <2>3, <2>5
    <2>7. (T \ {x}) \cup {x} = T
      BY <2>3
    <2> QED
      BY <2>6, <2>7
  <1>3. Nat \subseteq Q
    <2> HIDE DEF Q
    <2> QED
      BY <1>1, <1>2, NumberInduction
  <1> QED
    BY <1>3, FS_CardinalityType

-----------------------------------------------------------------------------
(* The recursion SumFunctionOnSet is defined by: an element, whichever     *)
(* CHOOSE takes, and the sum of the others.                                *)
Pick(s) == CHOOSE x \in s : TRUE

SumsBy(g, f, D) ==
  g = [s \in D |-> IF s = {} THEN 0 ELSE f[Pick(s)] + g[s \ {Pick(s)}]]

SumsWithin(g, f, I) == SumsBy(g, f, SUBSET I)

(* The subsets of I with at most n elements. *)
SmallSubsets(I, n) == {s \in SUBSET I : Cardinality(s) <= n}

LEMMA PickElement ==
  ASSUME NEW s, s # {}
  PROVE  Pick(s) \in s
  BY DEF Pick

LEMMA SumDefinition ==
  ASSUME NEW f, NEW I
  PROVE  SumFunctionOnSet(f, I) = (CHOOSE g : SumsWithin(g, f, I))[I]
  BY Zenon DEF SumFunctionOnSet, FoldFunctionOnSet, MapThenFoldSet, SumsWithin, SumsBy, Pick

(* The sum depends only on what is summed. *)
LEMMA SumCongruence ==
  ASSUME NEW f, NEW h, NEW I, \A x \in I : f[x] = h[x]
  PROVE  SumFunctionOnSet(f, I) = SumFunctionOnSet(h, I)
  <1>1. ASSUME NEW g PROVE SumsWithin(g, f, I) <=> SumsWithin(g, h, I)
    <2>1. \A s \in SUBSET I : s # {} => f[Pick(s)] = h[Pick(s)]
      BY PickElement
    <2> QED
      BY <2>1 DEF SumsWithin, SumsBy
  <1>2. (CHOOSE g : SumsWithin(g, f, I)) = (CHOOSE g : SumsWithin(g, h, I))
    BY <1>1
  <1> QED
    BY <1>2, SumDefinition

(* The recursion defines a function on the subsets of a finite set... *)
LEMMA RecursionExists ==
  ASSUME NEW f, NEW I, IsFiniteSet(I)
  PROVE  \E g : SumsWithin(g, f, I)
  <1> DEFINE Q == {n \in Nat : \E g : SumsBy(g, f, SmallSubsets(I, n))}
  <1>1. 0 \in Q
    <2>1. SmallSubsets(I, 0) = {{}}
      <3>1. ASSUME NEW s \in SUBSET I, Cardinality(s) <= 0 PROVE s = {}
        BY <3>1, FS_Subset, FS_EmptySet, FS_CardinalityType
      <3> QED
        BY <3>1, FS_EmptySet DEF SmallSubsets
    <2>2. SumsBy([s \in {{}} |-> 0], f, {{}})
      BY DEF SumsBy
    <2> QED
      BY <2>1, <2>2
  <1>2. ASSUME NEW n \in Nat, n \in Q PROVE n + 1 \in Q
    <2>1. PICK g : SumsBy(g, f, SmallSubsets(I, n))
      BY <1>2
    <2> DEFINE h == [s \in SmallSubsets(I, n + 1) |->
                       IF s = {} THEN 0 ELSE f[Pick(s)] + g[s \ {Pick(s)}]]
    <2>2. ASSUME NEW s \in SmallSubsets(I, n) PROVE h[s] = g[s]
      <3>1. s \in SmallSubsets(I, n + 1)
        BY FS_Subset, FS_CardinalityType DEF SmallSubsets
      <3> QED
        BY <2>1, <3>1 DEF SumsBy
    <2>3. ASSUME NEW s \in SmallSubsets(I, n + 1), s # {}
          PROVE  s \ {Pick(s)} \in SmallSubsets(I, n)
      <3>1. IsFiniteSet(s) /\ s \subseteq I /\ Cardinality(s) <= n + 1
        BY FS_Subset DEF SmallSubsets
      <3>2. Cardinality(s) \in Nat
        BY <3>1, FS_CardinalityType
      <3>3. Cardinality(s \ {Pick(s)}) = Cardinality(s) - 1
        BY <2>3, <3>1, PickElement, FS_RemoveElement
      <3> QED
        BY <3>1, <3>2, <3>3 DEF SmallSubsets
    <2>4. SumsBy(h, f, SmallSubsets(I, n + 1))
      BY <2>2, <2>3 DEF SumsBy
    <2> QED
      BY <2>4
  <1>3. Nat \subseteq Q
    <2> HIDE DEF Q
    <2> QED
      BY <1>1, <1>2, NumberInduction
  <1>4. SmallSubsets(I, Cardinality(I)) = SUBSET I
    BY FS_Subset DEF SmallSubsets
  <1> QED
    BY <1>3, <1>4, FS_CardinalityType DEF SumsWithin

(* ... and only one. *)
LEMMA RecursionUnique ==
  ASSUME NEW f, NEW I, IsFiniteSet(I),
         NEW g, SumsWithin(g, f, I), NEW J, J \subseteq I,
         NEW h, SumsWithin(h, f, J)
  PROVE  g[J] = h[J]
  <1> DEFINE Q == {n \in Nat : \A t \in SUBSET J : Cardinality(t) <= n => g[t] = h[t]}
  <1>1. 0 \in Q
    <2> SUFFICES ASSUME NEW t \in SUBSET J, Cardinality(t) <= 0 PROVE g[t] = h[t]
      OBVIOUS
    <2>1. t = {}
      BY FS_Subset, FS_EmptySet, FS_CardinalityType
    <2> QED
      BY <2>1 DEF SumsWithin, SumsBy
  <1>2. ASSUME NEW n \in Nat, n \in Q PROVE n + 1 \in Q
    <2> SUFFICES ASSUME NEW t \in SUBSET J, Cardinality(t) <= n + 1 PROVE g[t] = h[t]
      OBVIOUS
    <2>1. CASE t = {}
      BY <2>1 DEF SumsWithin, SumsBy
    <2>2. CASE t # {}
      <3> DEFINE r == t \ {Pick(t)}
      <3>1. IsFiniteSet(t) /\ Cardinality(t) \in Nat
        BY FS_Subset, FS_CardinalityType
      <3>2. Cardinality(r) = Cardinality(t) - 1
        BY <2>2, <3>1, PickElement, FS_RemoveElement
      <3>3. g[r] = h[r]
        <4>1. Cardinality(r) <= n
          <5> HIDE DEF Q, r
          <5> QED
            BY <3>1, <3>2
        <4> QED
          BY <1>2, <4>1
      <3>4. g[t] = f[Pick(t)] + g[r] /\ h[t] = f[Pick(t)] + h[r]
        BY <2>2 DEF SumsWithin, SumsBy
      <3> QED
        BY <3>3, <3>4
    <2> QED
      BY <2>1, <2>2
  <1>3. Nat \subseteq Q
    <2> HIDE DEF Q
    <2> QED
      BY <1>1, <1>2, NumberInduction
  <1> QED
    <2>1. IsFiniteSet(J)
      BY FS_Subset
    <2> QED
      BY <1>3, <2>1, FS_CardinalityType

LEMMA SumOfSums ==
  ASSUME NEW f, NEW I, IsFiniteSet(I)
  PROVE  \E g : /\ SumsWithin(g, f, I)
               /\ \A J \in SUBSET I : SumFunctionOnSet(f, J) = g[J]
  <1>1. PICK g : SumsWithin(g, f, I)
    BY RecursionExists
  <1>2. ASSUME NEW J \in SUBSET I PROVE SumFunctionOnSet(f, J) = g[J]
    <2> DEFINE h == CHOOSE k : SumsWithin(k, f, J)
    <2>0. IsFiniteSet(J)
      BY FS_Subset
    <2>1. SumsWithin(h, f, J)
      BY <2>0, RecursionExists
    <2>2. SumFunctionOnSet(f, J) = h[J]
      BY SumDefinition
    <2> HIDE DEF h
    <2>3. J \subseteq I
      OBVIOUS
    <2>4. g[J] = h[J]
      BY <1>1, <2>1, <2>3, RecursionUnique
    <2> QED
      BY <2>2, <2>4
  <1> QED
    BY <1>1, <1>2

LEMMA SumEmpty ==
  ASSUME NEW f
  PROVE  SumFunctionOnSet(f, {}) = 0
  <1>1. PICK g : /\ SumsWithin(g, f, {})
                 /\ \A J \in SUBSET {} : SumFunctionOnSet(f, J) = g[J]
    BY SumOfSums, FS_EmptySet
  <1>2. g[{}] = 0
    BY <1>1 DEF SumsWithin, SumsBy
  <1> QED
    BY <1>1, <1>2

(* The sum is a chosen element and the sum of the rest. *)
LEMMA SumStep ==
  ASSUME NEW f, NEW I, IsFiniteSet(I), I # {}
  PROVE  SumFunctionOnSet(f, I) = f[Pick(I)] + SumFunctionOnSet(f, I \ {Pick(I)})
  <1>1. PICK g : /\ SumsWithin(g, f, I)
                 /\ \A J \in SUBSET I : SumFunctionOnSet(f, J) = g[J]
    BY SumOfSums
  <1>2. g[I] = f[Pick(I)] + g[I \ {Pick(I)}]
    BY <1>1 DEF SumsWithin, SumsBy
  <1> QED
    BY <1>1, <1>2

LEMMA SumInt ==
  ASSUME NEW f, NEW I, IsFiniteSet(I), \A x \in I : f[x] \in Int
  PROVE  SumFunctionOnSet(f, I) \in Int
  <1> DEFINE Q == {n \in Nat : \A t \in SUBSET I : Cardinality(t) <= n =>
                                 SumFunctionOnSet(f, t) \in Int}
  <1>1. 0 \in Q
    <2> SUFFICES ASSUME NEW t \in SUBSET I, Cardinality(t) <= 0
                 PROVE  SumFunctionOnSet(f, t) \in Int
      OBVIOUS
    <2>1. t = {}
      BY FS_Subset, FS_EmptySet, FS_CardinalityType
    <2> QED
      BY <2>1, SumEmpty
  <1>2. ASSUME NEW n \in Nat, n \in Q PROVE n + 1 \in Q
    <2> SUFFICES ASSUME NEW t \in SUBSET I, Cardinality(t) <= n + 1
                 PROVE  SumFunctionOnSet(f, t) \in Int
      OBVIOUS
    <2>1. CASE t = {}
      BY <2>1, SumEmpty
    <2>2. CASE t # {}
      <3> DEFINE r == t \ {Pick(t)}
      <3>1. IsFiniteSet(t) /\ Cardinality(t) \in Nat
        BY FS_Subset, FS_CardinalityType
      <3>2. Cardinality(r) = Cardinality(t) - 1
        BY <2>2, <3>1, PickElement, FS_RemoveElement
      <3>3. Cardinality(r) <= n
        <4> HIDE DEF Q, r
        <4> QED
          BY <3>1, <3>2
      <3>4. SumFunctionOnSet(f, r) \in Int
        BY <1>2, <3>3
      <3>5. SumFunctionOnSet(f, t) = f[Pick(t)] + SumFunctionOnSet(f, r)
        BY <2>2, <3>1, SumStep
      <3>6. f[Pick(t)] \in Int
        BY <2>2, PickElement
      <3> HIDE DEF Q, r
      <3> QED
        BY <3>4, <3>5, <3>6
    <2> QED
      BY <2>1, <2>2
  <1>3. Nat \subseteq Q
    <2> HIDE DEF Q
    <2> QED
      BY <1>1, <1>2, NumberInduction
  <1> QED
    BY <1>3, FS_CardinalityType

(* Whichever element is taken out, the sum is that element and the rest.   *)
LEMMA SumAnyStep ==
  ASSUME NEW f, NEW A, IsFiniteSet(A), \A y \in A : f[y] \in Int
  PROVE  \A t \in SUBSET A : \A y \in A \ t :
           SumFunctionOnSet(f, t \cup {y}) = f[y] + SumFunctionOnSet(f, t)
  <1> DEFINE Adds(t) == \A y \in A \ t :
               SumFunctionOnSet(f, t \cup {y}) = f[y] + SumFunctionOnSet(f, t)
             Q == {n \in Nat : \A t \in SUBSET A : Cardinality(t) < n => Adds(t)}
  <1>1. ASSUME NEW t \in SUBSET A
        PROVE  /\ IsFiniteSet(t) /\ Cardinality(t) \in Nat
               /\ SumFunctionOnSet(f, t) \in Int
    BY FS_Subset, FS_CardinalityType, SumInt
  <1>2. 0 \in Q
    <2>1. \A t \in SUBSET A : ~(Cardinality(t) < 0)
      BY <1>1
    <2> QED
      BY <2>1
  <1>3. ASSUME NEW n \in Nat, n \in Q PROVE n + 1 \in Q
    <2> SUFFICES ASSUME NEW t \in SUBSET A, Cardinality(t) < n + 1, NEW x \in A \ t
                 PROVE  SumFunctionOnSet(f, t \cup {x}) = f[x] + SumFunctionOnSet(f, t)
      OBVIOUS
    <2> DEFINE u == t \cup {x}
               p == Pick(u)
               r == t \ {p}
    <2>1. /\ u \in SUBSET A /\ u # {} /\ p \in u
      BY PickElement
    <2>2. SumFunctionOnSet(f, u) = f[p] + SumFunctionOnSet(f, u \ {p})
      BY <1>1, <2>1, SumStep
    <2>3. CASE p = x
      <3>1. u \ {p} = t
        BY <2>3
      <3> QED
        BY <2>2, <2>3, <3>1
    <2>4. CASE p # x
      <3>1. /\ p \in t /\ p \in A \ r /\ x \in A \ r /\ r \in SUBSET A
            /\ u \ {p} = r \cup {x} /\ t = r \cup {p}
        BY <2>1, <2>4
      <3>2. Cardinality(r) < n
        <4>1. IsFiniteSet(t) /\ Cardinality(t) \in Nat
          BY <1>1
        <4>2. Cardinality(r) = Cardinality(t) - 1
          <5>1. p \in t
            BY <3>1
          <5> HIDE DEF p, Q, Adds
          <5> QED
            BY <4>1, <5>1, FS_RemoveElement
        <4> HIDE DEF r, Q
        <4> QED
          BY <4>1, <4>2
      <3>3. Adds(r)
        BY <1>3, <3>1, <3>2
      <3>4. /\ SumFunctionOnSet(f, r \cup {x}) = f[x] + SumFunctionOnSet(f, r)
            /\ SumFunctionOnSet(f, r \cup {p}) = f[p] + SumFunctionOnSet(f, r)
        BY <3>1, <3>3
      <3>5. f[x] \in Int /\ f[p] \in Int /\ SumFunctionOnSet(f, r) \in Int
        BY <1>1, <3>1
      <3>6. /\ SumFunctionOnSet(f, u) = f[p] + (f[x] + SumFunctionOnSet(f, r))
            /\ SumFunctionOnSet(f, t) = f[p] + SumFunctionOnSet(f, r)
        BY <2>2, <3>1, <3>4
      <3> HIDE DEF r, p, u, Q, Adds
      <3>7. SumFunctionOnSet(f, u) = f[x] + SumFunctionOnSet(f, t)
        BY <3>5, <3>6
      <3> QED
        BY <3>7 DEF u
    <2> QED
      BY <2>3, <2>4
  <1>4. Nat \subseteq Q
    <2> HIDE DEF Q
    <2> QED
      BY <1>2, <1>3, NumberInduction
  <1>5. ASSUME NEW t \in SUBSET A PROVE Adds(t)
    <2>1. Cardinality(t) + 1 \in Q /\ Cardinality(t) < Cardinality(t) + 1
      BY <1>1, <1>4
    <2> QED
      BY <2>1
  <1> QED
    BY <1>5

(* One element more. *)
LEMMA SumAdd ==
  ASSUME NEW f, NEW I, NEW x, IsFiniteSet(I), x \notin I,
         f[x] \in Int, \A y \in I : f[y] \in Int
  PROVE  SumFunctionOnSet(f, I \cup {x}) = f[x] + SumFunctionOnSet(f, I)
  <1> DEFINE A == I \cup {x}
  <1>1. IsFiniteSet(A) /\ \A y \in A : f[y] \in Int
    BY FS_AddElement
  <1>2. I \in SUBSET A /\ x \in A \ I
    OBVIOUS
  <1> HIDE DEF A
  <1>3. SumFunctionOnSet(f, I \cup {x}) = f[x] + SumFunctionOnSet(f, I)
    BY <1>1, <1>2, SumAnyStep
  <1> QED
    BY <1>3

(* The sum over two sets that share nothing. *)
LEMMA SumUnion ==
  ASSUME NEW f, NEW I, NEW J, IsFiniteSet(I), IsFiniteSet(J), I \cap J = {},
         \A y \in I \cup J : f[y] \in Int
  PROVE  SumFunctionOnSet(f, I \cup J) = SumFunctionOnSet(f, I) + SumFunctionOnSet(f, J)
  <1> DEFINE P == {T \in SUBSET J :
               SumFunctionOnSet(f, I \cup T) = SumFunctionOnSet(f, I) + SumFunctionOnSet(f, T)}
  <1>1. SumFunctionOnSet(f, I) \in Int
    BY SumInt
  <1>2. {} \in P
    <2>1. SumFunctionOnSet(f, {}) = 0 /\ I \cup {} = I
      BY SumEmpty
    <2> QED
      BY <1>1, <2>1
  <1>3. ASSUME NEW T \in SUBSET J, NEW x \in J \ T, T \in P
        PROVE  T \cup {x} \in P
    <2>1. IsFiniteSet(T) /\ IsFiniteSet(I \cup T)
      BY FS_Subset, FS_Union
    <2>2. /\ x \notin I \cup T /\ f[x] \in Int /\ \A y \in I \cup T : f[y] \in Int
          /\ \A y \in T : f[y] \in Int
      OBVIOUS
    <2>3. SumFunctionOnSet(f, (I \cup T) \cup {x}) = f[x] + SumFunctionOnSet(f, I \cup T)
      BY <2>1, <2>2, SumAdd
    <2>4. SumFunctionOnSet(f, T \cup {x}) = f[x] + SumFunctionOnSet(f, T)
      BY <2>1, <2>2, SumAdd
    <2>5. SumFunctionOnSet(f, T) \in Int
      BY <2>1, <2>2, SumInt
    <2>6. SumFunctionOnSet(f, I \cup T) = SumFunctionOnSet(f, I) + SumFunctionOnSet(f, T)
      BY <1>3
    <2>7. (I \cup T) \cup {x} = I \cup (T \cup {x})
      OBVIOUS
    <2>8. SumFunctionOnSet(f, I \cup (T \cup {x}))
            = SumFunctionOnSet(f, I) + SumFunctionOnSet(f, T \cup {x})
      <3>1. f[x] \in Int
        OBVIOUS
      <3>2. SumFunctionOnSet(f, I \cup (T \cup {x})) = f[x] + SumFunctionOnSet(f, I \cup T)
        BY <2>3, <2>7
      <3> HIDE DEF P
      <3> QED
        BY <1>1, <2>4, <2>5, <2>6, <3>1, <3>2
    <2> QED
      BY <2>8
  <1> QED
    <2> HIDE DEF P
    <2>1. J \in P
      BY <1>2, <1>3, SubsetInduction
    <2> QED
      BY <2>1 DEF P

(* Quantities add up to a quantity. *)
LEMMA SumNat ==
  ASSUME NEW f, NEW I, IsFiniteSet(I), \A x \in I : f[x] \in Nat
  PROVE  SumFunctionOnSet(f, I) \in Nat
  <1> DEFINE P == {T \in SUBSET I : SumFunctionOnSet(f, T) \in Nat}
  <1>1. {} \in P
    BY SumEmpty
  <1>2. ASSUME NEW T \in SUBSET I, NEW x \in I \ T, T \in P
        PROVE  T \cup {x} \in P
    <2>1. IsFiniteSet(T)
      BY FS_Subset
    <2>2. x \notin T /\ f[x] \in Int /\ \A y \in T : f[y] \in Int
      OBVIOUS
    <2>3. SumFunctionOnSet(f, T \cup {x}) = f[x] + SumFunctionOnSet(f, T)
      <3> HIDE DEF P
      <3> QED
        BY <2>1, <2>2, SumAdd
    <2>4. f[x] \in Nat /\ SumFunctionOnSet(f, T) \in Nat
      BY <1>2
    <2> QED
      BY <2>3, <2>4
  <1> QED
    <2> HIDE DEF P
    <2>1. I \in P
      BY <1>1, <1>2, SubsetInduction
    <2> QED
      BY <2>1 DEF P

(* A sum of terms that are split in two. *)
LEMMA SumSplit ==
  ASSUME NEW f, NEW h, NEW k, NEW I, IsFiniteSet(I),
         \A x \in I : f[x] \in Int /\ h[x] \in Int /\ k[x] \in Int /\ k[x] = f[x] + h[x]
  PROVE  SumFunctionOnSet(k, I) = SumFunctionOnSet(f, I) + SumFunctionOnSet(h, I)
  <1> DEFINE P == {T \in SUBSET I :
               SumFunctionOnSet(k, T) = SumFunctionOnSet(f, T) + SumFunctionOnSet(h, T)}
  <1>1. {} \in P
    BY SumEmpty
  <1>2. ASSUME NEW T \in SUBSET I, NEW x \in I \ T, T \in P
        PROVE  T \cup {x} \in P
    <2>1. IsFiniteSet(T)
      BY FS_Subset
    <2>2. /\ SumFunctionOnSet(f, T \cup {x}) = f[x] + SumFunctionOnSet(f, T)
          /\ SumFunctionOnSet(h, T \cup {x}) = h[x] + SumFunctionOnSet(h, T)
          /\ SumFunctionOnSet(k, T \cup {x}) = k[x] + SumFunctionOnSet(k, T)
      BY <2>1, SumAdd
    <2>3. SumFunctionOnSet(f, T) \in Int /\ SumFunctionOnSet(h, T) \in Int
      BY <2>1, SumInt
    <2>4. /\ f[x] \in Int /\ h[x] \in Int /\ k[x] = f[x] + h[x]
          /\ SumFunctionOnSet(k, T) = SumFunctionOnSet(f, T) + SumFunctionOnSet(h, T)
      BY <1>2
    <2>5. SumFunctionOnSet(k, T \cup {x})
            = SumFunctionOnSet(f, T \cup {x}) + SumFunctionOnSet(h, T \cup {x})
      <3> HIDE DEF P
      <3> QED
        BY <2>2, <2>3, <2>4
    <2> QED
      BY <2>5
  <1> QED
    <2> HIDE DEF P
    <2>1. I \in P
      BY <1>1, <1>2, SubsetInduction
    <2> QED
      BY <2>1 DEF P

(* A sum in which all terms but one are zero. *)
LEMMA SumSingle ==
  ASSUME NEW f, NEW I, NEW x, IsFiniteSet(I), x \in I, f[x] \in Int,
         \A y \in I \ {x} : f[y] = 0
  PROVE  SumFunctionOnSet(f, I) = f[x]
  <1> DEFINE J == I \ {x}
             P == {T \in SUBSET J : SumFunctionOnSet(f, T) = 0}
  <1>1. {} \in P
    BY SumEmpty
  <1>2. IsFiniteSet(J)
    BY FS_RemoveElement
  <1>3. ASSUME NEW T \in SUBSET J, NEW y \in J \ T, T \in P
        PROVE  T \cup {y} \in P
    <2>1. IsFiniteSet(T)
      BY <1>2, FS_Subset
    <2>2. f[y] = 0 /\ \A z \in T : f[z] \in Int
      OBVIOUS
    <2>3. SumFunctionOnSet(f, T \cup {y}) = f[y] + SumFunctionOnSet(f, T)
      BY <2>1, <2>2, SumAdd
    <2> QED
      BY <1>3, <2>2, <2>3
  <1>4. SumFunctionOnSet(f, J) = 0
    <2> HIDE DEF P, J
    <2>1. J \in P
      BY <1>1, <1>2, <1>3, SubsetInduction
    <2> QED
      BY <2>1 DEF P
  <1>5. SumFunctionOnSet(f, I) = f[x] + SumFunctionOnSet(f, J)
    <2>1. J \cup {x} = I /\ x \notin J /\ \A y \in J : f[y] \in Int
      OBVIOUS
    <2> HIDE DEF J
    <2>2. SumFunctionOnSet(f, J \cup {x}) = f[x] + SumFunctionOnSet(f, J)
      BY <1>2, <2>1, SumAdd
    <2> QED
      BY <2>1, <2>2
  <1> QED
    BY <1>4, <1>5

(* Terms grouped by owner: the sum of the groups is the sum of all.        *)
Owned(I, owner, b) == {x \in I : owner[x] = b}

Groups(g, f, I, B, owner) ==
  \A b \in B : g[b] = SumFunctionOnSet(f, Owned(I, owner, b))

LEMMA SumGroups ==
  ASSUME NEW f, NEW I, NEW B, NEW owner, NEW g, IsFiniteSet(I), IsFiniteSet(B),
         \A x \in I : f[x] \in Int /\ owner[x] \in B,
         Groups(g, f, I, B, owner)
  PROVE  SumFunctionOnSet(g, B) = SumFunctionOnSet(f, I)
  <1> DEFINE Of(b, T) == {x \in T : owner[x] = b}
             Group(T) == [b \in B |-> SumFunctionOnSet(f, Of(b, T))]
             P == {T \in SUBSET I : SumFunctionOnSet(Group(T), B) = SumFunctionOnSet(f, T)}
  <1>1. ASSUME NEW T \in SUBSET I, NEW b \in B
        PROVE  /\ IsFiniteSet(T) /\ IsFiniteSet(Of(b, T))
               /\ \A x \in Of(b, T) : f[x] \in Int
               /\ Group(T)[b] = SumFunctionOnSet(f, Of(b, T)) /\ Group(T)[b] \in Int
    <2>1. IsFiniteSet(T)
      BY FS_Subset
    <2>2. IsFiniteSet(Of(b, T))
      BY <2>1, FS_Subset
    <2> QED
      BY <2>1, <2>2, SumInt
  <1>2. {} \in P
    <2>1. \A b \in B : Group({})[b] = 0
      <3>1. \A b \in B : Of(b, {}) = {}
        OBVIOUS
      <3> QED
        BY <3>1, SumEmpty
    <2> DEFINE Q == {T \in SUBSET B : SumFunctionOnSet(Group({}), T) = 0}
    <2>2. {} \in Q
      BY SumEmpty
    <2>3. ASSUME NEW T \in SUBSET B, NEW y \in B \ T, T \in Q
          PROVE  T \cup {y} \in Q
      <3>1. IsFiniteSet(T)
        BY FS_Subset
      <3>2. Group({})[y] = 0 /\ \A z \in T : Group({})[z] \in Int
        BY <2>1
      <3> HIDE DEF Group
      <3>3. SumFunctionOnSet(Group({}), T \cup {y}) = Group({})[y] + SumFunctionOnSet(Group({}), T)
        BY <3>1, <3>2, SumAdd
      <3> QED
        BY <2>3, <3>2, <3>3
    <2>4. B \in Q
      <3> HIDE DEF Q
      <3> QED
        BY <2>2, <2>3, SubsetInduction
    <2> QED
      BY <2>4, SumEmpty
  <1>3. ASSUME NEW T \in SUBSET I, NEW x \in I \ T, T \in P
        PROVE  T \cup {x} \in P
    <2> DEFINE U == T \cup {x}
               d == [b \in B |-> IF b = owner[x] THEN f[x] ELSE 0]
    <2>1. U \in SUBSET I /\ owner[x] \in B /\ f[x] \in Int /\ IsFiniteSet(T)
      BY FS_Subset
    <2>2. ASSUME NEW b \in B PROVE Group(U)[b] = Group(T)[b] + d[b]
      <3>1. CASE b = owner[x]
        <4>1. Of(b, U) = Of(b, T) \cup {x} /\ x \notin Of(b, T)
          BY <3>1
        <4>2. SumFunctionOnSet(f, Of(b, T) \cup {x}) = f[x] + SumFunctionOnSet(f, Of(b, T))
          BY <1>1, <2>1, <4>1, SumAdd
        <4>3. SumFunctionOnSet(f, Of(b, T)) \in Int
          BY <1>1
        <4>4. d[b] = f[x]
          BY <3>1
        <4>5. /\ Group(T)[b] = SumFunctionOnSet(f, Of(b, T))
              /\ Group(U)[b] = SumFunctionOnSet(f, Of(b, U))
          BY <1>1, <2>1
        <4> HIDE DEF Group, Of, d, U, P
        <4> QED
          BY <2>1, <4>1, <4>2, <4>3, <4>4, <4>5
      <3>2. CASE b # owner[x]
        <4>1. Of(b, U) = Of(b, T)
          BY <3>2
        <4>2. Group(T)[b] \in Int /\ d[b] = 0
          BY <1>1, <3>2
        <4>3. Group(U)[b] = Group(T)[b]
          BY <4>1
        <4> QED
          BY <4>2, <4>3
      <3> QED
        BY <3>1, <3>2
    <2>3. \A b \in B : d[b] \in Int /\ Group(T)[b] \in Int /\ Group(U)[b] \in Int
      <3>1. \A b \in B : d[b] \in Int
        BY <2>1
      <3>2. \A b \in B : Group(T)[b] \in Int /\ Group(U)[b] \in Int
        <4> HIDE DEF U, Group, P, d
        <4> QED
          BY <1>1, <2>1
      <3> QED
        BY <3>1, <3>2
    <2>4. d[owner[x]] = f[x] /\ \A b \in B \ {owner[x]} : d[b] = 0
      BY <2>1
    <2> HIDE DEF d, Group, P
    <2>5. SumFunctionOnSet(Group(U), B) = SumFunctionOnSet(Group(T), B) + SumFunctionOnSet(d, B)
      <3>1. \A b \in B : /\ Group(T)[b] \in Int /\ d[b] \in Int /\ Group(U)[b] \in Int
                         /\ Group(U)[b] = Group(T)[b] + d[b]
        BY <2>2, <2>3
      <3> DEFINE gt == Group(T)
                 gu == Group(U)
      <3>2. \A b \in B : /\ gt[b] \in Int /\ d[b] \in Int /\ gu[b] \in Int
                         /\ gu[b] = gt[b] + d[b]
        BY <3>1
      <3> HIDE DEF gt, gu
      <3>3. SumFunctionOnSet(gu, B) = SumFunctionOnSet(gt, B) + SumFunctionOnSet(d, B)
        BY <3>2, SumSplit
      <3> QED
        BY <3>3 DEF gt, gu
    <2>6. SumFunctionOnSet(d, B) = f[x]
      BY <2>1, <2>3, <2>4, SumSingle
    <2>7. SumFunctionOnSet(f, U) = f[x] + SumFunctionOnSet(f, T)
      BY <2>1, SumAdd
    <2>8. SumFunctionOnSet(f, T) \in Int
      BY <2>1, SumInt
    <2>9. SumFunctionOnSet(Group(T), B) = SumFunctionOnSet(f, T)
      BY <1>3 DEF P
    <2>10. SumFunctionOnSet(Group(U), B) = SumFunctionOnSet(f, U)
      BY <2>1, <2>5, <2>6, <2>7, <2>8, <2>9
    <2> QED
      BY <2>1, <2>10 DEF P
  <1>4. I \in P
    <2> HIDE DEF P
    <2> QED
      BY <1>2, <1>3, SubsetInduction
  <1>5. SumFunctionOnSet(g, B) = SumFunctionOnSet(Group(I), B)
    <2>1. \A b \in B : Owned(I, owner, b) = Of(b, I)
      BY DEF Owned
    <2>2. \A b \in B : g[b] = Group(I)[b]
      BY <2>1 DEF Groups
    <2> DEFINE k == Group(I)
    <2>3. \A b \in B : g[b] = k[b]
      BY <2>2
    <2> HIDE DEF k
    <2>4. SumFunctionOnSet(g, B) = SumFunctionOnSet(k, B)
      BY <2>3, SumCongruence
    <2> QED
      BY <2>4 DEF k
  <1> QED
    BY <1>4, <1>5

(* A one-to-one labelling of the places of I by the members of J. *)
Labels(label, I, J) ==
  /\ \A x, y \in I : label[x] = label[y] => x = y
  /\ \A y : y \in J <=> \E x \in I : y = label[x]

(* Terms renumbered: a sum over the places of a one-to-one labelling is    *)
(* the sum over its labels.                                                *)
LEMMA SumRenumbered ==
  ASSUME NEW f, NEW I, NEW h, NEW label, NEW J,
         IsFiniteSet(I), Labels(label, I, J),
         \A x \in I : f[x] \in Int /\ h[label[x]] = f[x]
  PROVE  /\ IsFiniteSet(J)
         /\ SumFunctionOnSet(h, J) = SumFunctionOnSet(f, I)
  <1> DEFINE L(T) == {label[x] : x \in T}
             P == {T \in SUBSET I : IsFiniteSet(L(T)) /\
                                    SumFunctionOnSet(h, L(T)) = SumFunctionOnSet(f, T)}
  <1>1. {} \in P
    <2>1. L({}) = {}
      OBVIOUS
    <2> QED
      BY <2>1, SumEmpty, FS_EmptySet
  <1>2. ASSUME NEW T \in SUBSET I, NEW x \in I \ T, T \in P
        PROVE  T \cup {x} \in P
    <2>1. IsFiniteSet(T)
      BY FS_Subset
    <2>2. /\ L(T \cup {x}) = L(T) \cup {label[x]} /\ label[x] \notin L(T)
          /\ h[label[x]] = f[x] /\ f[x] \in Int
          /\ \A y \in L(T) : h[y] \in Int
      BY DEF Labels
    <2>3. IsFiniteSet(L(T)) /\ SumFunctionOnSet(h, L(T)) = SumFunctionOnSet(f, T)
      BY <1>2
    <2>4. SumFunctionOnSet(f, T \cup {x}) = f[x] + SumFunctionOnSet(f, T)
      BY <2>1, SumAdd
    <2> HIDE DEF L, P
    <2>5. SumFunctionOnSet(h, L(T) \cup {label[x]}) = h[label[x]] + SumFunctionOnSet(h, L(T))
      BY <2>2, <2>3, SumAdd
    <2>6. IsFiniteSet(L(T) \cup {label[x]})
      BY <2>3, FS_AddElement
    <2> QED
      BY <2>2, <2>3, <2>4, <2>5, <2>6 DEF P
  <1>3. I \in P
    <2> HIDE DEF P
    <2> QED
      BY <1>1, <1>2, SubsetInduction
  <1>4. J = L(I)
    BY DEF Labels
  <1> QED
    BY <1>3, <1>4

-----------------------------------------------------------------------------
(* Folds over a sequence.  FoldLeft is defined by a recursion that takes   *)
(* the last place out of the set of places; Folded says that g is this     *)
(* recursion for a step op, a function of the value so far and the place.     *)
Top(s) == Max(s)

Folded(g, op, base, D) ==
  g = [s \in D |-> IF s = {} THEN base ELSE op[<<g[s \ {Top(s)}], Top(s)>>]]

LEMMA TopOfSome ==
  ASSUME NEW n \in Nat, NEW s \in SUBSET (1 .. n), s # {}
  PROVE  Top(s) \in s /\ \A y \in s : Top(s) >= y
  <1> DEFINE T == {n - x : x \in s}
  <1>1. T \subseteq Nat /\ T # {}
    <2>1. \A x \in s : n - x \in Nat
      OBVIOUS
    <2> QED
      BY <2>1
  <1>2. PICK t \in T : \A y \in T : t <= y
    BY <1>1, NatMinimum
  <1>3. PICK x \in s : t = n - x
    BY <1>2
  <1>4. \A y \in s : n - x <= n - y
    BY <1>2, <1>3
  <1>5. \A y \in s : x >= y
    BY <1>3, <1>4
  <1> QED
    BY <1>3, <1>5 DEF Top, Max

LEMMA TopOfAll ==
  ASSUME NEW n \in Nat
  PROVE  /\ Top(1 .. n + 1) = n + 1
         /\ (1 .. n + 1) \ {Top(1 .. n + 1)} = 1 .. n
         /\ 1 .. n + 1 # {}
  <1>1. n + 1 \in 1 .. n + 1
    OBVIOUS
  <1>2. Top(1 .. n + 1) \in 1 .. n + 1 /\ \A y \in 1 .. n + 1 : Top(1 .. n + 1) >= y
    <2> DEFINE s == 1 .. n + 1
    <2>1. n + 1 \in Nat /\ s \in SUBSET (1 .. n + 1) /\ s # {}
      BY <1>1
    <2> HIDE DEF s
    <2>2. Top(s) \in s /\ \A y \in s : Top(s) >= y
      BY <2>1, TopOfSome
    <2> QED
      BY <2>2 DEF s
  <1>3. Top(1 .. n + 1) = n + 1
    BY <1>1, <1>2
  <1>4. (1 .. n + 1) \ {n + 1} = 1 .. n
    OBVIOUS
  <1> QED
    BY <1>1, <1>3, <1>4

(* The recursion of a fold defines a function, whose values are among      *)
(* those the op goes through.                                            *)
LEMMA FoldExists ==
  ASSUME NEW X, NEW base \in X, NEW n \in Nat, NEW op \in [X \X (1 .. n) -> X]
  PROVE  \E g \in [SUBSET (1 .. n) -> X] : Folded(g, op, base, SUBSET (1 .. n))
  <1> DEFINE I == 1 .. n
             D(k) == SmallSubsets(I, k)
             Q == {k \in Nat : \E g \in [D(k) -> X] : Folded(g, op, base, D(k))}
  <1>0. IsFiniteSet(I) /\ Cardinality(I) = n
    BY FS_Interval
  <1> HIDE DEF I
  <1>1. 0 \in Q
    <2>1. D(0) = {{}}
      <3>1. ASSUME NEW s \in SUBSET I, Cardinality(s) <= 0 PROVE s = {}
        BY <1>0, <3>1, FS_Subset, FS_EmptySet, FS_CardinalityType
      <3> QED
        BY <3>1, FS_EmptySet DEF SmallSubsets
    <2>2. Folded([s \in {{}} |-> base], op, base, {{}})
      BY DEF Folded
    <2>3. [s \in {{}} |-> base] \in [{{}} -> X]
      OBVIOUS
    <2> QED
      BY <2>1, <2>2, <2>3
  <1>2. ASSUME NEW k \in Nat, k \in Q PROVE k + 1 \in Q
    <2>1. PICK g \in [D(k) -> X] : Folded(g, op, base, D(k))
      BY <1>2
    <2> DEFINE h == [s \in D(k + 1) |->
                       IF s = {} THEN base ELSE op[<<g[s \ {Top(s)}], Top(s)>>]]
    <2>2. ASSUME NEW s \in D(k) PROVE s \in D(k + 1) /\ h[s] = g[s]
      <3>1. s \in D(k + 1)
        BY <1>0, FS_Subset, FS_CardinalityType DEF SmallSubsets
      <3> QED
        BY <2>1, <3>1 DEF Folded
    <2>3. ASSUME NEW s \in D(k + 1), s # {}
          PROVE  s \ {Top(s)} \in D(k) /\ Top(s) \in I
      <3>1. IsFiniteSet(s) /\ s \subseteq I /\ Cardinality(s) <= k + 1
        BY <1>0, FS_Subset DEF SmallSubsets
      <3>2. Cardinality(s) \in Nat
        BY <3>1, FS_CardinalityType
      <3>3. Top(s) \in s
        BY <2>3, <3>1, TopOfSome DEF I
      <3>4. Cardinality(s \ {Top(s)}) = Cardinality(s) - 1
        BY <3>1, <3>3, FS_RemoveElement
      <3> QED
        BY <3>1, <3>2, <3>3, <3>4 DEF SmallSubsets
    <2>4. h \in [D(k + 1) -> X]
      <3>1. ASSUME NEW s \in D(k + 1), s # {}
            PROVE  op[<<g[s \ {Top(s)}], Top(s)>>] \in X
        <4>1. g[s \ {Top(s)}] \in X /\ Top(s) \in I
          BY <2>3, <3>1
        <4> QED
          BY <4>1 DEF I
      <3> QED
        BY <3>1
    <2>5. Folded(h, op, base, D(k + 1))
      <3>1. \A s \in D(k + 1) : s # {} => h[s \ {Top(s)}] = g[s \ {Top(s)}]
        BY <2>2, <2>3
      <3> QED
        BY <3>1 DEF Folded
    <2> HIDE DEF h
    <2> QED
      BY <2>4, <2>5
  <1>3. Nat \subseteq Q
    <2> HIDE DEF Q
    <2> QED
      BY <1>1, <1>2, NumberInduction
  <1>4. D(n) = SUBSET I
    <2>1. \A s \in SUBSET I : Cardinality(s) <= n
      BY <1>0, FS_Subset
    <2> QED
      BY <2>1 DEF SmallSubsets
  <1>5. n \in Q
    BY <1>3
  <1> QED
    BY <1>4, <1>5 DEF I

(* The values of a fold along the sequence.  Of g it is enough to know     *)
(* that it follows the op wherever it is among the values of the fold.   *)
Follows(g, op, base, X, n) ==
  /\ g[{}] = base
  /\ \A s \in SUBSET (1 .. n) :
       s # {} /\ g[s \ {Top(s)}] \in X => g[s] = op[<<g[s \ {Top(s)}], Top(s)>>]

Trace(w, op, base, X, n) ==
  /\ w \in [0 .. n -> X]
  /\ w[0] = base
  /\ \A k \in 0 .. n - 1 : w[k + 1] = op[<<w[k], k + 1>>]

TracedTo(v, op, base, X, n) == \E w : Trace(w, op, base, X, n) /\ w[n] = v

LEMMA FoldTrace ==
  ASSUME NEW X, NEW base \in X, NEW n \in Nat, NEW op \in [X \X (1 .. n) -> X],
         NEW g, Follows(g, op, base, X, n)
  PROVE  TracedTo(g[1 .. n], op, base, X, n)
  <1> DEFINE w == [k \in 0 .. n |-> g[1 .. k]]
  <1>0. g[1 .. 0] = base
    <2>1. 1 .. 0 = {}
      OBVIOUS
    <2> QED
      BY <2>1 DEF Follows
  <1>1. ASSUME NEW k \in 0 .. n - 1, g[1 .. k] \in X
        PROVE  g[1 .. k + 1] = op[<<g[1 .. k], k + 1>>]
    <2>1. k \in Nat /\ 1 .. k + 1 \in SUBSET (1 .. n)
      OBVIOUS
    <2>2. /\ 1 .. k + 1 # {} /\ Top(1 .. k + 1) = k + 1
          /\ (1 .. k + 1) \ {Top(1 .. k + 1)} = 1 .. k
      BY <2>1, TopOfAll, Zenon
    <2> DEFINE s == 1 .. k + 1
    <2> HIDE DEF s
    <2>3. ASSUME s \in SUBSET (1 .. n), s # {}, g[s \ {Top(s)}] \in X
          PROVE  g[s] = op[<<g[s \ {Top(s)}], Top(s)>>]
      BY <2>3 DEF Follows
    <2>4. g[s] = op[<<g[s \ {Top(s)}], Top(s)>>]
      BY <1>1, <2>1, <2>2, <2>3, Zenon DEF s
    <2> QED
      BY <2>2, <2>4, Zenon DEF s
  <1> DEFINE Q == {k \in Nat : k <= n => g[1 .. k] \in X}
  <1>2. 0 \in Q
    BY <1>0
  <1>3. ASSUME NEW k \in Nat, k \in Q PROVE k + 1 \in Q
    <2> SUFFICES ASSUME k + 1 <= n PROVE g[1 .. k + 1] \in X
      OBVIOUS
    <2>1. k \in 0 .. n - 1 /\ g[1 .. k] \in X /\ k + 1 \in 1 .. n
      BY <1>3
    <2> QED
      BY <1>1, <2>1
  <1>4. Nat \subseteq Q
    <2> HIDE DEF Q
    <2> QED
      BY <1>2, <1>3, NumberInduction
  <1>5. \A k \in 0 .. n : g[1 .. k] \in X
    BY <1>4
  <1>6. w \in [0 .. n -> X] /\ w[0] = base /\ w[n] = g[1 .. n]
    BY <1>0, <1>5
  <1>7. ASSUME NEW k \in 0 .. n - 1 PROVE w[k + 1] = op[<<w[k], k + 1>>]
    <2>1. k \in 0 .. n /\ k + 1 \in 0 .. n
      OBVIOUS
    <2> QED
      BY <1>1, <1>5, <2>1
  <1> HIDE DEF w
  <1> QED
    BY <1>6, <1>7 DEF Trace, TracedTo

(* More of what counts sums up to more. *)
LEMMA SumLarger ==
  ASSUME NEW f, NEW I, NEW J, IsFiniteSet(J), I \subseteq J, \A x \in J : f[x] \in Nat
  PROVE  /\ SumFunctionOnSet(f, I) \in Nat /\ SumFunctionOnSet(f, J) \in Nat
         /\ SumFunctionOnSet(f, I) <= SumFunctionOnSet(f, J)
  <1> DEFINE rest == J \ I
  <1>1. IsFiniteSet(I) /\ IsFiniteSet(rest) /\ I \cap rest = {} /\ I \cup rest = J
    BY FS_Subset
  <1>2. \A x \in I \cup rest : f[x] \in Int
    BY <1>1
  <1>3. /\ SumFunctionOnSet(f, I) \in Nat /\ SumFunctionOnSet(f, rest) \in Nat
        /\ SumFunctionOnSet(f, J) \in Nat
    BY <1>1, SumNat
  <1> HIDE DEF rest
  <1>4. SumFunctionOnSet(f, I \cup rest) = SumFunctionOnSet(f, I) + SumFunctionOnSet(f, rest)
    BY <1>1, <1>2, SumUnion
  <1>5. SumFunctionOnSet(f, J) = SumFunctionOnSet(f, I) + SumFunctionOnSet(f, rest)
    BY <1>1, <1>4, Zenon
  <1> QED
    BY <1>3, <1>5

(* One term is no more than the sum. *)
LEMMA SumCoversTerm ==
  ASSUME NEW f, NEW J, IsFiniteSet(J), NEW x \in J, \A y \in J : f[y] \in Nat
  PROVE  f[x] <= SumFunctionOnSet(f, J)
  <1> DEFINE I == {x}
  <1>1. IsFiniteSet(I)
    BY FS_Singleton, Zenon
  <1>2. I \subseteq J /\ x \in I /\ f[x] \in Int /\ \A y \in I \ {x} : f[y] = 0
    OBVIOUS
  <1> HIDE DEF I
  <1>3. SumFunctionOnSet(f, I) = f[x]
    BY <1>1, <1>2, SumSingle
  <1>4. SumFunctionOnSet(f, I) <= SumFunctionOnSet(f, J)
    BY <1>2, SumLarger
  <1> QED
    BY <1>3, <1>4

(* As many equal terms. *)
LEMMA SumConstant ==
  ASSUME NEW c \in Int, NEW I, IsFiniteSet(I)
  PROVE  SumFunctionOnSet([x \in I |-> c], I) = c * Cardinality(I)
  <1> DEFINE f == [x \in I |-> c]
             P == {T \in SUBSET I : SumFunctionOnSet(f, T) = c * Cardinality(T)}
  <1>1. \A x \in I : f[x] = c
    OBVIOUS
  <1> HIDE DEF f
  <1>2. {} \in P
    <2>1. SumFunctionOnSet(f, {}) = 0 /\ Cardinality({}) = 0
      BY SumEmpty, FS_EmptySet
    <2>2. {} \in SUBSET I /\ c * 0 = 0
      OBVIOUS
    <2> QED
      BY <2>1, <2>2
  <1>3. ASSUME NEW T \in SUBSET I, NEW x \in I \ T, T \in P PROVE T \cup {x} \in P
    <2>1. IsFiniteSet(T) /\ Cardinality(T) \in Nat
      BY FS_Subset, FS_CardinalityType
    <2>2. Cardinality(T \cup {x}) = Cardinality(T) + 1
      BY <2>1, FS_AddElement
    <2>3. f[x] \in Int /\ \A y \in T : f[y] \in Int
      BY <1>1
    <2>4. SumFunctionOnSet(f, T \cup {x}) = f[x] + SumFunctionOnSet(f, T)
      BY <2>1, <2>3, SumAdd
    <2>5. f[x] = c /\ SumFunctionOnSet(f, T) = c * Cardinality(T)
      BY <1>1, <1>3
    <2> DEFINE n == Cardinality(T)
    <2>6. n \in Nat /\ c * (n + 1) = c + c * n
      BY <2>1
    <2> HIDE DEF n
    <2>7. SumFunctionOnSet(f, T \cup {x}) = c * Cardinality(T \cup {x})
      BY <2>2, <2>4, <2>5, <2>6 DEF n
    <2> QED
      BY <2>7
  <1> HIDE DEF P
  <1>4. \A T \in SUBSET I : \A x \in I \ T : T \in P => T \cup {x} \in P
    BY <1>3
  <1>5. I \in P
    BY <1>2, <1>4, SubsetInduction
  <1> QED
    BY <1>5 DEF P, f

(* As many labels as places. *)
LEMMA LabelledFinite ==
  ASSUME NEW label, NEW I, NEW J, IsFiniteSet(I), Labels(label, I, J)
  PROVE  IsFiniteSet(J)
  <1> DEFINE f == [i \in I |-> 0]
             h == [x \in J |-> 0]
  <1>1. \A i \in I : f[i] \in Int /\ h[label[i]] = f[i]
    BY DEF Labels
  <1> HIDE DEF f, h
  <1> QED
    BY <1>1, SumRenumbered

(* Among finitely many places some have the greatest and some the least    *)
(* value.                                                                  *)
LEMMA GreatestOf ==
  ASSUME NEW s, NEW S, IsFiniteSet(S), S # {}, \A i \in S : s[i] \in Int
  PROVE  \E m \in S : \A i \in S : s[i] <= s[m]
  <1> DEFINE P == {T \in SUBSET S : T = {} \/ \E m \in T : \A i \in T : s[i] <= s[m]}
  <1>1. {} \in P
    OBVIOUS
  <1>2. ASSUME NEW T \in SUBSET S, NEW x \in S \ T, T \in P
        PROVE  T \cup {x} \in P
    <2>1. CASE T = {}
      BY <2>1
    <2>2. CASE \E m \in T : \A i \in T : s[i] <= s[m]
      <3>1. PICK m \in T : \A i \in T : s[i] <= s[m]
        BY <2>2
      <3>2. CASE s[x] <= s[m]
        BY <3>1, <3>2
      <3>3. CASE s[m] <= s[x]
        <4>1. \A i \in T \cup {x} : s[i] <= s[x]
          BY <3>1, <3>3
        <4> QED
          BY <4>1
      <3> QED
        BY <3>2, <3>3
    <2> QED
      BY <1>2, <2>1, <2>2
  <1> HIDE DEF P
  <1>3. S \in P
    BY <1>1, <1>2, SubsetInduction
  <1> QED
    BY <1>3 DEF P

LEMMA LeastOf ==
  ASSUME NEW s, NEW S, IsFiniteSet(S), S # {}, \A i \in S : s[i] \in Int
  PROVE  \E m \in S : \A i \in S : s[m] <= s[i]
  <1> DEFINE t == [i \in S |-> -s[i]]
  <1>1. \A i \in S : t[i] \in Int /\ t[i] = -s[i]
    OBVIOUS
  <1> HIDE DEF t
  <1>2. PICK m \in S : \A i \in S : t[i] <= t[m]
    BY <1>1, GreatestOf
  <1> QED
    BY <1>1, <1>2

(* Values in their order: r is s sorted when at each place k of r stands   *)
(* a value of s with fewer than k smaller ones, and at least k up to it.   *)
Less(s, v) == {i \in DOMAIN s : s[i] < v}
UpTo(s, v) == {i \in DOMAIN s : s[i] <= v}
Ranks(s, k, v) == v \in Range(s) /\ Cardinality(Less(s, v)) < k /\ Cardinality(UpTo(s, v)) >= k
Ranked(r, s) == DOMAIN r = DOMAIN s /\ \A k \in DOMAIN s : Ranks(s, k, r[k])

LEMMA RankExists ==
  ASSUME NEW s, NEW n \in Nat, DOMAIN s = 1 .. n, \A i \in 1 .. n : s[i] \in Int, NEW k \in 1 .. n
  PROVE  \E v : Ranks(s, k, v)
  <1> DEFINE good == {i \in 1 .. n : Cardinality(UpTo(s, s[i])) >= k}
  <1>1. IsFiniteSet(1 .. n) /\ Cardinality(1 .. n) = n
    BY FS_Interval
  <1>2. ASSUME NEW v
        PROVE  /\ Less(s, v) \subseteq 1 .. n /\ UpTo(s, v) \subseteq 1 .. n
               /\ IsFiniteSet(Less(s, v)) /\ IsFiniteSet(UpTo(s, v))
               /\ Cardinality(Less(s, v)) \in Nat /\ Cardinality(UpTo(s, v)) \in Nat
    <2>1. Less(s, v) \subseteq 1 .. n /\ UpTo(s, v) \subseteq 1 .. n
      BY DEF Less, UpTo
    <2> QED
      BY <1>1, <2>1, FS_Subset, FS_CardinalityType
  <1>3. good # {}
    <2>1. PICK m \in 1 .. n : \A i \in 1 .. n : s[i] <= s[m]
      BY <1>1, GreatestOf
    <2>2. UpTo(s, s[m]) = 1 .. n
      BY <2>1 DEF UpTo
    <2> QED
      BY <1>1, <2>2
  <1>4. IsFiniteSet(good) /\ good \subseteq 1 .. n
    BY <1>1, FS_Subset
  <1>5. PICK m \in good : \A i \in good : s[m] <= s[i]
    <2> HIDE DEF good
    <2> QED
      BY <1>3, <1>4, LeastOf
  <1>6. Cardinality(Less(s, s[m])) < k
    <2> SUFFICES ASSUME ~(Cardinality(Less(s, s[m])) < k) PROVE FALSE
      OBVIOUS
    <2> DEFINE S == Less(s, s[m])
    <2>0. \A i \in S : i \in 1 .. n /\ s[i] < s[m]
      BY DEF Less
    <2>9. IsFiniteSet(S) /\ Cardinality(S) \in Nat
      BY <1>2
    <2> HIDE DEF S
    <2>1. Cardinality(S) >= k
      BY <2>9 DEF S
    <2>2. S # {}
      BY <2>1, <2>9, FS_EmptySet
    <2>3. PICK j \in S : \A i \in S : s[i] <= s[j]
      BY <2>0, <2>2, <2>9, GreatestOf
    <2> DEFINE U == UpTo(s, s[j])
    <2>4. S \subseteq U
      BY <2>0, <2>3 DEF UpTo
    <2>5. IsFiniteSet(U) /\ Cardinality(U) \in Nat
      BY <1>2
    <2> HIDE DEF U
    <2>6. Cardinality(U) >= k
      BY <2>1, <2>4, <2>5, <2>9, FS_Subset
    <2>7. j \in good
      BY <2>0, <2>6 DEF U
    <2>8. s[m] <= s[j] /\ s[j] < s[m] /\ s[j] \in Int /\ s[m] \in Int
      BY <1>4, <1>5, <2>0, <2>7
    <2> QED
      BY <2>8
  <1>7. s[m] \in Range(s) /\ Cardinality(UpTo(s, s[m])) >= k
    BY DEF Range
  <1> QED
    BY <1>6, <1>7 DEF Ranks

LEMMA RankedOrder ==
  ASSUME NEW s, NEW n \in Nat, DOMAIN s = 1 .. n, \A i \in 1 .. n : s[i] \in Int, NEW r, Ranked(r, s)
  PROVE  /\ \A k \in 1 .. n : r[k] \in Int
         /\ \A j, k \in 1 .. n : j <= k => r[j] <= r[k]
         /\ \A i \in 1 .. n : r[1] <= s[i] /\ s[i] <= r[n]
  <1>1. IsFiniteSet(1 .. n) /\ Cardinality(1 .. n) = n
    BY FS_Interval
  <1>2. ASSUME NEW v
        PROVE  /\ IsFiniteSet(Less(s, v)) /\ IsFiniteSet(UpTo(s, v))
               /\ Cardinality(Less(s, v)) \in Nat /\ Cardinality(UpTo(s, v)) \in Nat
    <2>1. Less(s, v) \subseteq 1 .. n /\ UpTo(s, v) \subseteq 1 .. n
      BY DEF Less, UpTo
    <2> QED
      BY <1>1, <2>1, FS_Subset, FS_CardinalityType
  <1>3. ASSUME NEW k \in 1 .. n
        PROVE  /\ r[k] \in Int /\ Cardinality(Less(s, r[k])) < k
               /\ Cardinality(UpTo(s, r[k])) >= k
    BY DEF Ranked, Ranks, Range
  <1>4. ASSUME NEW j \in 1 .. n, NEW k \in 1 .. n, j <= k PROVE r[j] <= r[k]
    <2> SUFFICES ASSUME r[k] < r[j] PROVE FALSE
      BY <1>3
    <2> DEFINE S == Less(s, r[j])
               U == UpTo(s, r[k])
    <2>0. r[j] \in Int /\ r[k] \in Int
      BY <1>3
    <2>1. U \subseteq S
      BY <2>0 DEF UpTo, Less
    <2>2. /\ IsFiniteSet(S) /\ Cardinality(S) \in Nat /\ Cardinality(U) \in Nat
          /\ Cardinality(S) < j /\ Cardinality(U) >= k
      BY <1>2, <1>3
    <2> HIDE DEF S, U
    <2>3. Cardinality(U) <= Cardinality(S)
      BY <2>1, <2>2, FS_Subset
    <2> QED
      BY <1>4, <2>2, <2>3
  <1>5. ASSUME NEW i \in 1 .. n PROVE r[1] <= s[i]
    <2> DEFINE S == Less(s, r[1])
    <2>1. 1 \in 1 .. n
      OBVIOUS
    <2>2. IsFiniteSet(S) /\ Cardinality(S) \in Nat /\ Cardinality(S) < 1 /\ r[1] \in Int
      BY <1>2, <1>3, <2>1
    <2> HIDE DEF S
    <2>3. S = {}
      BY <2>2, FS_EmptySet
    <2>4. ~(s[i] < r[1])
      BY <2>3 DEF S, Less
    <2> QED
      BY <2>2, <2>4
  <1>6. ASSUME NEW i \in 1 .. n PROVE s[i] <= r[n]
    <2> DEFINE U == UpTo(s, r[n])
    <2>1. n \in 1 .. n
      OBVIOUS
    <2>2. U \subseteq 1 .. n /\ Cardinality(U) \in Nat /\ Cardinality(U) >= n
      BY <1>2, <1>3, <2>1 DEF UpTo
    <2> HIDE DEF U
    <2>4. Cardinality(U) = n
      <3>1. Cardinality(U) <= Cardinality(1 .. n)
        BY <1>1, <2>2, FS_Subset
      <3> QED
        BY <1>1, <2>2, <3>1
    <2>3. U = 1 .. n
      BY <1>1, <2>2, <2>4, FS_Subset
    <2> QED
      BY <2>3 DEF U, UpTo
  <1> QED
    BY <1>3, <1>4, <1>5, <1>6

(* Sorting moves the values about: their sum stays.                        *)
LEMMA RankedSum ==
  ASSUME NEW s, NEW n \in Nat, DOMAIN s = 1 .. n, \A i \in 1 .. n : s[i] \in Int,
         NEW r, Ranked(r, s)
  PROVE  SumFunctionOnSet(r, 1 .. n) = SumFunctionOnSet(s, 1 .. n)
  <1> DEFINE V == {s[i] : i \in 1 .. n}
             of(f, v) == {i \in 1 .. n : f[i] = v}
             g == [v \in V |-> v * Cardinality(of(s, v))]
  <1>1. IsFiniteSet(1 .. n) /\ Cardinality(1 .. n) = n
    BY FS_Interval
  <1>2. IsFiniteSet(V)
    <2> DEFINE P == {T \in SUBSET (1 .. n) : IsFiniteSet({s[i] : i \in T})}
    <2>1. {} \in P
      <3>1. {s[i] : i \in {}} = {}
        OBVIOUS
      <3> QED
        BY <3>1, FS_EmptySet
    <2>2. ASSUME NEW T \in SUBSET (1 .. n), NEW x \in (1 .. n) \ T, T \in P
          PROVE  T \cup {x} \in P
      <3>1. {s[i] : i \in T \cup {x}} = {s[i] : i \in T} \cup {s[x]}
        OBVIOUS
      <3>2. IsFiniteSet({s[i] : i \in T} \cup {s[x]})
        BY <2>2, FS_AddElement
      <3> QED
        BY <3>1, <3>2
    <2> HIDE DEF P
    <2>3. (1 .. n) \in P
      BY <1>1, <2>1, <2>2, SubsetInduction
    <2> QED
      BY <2>3 DEF P
  <1>3. \A k \in 1 .. n : r[k] \in V /\ r[k] \in Int /\ s[k] \in V
    BY DEF Ranked, Ranks, Range
  <1>4. ASSUME NEW v \in V PROVE Cardinality(of(r, v)) = Cardinality(of(s, v))
    <2> DEFINE L == Less(s, v)
               U == UpTo(s, v)
               E == of(s, v)
               l == Cardinality(L)
               u == Cardinality(U)
               e == Cardinality(E)
    <2>1. v \in Int /\ L \subseteq 1 .. n /\ U \subseteq 1 .. n /\ E \subseteq 1 .. n
      BY DEF Less, UpTo
    <2>2. IsFiniteSet(L) /\ IsFiniteSet(U) /\ IsFiniteSet(E) /\ l \in Nat /\ u \in Nat /\ e \in Nat
      BY <1>1, <2>1, FS_Subset, FS_CardinalityType
    <2>3. L \cup E = U /\ L \cap E = {}
      BY <2>1 DEF Less, UpTo
    <2> HIDE DEF L, U, E
    <2>4. u = l + e
      <3>1. Cardinality(L \cup E) = Cardinality(L) + Cardinality(E) - Cardinality(L \cap E)
        BY <2>2, FS_Union
      <3>2. Cardinality(L \cap E) = 0
        BY <2>3, FS_EmptySet
      <3>3. Cardinality(U) = l + e - 0
        BY <2>3, <3>1, <3>2, Zenon
      <3> QED
        BY <2>2, <3>3
    <2>5. u <= n
      BY <1>1, <2>1, FS_Subset
    <2>6. of(r, v) = l + 1 .. u
      <3>1. ASSUME NEW k \in 1 .. n, r[k] = v PROVE k \in l + 1 .. u
        <4>1. l < k /\ u >= k
          BY <3>1 DEF Ranked, Ranks, L, U
        <4> QED
          BY <2>2, <4>1
      <3>2. ASSUME NEW k \in l + 1 .. u PROVE k \in 1 .. n /\ r[k] = v
        <4>1. k \in 1 .. n
          BY <2>2, <2>5
        <4> DEFINE w == r[k]
                   M == Less(s, w)
                   X == UpTo(s, w)
        <4>2. w \in Int /\ Cardinality(M) < k /\ Cardinality(X) >= k
          BY <1>3, <4>1 DEF Ranked, Ranks
        <4>3. M \subseteq 1 .. n /\ X \subseteq 1 .. n
          BY DEF Less, UpTo
        <4>4. w < v => X \subseteq L
          BY <2>1, <4>2 DEF L, Less, UpTo
        <4>5. v < w => U \subseteq M
          BY <2>1, <4>2 DEF U, Less, UpTo
        <4> HIDE DEF w, M, X
        <4>6. IsFiniteSet(M) /\ Cardinality(M) \in Nat /\ Cardinality(X) \in Nat
          BY <1>1, <4>3, FS_Subset, FS_CardinalityType
        <4>7. ~(w < v)
          <5> SUFFICES ASSUME w < v PROVE FALSE
            OBVIOUS
          <5>1. Cardinality(X) <= l
            BY <2>2, <4>4, FS_Subset
          <5> QED
            BY <2>2, <4>2, <4>6, <5>1
        <4>8. ~(v < w)
          <5> SUFFICES ASSUME v < w PROVE FALSE
            OBVIOUS
          <5>1. u <= Cardinality(M)
            BY <4>5, <4>6, FS_Subset
          <5> QED
            BY <2>2, <4>2, <4>6, <5>1
        <4>9. w = v
          BY <2>1, <4>2, <4>7, <4>8
        <4> QED
          BY <4>1, <4>9 DEF w
      <3> HIDE DEF l, u
      <3> QED
        BY <3>1, <3>2
    <2>7. Cardinality(l + 1 .. u) = e
      <3> HIDE DEF l, u, e
      <3>1. l + 1 \in Int /\ u \in Int
        BY <2>2
      <3>2. Cardinality(l + 1 .. u) = IF l + 1 > u THEN 0 ELSE u - (l + 1) + 1
        BY <3>1, FS_Interval
      <3> QED
        BY <2>2, <2>4, <3>2
    <2> QED
      BY <2>6, <2>7 DEF E
  <1>5. ASSUME NEW f, \A i \in 1 .. n : f[i] \in Int /\ f[i] \in V,
               \A v \in V : Cardinality(of(f, v)) = Cardinality(of(s, v))
        PROVE  SumFunctionOnSet(g, V) = SumFunctionOnSet(f, 1 .. n)
    <2>1. ASSUME NEW v \in V PROVE g[v] = SumFunctionOnSet(f, Owned(1 .. n, f, v))
      <3> DEFINE O == Owned(1 .. n, f, v)
                 c == [x \in O |-> v]
      <3>1. O = of(f, v) /\ O \subseteq 1 .. n /\ v \in Int
        BY DEF Owned
      <3>2. \A x \in O : f[x] = c[x]
        BY DEF Owned
      <3>3. IsFiniteSet(O)
        BY <1>1, <3>1, FS_Subset
      <3>4. g[v] = v * Cardinality(O)
        BY <1>5, <3>1
      <3> HIDE DEF O
      <3>5. SumFunctionOnSet(c, O) = v * Cardinality(O)
        BY <3>1, <3>3, SumConstant
      <3> HIDE DEF c, g
      <3>6. SumFunctionOnSet(f, O) = SumFunctionOnSet(c, O)
        BY <3>2, SumCongruence
      <3> QED
        BY <3>4, <3>5, <3>6 DEF O
    <2> HIDE DEF g, V
    <2>2. Groups(g, f, 1 .. n, V, f)
      BY <2>1 DEF Groups
    <2> QED
      BY <1>1, <1>2, <1>5, <2>2, SumGroups
  <1> HIDE DEF g, V
  <1>6. SumFunctionOnSet(g, V) = SumFunctionOnSet(s, 1 .. n)
    BY <1>3, <1>5
  <1>7. SumFunctionOnSet(g, V) = SumFunctionOnSet(r, 1 .. n)
    BY <1>3, <1>4, <1>5
  <1> QED
    BY <1>6, <1>7

(* Terms that are all at least, or all at most, c. *)
LEMMA SumBounded ==
  ASSUME NEW f, NEW I, IsFiniteSet(I), NEW c \in Int, \A x \in I : f[x] \in Int
  PROVE  /\ SumFunctionOnSet(f, I) \in Int /\ c * Cardinality(I) \in Int
         /\ (\A x \in I : f[x] >= c) => SumFunctionOnSet(f, I) >= c * Cardinality(I)
         /\ (\A x \in I : f[x] <= c) => SumFunctionOnSet(f, I) <= c * Cardinality(I)
  <1> DEFINE k == [x \in I |-> c]
             up == [x \in I |-> f[x] - c]
             down == [x \in I |-> c - f[x]]
             F == SumFunctionOnSet(f, I)
             C == c * Cardinality(I)
  <1>1. F \in Int /\ C \in Int /\ SumFunctionOnSet(k, I) = C
    BY SumInt, SumConstant, FS_CardinalityType
  <1>2. \A x \in I : /\ k[x] \in Int /\ up[x] \in Int /\ down[x] \in Int
                    /\ k[x] = c /\ up[x] = f[x] - c /\ down[x] = c - f[x]
    OBVIOUS
  <1> HIDE DEF k, up, down, C, F
  <1>3. (\A x \in I : f[x] >= c) => F >= C
    <2> SUFFICES ASSUME \A x \in I : f[x] >= c PROVE F >= C
      OBVIOUS
    <2>1. \A x \in I : up[x] \in Nat /\ f[x] = k[x] + up[x]
      BY <1>2
    <2>2. SumFunctionOnSet(f, I) = SumFunctionOnSet(k, I) + SumFunctionOnSet(up, I)
      BY <1>2, <2>1, SumSplit
    <2>3. SumFunctionOnSet(up, I) \in Nat
      BY <2>1, SumNat
    <2> QED
      BY <1>1, <2>2, <2>3 DEF F
  <1>4. (\A x \in I : f[x] <= c) => F <= C
    <2> SUFFICES ASSUME \A x \in I : f[x] <= c PROVE F <= C
      OBVIOUS
    <2>1. \A x \in I : down[x] \in Nat /\ k[x] = f[x] + down[x]
      BY <1>2
    <2>2. SumFunctionOnSet(k, I) = SumFunctionOnSet(f, I) + SumFunctionOnSet(down, I)
      BY <1>2, <2>1, SumSplit
    <2>3. SumFunctionOnSet(down, I) \in Nat
      BY <2>1, SumNat
    <2> QED
      BY <1>1, <2>2, <2>3 DEF F
  <1> QED
    BY <1>1, <1>3, <1>4 DEF F, C

(* A share of a distance, in hundredths, rounded down.                     *)
LEMMA ShareOf ==
  ASSUME NEW a \in 0 .. 99, NEW b \in 0 .. 99, NEW d \in Nat
  PROVE  /\ (a * d) \div 100 \in 0 .. d
         /\ a <= b => (a * d) \div 100 <= (b * d) \div 100
<1> DEFINE x == a * d
           y == b * d
           e == (99 - a) * d
           f == (b - a) * d
<1>1. x \in Nat /\ y \in Nat /\ e \in Nat /\ x + e = 99 * d
  OBVIOUS
<1>2. a <= b => f \in Nat /\ y = x + f
  OBVIOUS
<1> HIDE DEF x, y, e, f
<1>3. x \div 100 \in 0 .. d
  BY <1>1
<1>4. a <= b => x \div 100 <= y \div 100
  BY <1>1, <1>2
<1> QED
  BY <1>3, <1>4 DEF x, y

LEMMA Quotient ==
  ASSUME NEW x \in Int, NEW d \in Nat \ {0}, NEW y \in Int
  PROVE  /\ x \div d \in Int /\ (x \div d) * d <= x
         /\ y * d <= x => y <= x \div d
         /\ x <= y * d => x \div d <= y
<1> DEFINE q == x \div d
<1>1. q \in Int /\ q * d <= x /\ x < q * d + d
  OBVIOUS
<1> HIDE DEF q
<1>2. y * d <= x => y <= q
  <2> SUFFICES ASSUME y * d <= x, q < y PROVE FALSE
    BY <1>1
  <2>1. (y - q - 1) * d \in Nat /\ y * d = q * d + d + (y - q - 1) * d
    BY <1>1
  <2> DEFINE u == q * d
             v == y * d
             w == (y - q - 1) * d
  <2>2. u \in Int /\ v \in Int
    BY <1>1
  <2> HIDE DEF u, v, w
  <2>3. v <= x /\ x < u + d /\ v = u + d + w /\ w \in Nat
    BY <1>1, <2>1 DEF u, v, w
  <2> QED
    BY <2>2, <2>3
<1>3. x <= y * d => q <= y
  <2> SUFFICES ASSUME x <= y * d, y < q PROVE FALSE
    BY <1>1
  <2>1. (q - y - 1) * d \in Nat /\ q * d = y * d + d + (q - y - 1) * d
    BY <1>1
  <2> DEFINE u == q * d
             v == y * d
             w == (q - y - 1) * d
  <2>2. u \in Int /\ v \in Int
    BY <1>1
  <2> HIDE DEF u, v, w
  <2>3. x <= v /\ u <= x /\ u = v + d + w /\ w \in Nat
    BY <1>1, <2>1 DEF u, v, w
  <2> QED
    BY <2>2, <2>3
<1> QED
  BY <1>1, <1>2, <1>3 DEF q

LEMMA FivefoldSum ==
  ASSUME NEW a1 \in Int, NEW a2 \in Int, NEW a3 \in Int, NEW a4 \in Int, NEW a5 \in Int,
         NEW d1 \in Int, NEW d2 \in Int, NEW d3 \in Int, NEW d4 \in Int, NEW d5 \in Int
  PROVE  (a1 + d1) + (a2 + d2) + (a3 + d3) + (a4 + d4) + (a5 + d5)
           = (a1 + a2 + a3 + a4 + a5) + (d1 + d2 + d3 + d4 + d5)
OBVIOUS

-----------------------------------------------------------------------------
(* A sequence of whatever it holds, appended to, cut and glued. *)
IsSeq(h) == h \in Seq(Range(h))

(* What an element appended to a sequence leaves of it.                    *)
LEMMA AppendSeq ==
  ASSUME NEW h, NEW e, IsSeq(h)
  PROVE  /\ IsSeq(Append(h, e))
         /\ Len(h) \in Nat /\ DOMAIN h = 1 .. Len(h)
         /\ Len(Append(h, e)) = Len(h) + 1
         /\ DOMAIN Append(h, e) = 1 .. Len(h) + 1
         /\ Append(h, e)[Len(h) + 1] = e
         /\ \A k \in 1 .. Len(h) : Append(h, e)[k] = h[k]
<1> DEFINE S == Range(h) \cup {e}
           a == Append(h, e)
<1>1. h \in Seq(Range(h)) /\ Len(h) \in Nat /\ DOMAIN h = 1 .. Len(h)
  BY DEF IsSeq
<1>2. \A k \in 1 .. Len(h) : h[k] \in S
  BY <1>1 DEF Range
<1>3. h \in Seq(S)
  BY <1>1, <1>2
<1>4. /\ Len(a) = Len(h) + 1 /\ DOMAIN a = 1 .. Len(h) + 1
      /\ a[Len(h) + 1] = e /\ \A k \in 1 .. Len(h) : a[k] = h[k]
      /\ a \in Seq(S)
  BY <1>1, <1>3
<1> HIDE DEF a, S
<1>5. \A k \in 1 .. Len(a) : a[k] \in Range(a)
  BY <1>1, <1>4 DEF Range
<1>6. a \in Seq(Range(a))
  BY <1>1, <1>4, <1>5
<1> QED
  BY <1>1, <1>4, <1>6 DEF IsSeq, a

(* What is left of a sequence when its head is taken. *)
LEMMA TailSeq ==
  ASSUME NEW h, IsSeq(h), h # <<>>
  PROVE  /\ IsSeq(Tail(h)) /\ Len(Tail(h)) = Len(h) - 1 /\ Len(h) \in Nat \ {0}
         /\ \A k \in 1 .. Len(h) - 1 : Tail(h)[k] = h[k + 1]
<1>1. h \in Seq(Range(h)) /\ Len(h) \in Nat
  BY DEF IsSeq
<1> DEFINE t == Tail(h)
<1>2. /\ t \in Seq(Range(h)) /\ Len(t) = Len(h) - 1 /\ Len(h) # 0
      /\ \A k \in 1 .. Len(h) - 1 : t[k] = h[k + 1]
  BY <1>1
<1> HIDE DEF t
<1>3. \A k \in 1 .. Len(t) : t[k] \in Range(t)
  BY <1>2 DEF Range
<1>4. t \in Seq(Range(t))
  BY <1>2, <1>3
<1> QED
  BY <1>1, <1>2, <1>4 DEF IsSeq, t

LEMMA SeqOfSet ==
  ASSUME NEW S, NEW h \in Seq(S)
  PROVE  IsSeq(h) /\ Len(h) \in Nat /\ DOMAIN h = 1 .. Len(h) /\ \A k \in 1 .. Len(h) : h[k] \in S
<1>1. Len(h) \in Nat /\ DOMAIN h = 1 .. Len(h) /\ \A k \in 1 .. Len(h) : h[k] \in S
  OBVIOUS
<1>2. \A k \in 1 .. Len(h) : h[k] \in Range(h)
  BY <1>1 DEF Range
<1>3. h \in [1 .. Len(h) -> Range(h)]
  BY <1>1, <1>2
<1> QED
  BY <1>1, <1>3 DEF IsSeq

LEMMA SeqWithin ==
  ASSUME NEW h, IsSeq(h), NEW S, Range(h) \subseteq S
  PROVE  h \in Seq(S)
<1>1. h \in Seq(Range(h))
  BY DEF IsSeq
<1> QED
  BY <1>1

(* What is added to the last of three sequences is appended to them all.   *)
LEMMA TellOne ==
  ASSUME NEW p, NEW q, NEW o, NEW e, IsSeq(p), IsSeq(q), IsSeq(o)
  PROVE  /\ IsSeq(p \o q \o o)
         /\ IsSeq(o \o <<e>>)
         /\ p \o q \o (o \o <<e>>) = Append(p \o q \o o, e)
<1> DEFINE S == Range(p) \cup Range(q) \cup Range(o) \cup {e}
<1>1. p \in Seq(S) /\ q \in Seq(S) /\ o \in Seq(S) /\ e \in S
  BY SeqWithin
<1> HIDE DEF S
<1>2. p \o q \in Seq(S)
  BY <1>1
<1> DEFINE a == p \o q
<1>3. a \o o \in Seq(S) /\ o \o <<e>> \in Seq(S)
  BY <1>1, <1>2
<1>4. a \o (o \o <<e>>) = Append(a \o o, e)
  <2> HIDE DEF a
  <2>1. a \in Seq(S)
    BY <1>2 DEF a
  <2> QED
    BY <1>1, <2>1
<1> QED
  BY <1>3, <1>4, SeqOfSet

LEMMA TellTwo ==
  ASSUME NEW p, NEW q, NEW o, NEW e, NEW f, IsSeq(p), IsSeq(q), IsSeq(o)
  PROVE  /\ IsSeq(o \o <<e, f>>)
         /\ p \o q \o (o \o <<e, f>>) = Append(Append(p \o q \o o, e), f)
<1> DEFINE S == Range(p) \cup Range(q) \cup Range(o) \cup {e, f}
           a == p \o q
<1>1. p \in Seq(S) /\ q \in Seq(S) /\ o \in Seq(S) /\ e \in S /\ f \in S
  BY SeqWithin
<1> HIDE DEF S
<1>2. a \in Seq(S)
  BY <1>1
<1> HIDE DEF a
<1>3. o \o <<e, f>> \in Seq(S)
  BY <1>1
<1>4. a \o (o \o <<e, f>>) = Append(Append(a \o o, e), f)
  BY <1>1, <1>2
<1> QED
  BY <1>3, <1>4, SeqOfSet DEF a

Glued(a, b) == a \o b

LEMMA GluedAgain ==
  ASSUME NEW S, NEW a \in Seq(S), NEW b \in Seq(S), NEW c \in Seq(S)
  PROVE  Glued(Glued(a, b), c) = Glued(a, Glued(b, c))
BY DEF Glued

(* What moves from one sequence to the next stays in its place.            *)
Moves(o, q, left, sent) == o # <<>> /\ sent = Append(q, Head(o)) /\ left = Tail(o)

LEMMA MovedOver ==
  ASSUME NEW S, NEW q \in Seq(S), NEW o \in Seq(S), NEW sent, NEW left, Moves(o, q, left, sent)
  PROVE  sent \in Seq(S) /\ left \in Seq(S) /\ Glued(sent, left) = Glued(q, o)
<1>2. o # <<>> /\ sent = Append(q, Head(o)) /\ left = Tail(o)
  BY DEF Moves
<1>3. Head(o) \in S /\ Tail(o) \in Seq(S)
  BY <1>2
<1>4. Append(q, Head(o)) \in Seq(S)
  BY <1>3
<1>5. Append(q, Head(o)) \o Tail(o) = q \o o
  <2>1. o # <<>>
    BY <1>2
  <2> QED
    BY <1>3, <1>4, <2>1
<1>6. sent \in Seq(S) /\ left \in Seq(S)
  BY <1>2, <1>3, <1>4
<1>7. Glued(sent, left) = Glued(q, o)
  BY <1>2, <1>5, Zenon DEF Glued
<1> QED
  BY <1>6, <1>7

LEMMA MovedOne ==
  ASSUME NEW q, NEW o, NEW sent, NEW left, IsSeq(q), IsSeq(o), Moves(o, q, left, sent)
  PROVE  /\ IsSeq(sent) /\ IsSeq(left)
         /\ Glued(sent, left) = Glued(q, o)
         /\ \A p : IsSeq(p) => Glued(Glued(p, sent), left) = Glued(Glued(p, q), o)
<1> SUFFICES ASSUME NEW p, IsSeq(p) \/ p = <<>>
             PROVE  /\ IsSeq(sent) /\ IsSeq(left)
                    /\ Glued(sent, left) = Glued(q, o)
                    /\ Glued(Glued(p, sent), left) = Glued(Glued(p, q), o)
  OBVIOUS
<1> DEFINE S == Range(p) \cup Range(q) \cup Range(o)
<1>1. p \in Seq(S) /\ q \in Seq(S) /\ o \in Seq(S)
  <2>1. p = <<>> => p \in Seq(S)
    OBVIOUS
  <2> QED
    BY <2>1, SeqWithin
<1> HIDE DEF S
<1>6. sent \in Seq(S) /\ left \in Seq(S) /\ Glued(sent, left) = Glued(q, o)
  BY <1>1, MovedOver
<1>8. Glued(Glued(p, sent), left) = Glued(p, Glued(sent, left))
  BY <1>1, <1>6, GluedAgain
<1>9. Glued(Glued(p, q), o) = Glued(p, Glued(q, o))
  BY <1>1, GluedAgain
<1>10. IsSeq(sent) /\ IsSeq(left)
  BY <1>6, SeqOfSet
<1> QED
  BY <1>6, <1>8, <1>9, <1>10, Zenon

LEMMA FunctionIsSeq ==
  ASSUME NEW n \in Nat, NEW f, f = [k \in 1 .. n |-> f[k]]
  PROVE  IsSeq(f) /\ Len(f) = n
<1>1. DOMAIN f = 1 .. n /\ \A k \in 1 .. n : f[k] \in Range(f)
  BY DEF Range
<1>2. f \in [1 .. n -> Range(f)]
  BY <1>1
<1> HIDE DEF Range
<1>3. f \in Seq(Range(f)) /\ Len(f) = n
  BY <1>2
<1> QED
  BY <1>3 DEF IsSeq

LEMMA IntAppended ==
  ASSUME NEW p \in Seq(Int), NEW x \in Int
  PROVE  Append(p, x) \in Seq(Int) /\ Len(Append(p, x)) = Len(p) + 1
OBVIOUS
=============================================================================
