------------------------------ MODULE SumTheorems ------------------------------
(***************************************************************************)
(* Induction, sums and concatenations: what the proofs of the components   *)
(* need of the natural numbers, of SumFunction of module Functions and of  *)
(* FlattenSeq of module SequencesExt.                                      *)
(*                                                                         *)
(* The induction theorems of the library take the property as an operator. *)
(* Here an induction is over a set: the counterexamples, were there any,   *)
(* would have a least one.                                                 *)
(***************************************************************************)
EXTENDS Integers, Sequences, FiniteSets, Functions, WellFoundedInduction, FiniteSetTheorems, TLAPS

(* Every nonempty set of natural numbers has a least element.              *)
LEMMA LeastNatural ==
  ASSUME NEW T \in SUBSET Nat, T # {}
  PROVE  \E x \in T : \A y \in T : x <= y
<1> DEFINE R == OpToRel(<, Nat)
<1>1. IsWellFoundedOn(R, Nat)
  BY NatLessThanWellFounded
<1>2. PICK x \in T : \A y \in T : ~ (<<y, x>> \in R)
  <2> HIDE DEF R
  <2> QED
    BY <1>1, WFMin, Zenon
<1>3. \A y \in T : ~ (y < x)
  BY <1>2 DEF OpToRel
<1> QED
  BY <1>3

(* A set that has 0 and every successor has all natural numbers.           *)
LEMMA NaturalsIn ==
  ASSUME NEW S, 0 \in S, \A n \in Nat : n \in S => n + 1 \in S
  PROVE  \A n \in Nat : n \in S
<1> SUFFICES ASSUME Nat \ S # {} PROVE FALSE
  OBVIOUS
<1>1. PICK n \in Nat \ S : \A m \in Nat \ S : n <= m
  BY LeastNatural
<1>2. n # 0 /\ n - 1 \in Nat
  BY <1>1
<1>3. n - 1 \in S
  BY <1>1, <1>2
<1> QED
  BY <1>1, <1>2, <1>3

(* A nonempty set of finite sets has one of least cardinality.             *)
LEMMA LeastFiniteSet ==
  ASSUME NEW F, F # {}, \A A \in F : IsFiniteSet(A)
  PROVE  \E A \in F : \A B \in F : Cardinality(A) <= Cardinality(B)
<1> DEFINE T == {Cardinality(A) : A \in F}
<1>1. T \in SUBSET Nat /\ T # {}
  BY FS_CardinalityType
<1>2. PICK n \in T : \A m \in T : n <= m
  <2> HIDE DEF T
  <2> QED
    BY <1>1, LeastNatural
<1> QED
  BY <1>2

-----------------------------------------------------------------------------
(* SumFunctionOnSet(f, A) is defined by a recursive function over the      *)
(* subsets of A: g sums f over the subsets of A.                           *)
Pick(s) == CHOOSE x \in s : TRUE
Sums(g, f, A) ==
  g = [s \in SUBSET A |-> IF s = {} THEN 0 ELSE f[Pick(s)] + g[s \ {Pick(s)}]]

(* What is picked from a set is in it.                                     *)
LEMMA PickIn == ASSUME NEW s, s # {} PROVE Pick(s) \in s
BY DEF Pick

(* The sum in terms of the two definitions above.                          *)
LEMMA SumIsChosen ==
  ASSUME NEW f, NEW A
  PROVE  SumFunctionOnSet(f, A) = (CHOOSE g : Sums(g, f, A))[A]
BY Zenon DEF SumFunctionOnSet, FoldFunctionOnSet, MapThenFoldSet, Sums, Pick

(* Two such functions agree wherever both are defined on finite sets.      *)
LEMMA SumsAgree ==
  ASSUME NEW f, NEW A, NEW B, NEW g, NEW h, Sums(g, f, A), Sums(h, f, B),
         NEW s \in SUBSET (A \cap B), IsFiniteSet(s)
  PROVE  g[s] = h[s]
<1> DEFINE Odd == {t \in SUBSET (A \cap B) : IsFiniteSet(t) /\ g[t] # h[t]}
<1> SUFFICES ASSUME Odd # {} PROVE FALSE
  OBVIOUS
<1>1. PICK t \in Odd : \A u \in Odd : Cardinality(t) <= Cardinality(u)
  <2>1. \A u \in Odd : IsFiniteSet(u)
    OBVIOUS
  <2> HIDE DEF Odd
  <2> QED
    BY <2>1, LeastFiniteSet
<1>2. t \in SUBSET A /\ t \in SUBSET B /\ IsFiniteSet(t) /\ g[t] # h[t]
  BY <1>1
<1>3. t # {}
  BY <1>2 DEF Sums
<1> DEFINE x == Pick(t)
<1>4. x \in t
  BY <1>3, PickIn
<1>5. g[t] = f[x] + g[t \ {x}] /\ h[t] = f[x] + h[t \ {x}]
  BY <1>2, <1>3 DEF Sums
<1>6. t \ {x} \in Odd
  <2>1. g[t \ {x}] # h[t \ {x}]
    BY <1>2, <1>5
  <2>2. IsFiniteSet(t \ {x})
    BY <1>2, FS_RemoveElement
  <2> QED
    BY <1>2, <2>1, <2>2
<1>7. Cardinality(t \ {x}) = Cardinality(t) - 1 /\ Cardinality(t) \in Nat
  BY <1>2, <1>4, FS_RemoveElement, FS_CardinalityType
<1> QED
  BY <1>1, <1>6, <1>7

(* One exists for every finite set.                                        *)
LEMMA SumsExist ==
  ASSUME NEW f, NEW A, IsFiniteSet(A)
  PROVE  \E g : Sums(g, f, A)
<1> DEFINE Right(g, s) == IF s = {} THEN 0 ELSE f[Pick(s)] + g[s \ {Pick(s)}]
           Upto(g, n) == \A s \in SUBSET A : Cardinality(s) <= n => g[s] = Right(g, s)
           Good == {n \in Nat : \E g : g = [s \in SUBSET A |-> g[s]] /\ Upto(g, n)}
<1>1. \A s \in SUBSET A : /\ IsFiniteSet(s) /\ Cardinality(s) \in Nat
                          /\ Cardinality(s) <= Cardinality(A)
                          /\ Cardinality(s) = 0 <=> s = {}
                          /\ \A x \in s : Cardinality(s \ {x}) = Cardinality(s) - 1
  <2> SUFFICES ASSUME NEW s \in SUBSET A
               PROVE  /\ IsFiniteSet(s) /\ Cardinality(s) \in Nat
                      /\ Cardinality(s) <= Cardinality(A)
                      /\ Cardinality(s) = 0 <=> s = {}
                      /\ \A x \in s : Cardinality(s \ {x}) = Cardinality(s) - 1
    OBVIOUS
  <2>1. IsFiniteSet(s) /\ Cardinality(s) <= Cardinality(A)
    BY FS_Subset
  <2> QED
    BY <2>1, FS_CardinalityType, FS_EmptySet, FS_RemoveElement
<1>2. 0 \in Good
  <2> DEFINE g == [s \in SUBSET A |-> 0]
  <2>1. Upto(g, 0)
    BY <1>1
  <2> QED
    BY <2>1
<1>3. ASSUME NEW n \in Nat, n \in Good PROVE n + 1 \in Good
  <2>1. PICK g : g = [s \in SUBSET A |-> g[s]] /\ Upto(g, n)
    BY <1>3
  <2> DEFINE h == [s \in SUBSET A |-> IF Cardinality(s) <= n THEN g[s] ELSE Right(g, s)]
  <2>2. ASSUME NEW s \in SUBSET A, Cardinality(s) <= n + 1
        PROVE  h[s] = Right(h, s)
    <3>1. CASE s = {}
      BY <1>1, <2>1, <3>1
    <3>2. CASE s # {}
      <4> DEFINE t == s \ {Pick(s)}
      <4>1. Pick(s) \in s
        BY <3>2, PickIn
      <4>2. t \in SUBSET A /\ Cardinality(t) <= n
        BY <1>1, <2>2, <4>1
      <4>3. h[t] = g[t]
        BY <4>2
      <4>4. h[s] = Right(g, s)
        BY <2>1, <2>2
      <4> HIDE DEF h
      <4> QED
        BY <3>2, <4>3, <4>4
    <3> QED
      BY <3>1, <3>2
  <2>3. Upto(h, n + 1) /\ h = [s \in SUBSET A |-> h[s]]
    BY <2>2
  <2> HIDE DEF h, Upto
  <2> QED
    BY <2>3
<1>4. Cardinality(A) \in Good
  <2> HIDE DEF Good
  <2> QED
    BY <1>2, <1>3, NaturalsIn, FS_CardinalityType
<1>5. PICK g : g = [s \in SUBSET A |-> g[s]] /\ Upto(g, Cardinality(A))
  BY <1>4
<1>6. \A s \in SUBSET A : g[s] = Right(g, s)
  BY <1>1, <1>5
<1>7. Sums(g, f, A)
  BY <1>5, <1>6 DEF Sums
<1> QED
  BY <1>7

(* The sum over the empty set, and over a set with one element set apart   *)
(* as the definition picks it.                                             *)
LEMMA SumUnfolds ==
  ASSUME NEW f, NEW A, IsFiniteSet(A)
  PROVE  SumFunctionOnSet(f, A) =
           IF A = {} THEN 0 ELSE f[Pick(A)] + SumFunctionOnSet(f, A \ {Pick(A)})
<1>1. PICK g : g = (CHOOSE h : Sums(h, f, A)) /\ Sums(g, f, A)
  BY SumsExist, Zenon
<1>2. SumFunctionOnSet(f, A) = g[A]
  BY <1>1, SumIsChosen, Zenon
<1>3. g[A] = IF A = {} THEN 0 ELSE f[Pick(A)] + g[A \ {Pick(A)}]
  BY <1>1 DEF Sums
<1>4. ASSUME A # {} PROVE SumFunctionOnSet(f, A \ {Pick(A)}) = g[A \ {Pick(A)}]
  <2> DEFINE B == A \ {Pick(A)}
  <2>1. IsFiniteSet(B) /\ B \in SUBSET (A \cap B)
    BY FS_RemoveElement
  <2> HIDE DEF B
  <2>2. PICK k : k = (CHOOSE h : Sums(h, f, B)) /\ Sums(k, f, B)
    BY <2>1, SumsExist, Zenon
  <2>3. SumFunctionOnSet(f, B) = k[B]
    BY <2>2, SumIsChosen, Zenon
  <2>4. g[B] = k[B]
    BY <1>1, <2>1, <2>2, SumsAgree
  <2> QED
    BY <2>3, <2>4 DEF B
<1> QED
  BY <1>2, <1>3, <1>4

-----------------------------------------------------------------------------
(* The sum of nothing is 0.                                                *)
LEMMA SumEmpty ==
  ASSUME NEW f
  PROVE  SumFunctionOnSet(f, {}) = 0
BY SumUnfolds, FS_EmptySet

(* The sum of integers is one.                                             *)
LEMMA SumInteger ==
  ASSUME NEW f, NEW A, IsFiniteSet(A), \A x \in A : f[x] \in Int
  PROVE  SumFunctionOnSet(f, A) \in Int
<1> DEFINE Odd == {s \in SUBSET A : SumFunctionOnSet(f, s) \notin Int}
<1> SUFFICES ASSUME Odd # {} PROVE FALSE
  OBVIOUS
<1>1. \A s \in Odd : IsFiniteSet(s)
  BY FS_Subset
<1>2. PICK s \in Odd : \A u \in Odd : Cardinality(s) <= Cardinality(u)
  <2> HIDE DEF Odd
  <2> QED
    BY <1>1, LeastFiniteSet
<1>3. s # {}
  BY <1>2, SumEmpty
<1> DEFINE x == Pick(s)
           t == s \ {x}
<1>4. x \in s /\ t \in SUBSET A
  BY <1>3, PickIn
<1>5. /\ Cardinality(t) = Cardinality(s) - 1 /\ Cardinality(s) \in Nat
  BY <1>1, <1>4, FS_RemoveElement, FS_CardinalityType
<1>6. t \notin Odd
  BY <1>2, <1>5
<1>7. SumFunctionOnSet(f, s) = f[x] + SumFunctionOnSet(f, t)
  BY <1>1, <1>3, SumUnfolds
<1> QED
  BY <1>2, <1>4, <1>6, <1>7

(* Any element can be set apart.                                           *)
LEMMA SumWithout ==
  ASSUME NEW f, NEW A, IsFiniteSet(A), \A y \in A : f[y] \in Int, NEW x \in A
  PROVE  SumFunctionOnSet(f, A) = f[x] + SumFunctionOnSet(f, A \ {x})
<1> DEFINE S(s) == SumFunctionOnSet(f, s)
           Odd == {s \in SUBSET A : \E z \in s : S(s) # f[z] + S(s \ {z})}
<1>0. ASSUME NEW s \in SUBSET A PROVE IsFiniteSet(s) /\ S(s) \in Int
  BY SumInteger, FS_Subset
<1> SUFFICES ASSUME Odd # {} PROVE FALSE
  OBVIOUS
<1>1. \A s \in Odd : IsFiniteSet(s)
  BY <1>0
<1>2. PICK s \in Odd : \A u \in Odd : Cardinality(s) <= Cardinality(u)
  <2> HIDE DEF Odd
  <2> QED
    BY <1>1, LeastFiniteSet
<1>3. PICK z \in s : S(s) # f[z] + S(s \ {z})
  BY <1>2
<1>4. s \in SUBSET A /\ IsFiniteSet(s)
  BY <1>0, <1>2
<1>5. PICK y \in s : S(s) = f[y] + S(s \ {y})
  BY <1>3, <1>4, PickIn, SumUnfolds
<1> HIDE DEF S
<1>6. y # z
  BY <1>3, <1>5
<1>7. ASSUME NEW v \in s PROVE s \ {v} \notin Odd /\ s \ {v} \in SUBSET A
  <2>1. Cardinality(s \ {v}) = Cardinality(s) - 1 /\ Cardinality(s) \in Nat
    BY <1>4, FS_RemoveElement, FS_CardinalityType
  <2> QED
    BY <1>2, <1>4, <2>1
<1>8. S(s \ {y}) = f[z] + S((s \ {y}) \ {z})
  BY <1>3, <1>5, <1>6, <1>7
<1>9. S(s \ {z}) = f[y] + S((s \ {y}) \ {z})
  <2>1. (s \ {z}) \ {y} = (s \ {y}) \ {z}
    OBVIOUS
  <2> QED
    BY <1>3, <1>5, <1>6, <1>7, <2>1
<1>10. f[z] \in Int /\ f[y] \in Int /\ S((s \ {y}) \ {z}) \in Int
  <2>1. (s \ {y}) \ {z} \in SUBSET A /\ z \in A /\ y \in A
    BY <1>3, <1>4, <1>5
  <2> QED
    BY <1>0, <2>1
<1>11. \A a, b, c : a \in Int /\ b \in Int /\ c \in Int => a + (b + c) = b + (a + c)
  OBVIOUS
<1> QED
  BY <1>3, <1>5, <1>8, <1>9, <1>10, <1>11

(* The sum only depends on the values summed.                              *)
LEMMA SumSame ==
  ASSUME NEW f, NEW g, NEW A, IsFiniteSet(A), \A x \in A : f[x] = g[x]
  PROVE  SumFunctionOnSet(f, A) = SumFunctionOnSet(g, A)
<1> DEFINE Odd == {s \in SUBSET A : SumFunctionOnSet(f, s) # SumFunctionOnSet(g, s)}
<1> SUFFICES ASSUME Odd # {} PROVE FALSE
  OBVIOUS
<1>1. \A s \in Odd : IsFiniteSet(s)
  BY FS_Subset
<1>2. PICK s \in Odd : \A u \in Odd : Cardinality(s) <= Cardinality(u)
  <2> HIDE DEF Odd
  <2> QED
    BY <1>1, LeastFiniteSet
<1>3. s # {} /\ s \in SUBSET A /\ IsFiniteSet(s)
  BY <1>1, <1>2, SumEmpty
<1> DEFINE x == Pick(s)
           t == s \ {x}
<1>4. x \in s /\ t \in SUBSET A
  BY <1>3, PickIn
<1>5. Cardinality(t) = Cardinality(s) - 1 /\ Cardinality(s) \in Nat
  BY <1>3, <1>4, FS_RemoveElement, FS_CardinalityType
<1>6. t \notin Odd
  BY <1>2, <1>5
<1>7. /\ SumFunctionOnSet(f, s) = f[x] + SumFunctionOnSet(f, t)
      /\ SumFunctionOnSet(g, s) = g[x] + SumFunctionOnSet(g, t)
  BY <1>3, SumUnfolds
<1> QED
  BY <1>2, <1>3, <1>4, <1>6, <1>7

(* One value changes.                                                      *)
LEMMA SumChanged ==
  ASSUME NEW f, NEW g, NEW A, IsFiniteSet(A), NEW x \in A,
         \A y \in A : f[y] \in Int /\ g[y] \in Int,
         \A y \in A \ {x} : g[y] = f[y]
  PROVE  SumFunctionOnSet(g, A) = SumFunctionOnSet(f, A) - f[x] + g[x]
<1> DEFINE B == A \ {x}
<1>1. IsFiniteSet(B) /\ \A y \in B : f[y] \in Int /\ g[y] = f[y]
  BY FS_RemoveElement
<1>2. SumFunctionOnSet(g, B) = SumFunctionOnSet(f, B) /\ SumFunctionOnSet(f, B) \in Int
  <2> HIDE DEF B
  <2> QED
    BY <1>1, SumSame, SumInteger
<1>3. /\ SumFunctionOnSet(g, A) = g[x] + SumFunctionOnSet(g, B)
      /\ SumFunctionOnSet(f, A) = f[x] + SumFunctionOnSet(f, B)
  BY SumWithout
<1> HIDE DEF B
<1> QED
  BY <1>2, <1>3

(* One element more.                                                       *)
LEMMA SumWith ==
  ASSUME NEW f, NEW g, NEW A, IsFiniteSet(A), NEW x, x \notin A,
         \A y \in A : f[y] \in Int /\ g[y] = f[y], g[x] \in Int
  PROVE  SumFunctionOnSet(g, A \cup {x}) = SumFunctionOnSet(f, A) + g[x]
<1> DEFINE B == A \cup {x}
<1>1. IsFiniteSet(B) /\ x \in B /\ B \ {x} = A /\ \A y \in B : g[y] \in Int
  BY FS_AddElement
<1>2. SumFunctionOnSet(g, A) = SumFunctionOnSet(f, A) /\ SumFunctionOnSet(f, A) \in Int
  BY SumSame, SumInteger
<1> HIDE DEF B
<1>3. SumFunctionOnSet(g, B) = g[x] + SumFunctionOnSet(g, A)
  BY <1>1, SumWithout
<1> QED
  BY <1>2, <1>3 DEF B

(* A sum of naturals is one, and each of them is at most the sum.          *)
LEMMA SumNatural ==
  ASSUME NEW f, NEW A, IsFiniteSet(A), \A x \in A : f[x] \in Nat
  PROVE  SumFunctionOnSet(f, A) \in Nat
<1> DEFINE Odd == {s \in SUBSET A : SumFunctionOnSet(f, s) \notin Nat}
<1> SUFFICES ASSUME Odd # {} PROVE FALSE
  OBVIOUS
<1>1. \A s \in Odd : IsFiniteSet(s)
  BY FS_Subset
<1>2. PICK s \in Odd : \A u \in Odd : Cardinality(s) <= Cardinality(u)
  <2> HIDE DEF Odd
  <2> QED
    BY <1>1, LeastFiniteSet
<1>3. s # {} /\ s \in SUBSET A /\ IsFiniteSet(s)
  BY <1>1, <1>2, SumEmpty
<1> DEFINE x == Pick(s)
           t == s \ {x}
<1>4. x \in s /\ t \in SUBSET A
  BY <1>3, PickIn
<1>5. Cardinality(t) = Cardinality(s) - 1 /\ Cardinality(s) \in Nat
  BY <1>3, <1>4, FS_RemoveElement, FS_CardinalityType
<1>6. t \notin Odd
  BY <1>2, <1>5
<1>7. SumFunctionOnSet(f, s) = f[x] + SumFunctionOnSet(f, t)
  BY <1>3, SumUnfolds
<1> QED
  BY <1>2, <1>3, <1>4, <1>6, <1>7

(* A sum of nothing but zeros.                                             *)
LEMMA SumNothing ==
  ASSUME NEW f, NEW A, IsFiniteSet(A), \A x \in A : f[x] = 0
  PROVE  SumFunctionOnSet(f, A) = 0
<1> DEFINE Odd == {s \in SUBSET A : SumFunctionOnSet(f, s) # 0}
<1> SUFFICES ASSUME Odd # {} PROVE FALSE
  OBVIOUS
<1>1. \A s \in Odd : IsFiniteSet(s)
  BY FS_Subset
<1>2. PICK s \in Odd : \A t \in Odd : Cardinality(s) <= Cardinality(t)
  <2> HIDE DEF Odd
  <2> QED
    BY <1>1, LeastFiniteSet
<1>3. IsFiniteSet(s) /\ s \in SUBSET A /\ s # {}
  BY <1>1, <1>2, SumEmpty
<1>4. PICK x \in s : TRUE
  BY <1>3
<1>5. s \ {x} \notin Odd
  <2>1. Cardinality(s \ {x}) = Cardinality(s) - 1 /\ Cardinality(s) \in Nat
    BY <1>3, <1>4, FS_RemoveElement, FS_CardinalityType
  <2> QED
    BY <1>2, <2>1
<1>6. SumFunctionOnSet(f, s \ {x}) = 0
  BY <1>3, <1>5
<1>7. SumFunctionOnSet(f, s) = f[x] + SumFunctionOnSet(f, s \ {x})
  <2>1. \A y \in s : f[y] \in Int
    BY <1>3
  <2> QED
    BY <1>3, <1>4, <2>1, SumWithout
<1> QED
  BY <1>2, <1>3, <1>4, <1>6, <1>7

(* A sum of natural numbers does not shrink with the set.                  *)
LEMMA SumMonotone ==
  ASSUME NEW f, NEW B, IsFiniteSet(B), \A x \in B : f[x] \in Nat, NEW A \in SUBSET B
  PROVE  SumFunctionOnSet(f, A) <= SumFunctionOnSet(f, B)
<1> DEFINE S(s) == SumFunctionOnSet(f, s)
           Bad == {s \in SUBSET B : ~ (S(s) <= S(B))}
           Rests == {B \ s : s \in Bad}
<1>1. \A s \in SUBSET B : IsFiniteSet(s) /\ S(s) \in Nat
  BY FS_Subset, SumNatural
<1> SUFFICES ASSUME A \in Bad PROVE FALSE
  OBVIOUS
<1>2. Rests # {} /\ \A r \in Rests : IsFiniteSet(r)
  BY <1>1
<1>3. PICK r \in Rests : \A q \in Rests : Cardinality(r) <= Cardinality(q)
  <2> HIDE DEF Rests
  <2> QED
    BY <1>2, LeastFiniteSet
<1>4. PICK s \in Bad : r = B \ s
  OBVIOUS
<1>5. PICK x \in B : x \notin s
  <2>1. S(B) \in Nat
    BY <1>1
  <2>2. s # B
    BY <2>1
  <2> QED
    BY <2>2
<1> DEFINE t == s \cup {x}
<1>6. t \in SUBSET B /\ t \ {x} = s /\ x \in t
  BY <1>5
<1>7. S(t) = f[x] + S(s)
  <2>1. IsFiniteSet(t) /\ \A y \in t : f[y] \in Int
    BY <1>1, <1>6
  <2> HIDE DEF t
  <2> QED
    BY <1>6, <2>1, SumWithout
<1>8. t \notin Bad
  <2>1. B \ t = r \ {x} /\ x \in r
    BY <1>4, <1>5
  <2>2. IsFiniteSet(r)
    BY <1>2
  <2>3. Cardinality(r) \in Nat /\ Cardinality(r \ {x}) = Cardinality(r) - 1
    BY <2>1, <2>2, FS_CardinalityType, FS_RemoveElement
  <2>4. ~ (Cardinality(r) <= Cardinality(r \ {x}))
    BY <2>3
  <2> QED
    BY <1>3, <2>1, <2>4
<1>9. S(t) <= S(B)
  BY <1>6, <1>8
<1>10. S(s) \in Nat /\ S(t) \in Nat /\ S(B) \in Nat /\ f[x] \in Nat
  BY <1>1, <1>5, <1>6
<1> HIDE DEF S, t
<1>11. S(s) <= S(B)
  BY <1>7, <1>9, <1>10
<1> QED
  BY <1>11 DEF S

(* Summing over other indices.                                             *)
LEMMA SumReindexed ==
  ASSUME NEW f, NEW g, NEW A, NEW B, IsFiniteSet(A), IsFiniteSet(B), NEW h \in Injection(A, B),
         \A b \in B : g[b] \in Int, \A x \in A : f[x] = g[h[x]]
  PROVE  SumFunctionOnSet(f, A) = SumFunctionOnSet(g, {h[x] : x \in A})
<1> DEFINE F(s) == SumFunctionOnSet(f, s)
           G(s) == SumFunctionOnSet(g, s)
           Im(s) == {h[x] : x \in s}
           Bad == {s \in SUBSET A : F(s) # G(Im(s))}
<1> SUFFICES ASSUME Bad # {} PROVE FALSE
  OBVIOUS
<1>1. h \in [A -> B] /\ \A x, y \in A : h[x] = h[y] => x = y
  BY DEF Injection, IsInjective
<1>2. \A s \in SUBSET A : IsFiniteSet(s) /\ IsFiniteSet(Im(s)) /\ Im(s) \in SUBSET B
  BY <1>1, FS_Subset
<1>3. PICK s \in Bad : \A q \in Bad : Cardinality(s) <= Cardinality(q)
  <2>1. \A s \in Bad : IsFiniteSet(s)
    BY <1>2
  <2> HIDE DEF Bad
  <2> QED
    BY <2>1, LeastFiniteSet
<1>4. s # {}
  <2>1. F({}) = 0 /\ G({}) = 0
    BY SumEmpty
  <2>2. Im({}) = {}
    OBVIOUS
  <2> QED
    BY <2>1, <2>2
<1>5. PICK x \in s : TRUE
  BY <1>4
<1> DEFINE r == s \ {x}
<1>6. x \in A /\ h[x] \in Im(s) /\ Im(s) \ {h[x]} = Im(r) /\ r \in SUBSET A
  BY <1>1
<1>7. F(s) = f[x] + F(r)
  <2>1. IsFiniteSet(s) /\ \A y \in s : f[y] \in Int
    BY <1>1, <1>2
  <2> QED
    BY <2>1, SumWithout
<1>8. G(Im(s)) = g[h[x]] + G(Im(r))
  <2>1. IsFiniteSet(Im(s)) /\ \A y \in Im(s) : g[y] \in Int
    BY <1>2
  <2> HIDE DEF Im, r
  <2> QED
    BY <1>6, <2>1, SumWithout
<1>9. r \notin Bad
  <2>1. IsFiniteSet(s)
    BY <1>2
  <2>2. Cardinality(s) \in Nat /\ Cardinality(r) = Cardinality(s) - 1
    BY <2>1, FS_CardinalityType, FS_RemoveElement
  <2>3. ~ (Cardinality(s) <= Cardinality(r))
    BY <2>2
  <2> QED
    BY <1>3, <2>3
<1>10. F(r) = G(Im(r))
  BY <1>6, <1>9
<1>11. F(s) = G(Im(s))
  <2> HIDE DEF F, G, Im, r
  <2> QED
    BY <1>6, <1>7, <1>8, <1>10
<1> QED
  BY <1>11

(* The sum over a sequence of numbers when one is appended.                *)
LEMMA SumAppended ==
  ASSUME NEW n \in Nat, NEW f, NEW g, \A i \in 1 .. n : f[i] \in Int /\ g[i] = f[i], g[n + 1] \in Int
  PROVE  SumFunctionOnSet(g, 1 .. n + 1) = SumFunctionOnSet(f, 1 .. n) + g[n + 1]
<1>1. 1 .. n + 1 = (1 .. n) \cup {n + 1} /\ n + 1 \notin 1 .. n
  OBVIOUS
<1>2. IsFiniteSet(1 .. n)
  BY FS_Interval
<1> QED
  BY <1>1, <1>2, SumWith

(* And when one is removed.                                                *)
LEMMA SumRemoved ==
  ASSUME NEW n \in Nat, NEW f, NEW g, NEW i \in 1 .. n, \A j \in 1 .. n : f[j] \in Int,
         \A j \in 1 .. n - 1 : g[j] = f[IF j < i THEN j ELSE j + 1]
  PROVE  SumFunctionOnSet(f, 1 .. n) = f[i] + SumFunctionOnSet(g, 1 .. n - 1)
<1> DEFINE A == 1 .. n - 1
           B == (1 .. n) \ {i}
           h == [j \in A |-> IF j < i THEN j ELSE j + 1]
<1>1. IsFiniteSet(1 .. n) /\ IsFiniteSet(A)
  BY FS_Interval
<1>2. IsFiniteSet(B)
  BY <1>1, FS_Subset
<1>3. h \in Injection(A, B)
  <2>1. \A j \in A : h[j] \in B
    OBVIOUS
  <2>2. \A j, k \in A : h[j] = h[k] => j = k
    OBVIOUS
  <2>3. h \in [A -> B]
    BY <2>1
  <2> HIDE DEF A, B, h
  <2> QED
    BY <2>2, <2>3 DEF Injection, IsInjective
<1>4. {h[j] : j \in A} = B
  <2>1. \A j \in A : h[j] \in B
    OBVIOUS
  <2>2. ASSUME NEW k \in B PROVE \E j \in A : h[j] = k
    <3>1. CASE k < i
      BY <3>1
    <3>2. CASE ~ (k < i)
      <4>1. k - 1 \in A /\ h[k - 1] = k
        BY <3>2
      <4> QED
        BY <4>1
    <3> QED
      BY <3>1, <3>2
  <2> HIDE DEF A, B, h
  <2> QED
    BY <2>1, <2>2
<1>5. \A b \in B : f[b] \in Int
  OBVIOUS
<1>6. \A j \in A : g[j] = f[h[j]]
  OBVIOUS
<1>7. SumFunctionOnSet(g, A) = SumFunctionOnSet(f, B)
  <2> HIDE DEF A, B, h
  <2> QED
    BY <1>1, <1>2, <1>3, <1>4, <1>5, <1>6, SumReindexed
<1> QED
  BY <1>1, <1>7, SumWithout

(* A sum of numbers up to m.                                               *)
LEMMA SumAtMost ==
  ASSUME NEW f, NEW A, IsFiniteSet(A), NEW m \in Nat, \A x \in A : f[x] \in Nat /\ f[x] <= m
  PROVE  SumFunctionOnSet(f, A) <= Cardinality(A) * m
<1> DEFINE S(s) == SumFunctionOnSet(f, s)
           Bad == {s \in SUBSET A : ~ (S(s) <= Cardinality(s) * m)}
<1> SUFFICES ASSUME Bad # {} PROVE FALSE
  OBVIOUS
<1>1. \A s \in SUBSET A : IsFiniteSet(s) /\ S(s) \in Nat /\ Cardinality(s) \in Nat
  BY FS_Subset, SumNatural, FS_CardinalityType
<1>2. PICK s \in Bad : \A q \in Bad : Cardinality(s) <= Cardinality(q)
  <2>1. \A s \in Bad : IsFiniteSet(s)
    BY <1>1
  <2> HIDE DEF Bad
  <2> QED
    BY <2>1, LeastFiniteSet
<1>3. s # {}
  BY SumEmpty, FS_EmptySet
<1>4. PICK x \in s : TRUE
  BY <1>3
<1> DEFINE r == s \ {x}
<1>5. S(s) = f[x] + S(r)
  <2>1. IsFiniteSet(s) /\ \A y \in s : f[y] \in Int
    BY <1>1
  <2> QED
    BY <2>1, SumWithout
<1>6. Cardinality(r) = Cardinality(s) - 1
  <2>1. IsFiniteSet(s)
    BY <1>1
  <2> QED
    BY <2>1, FS_RemoveElement
<1>7. Cardinality(s) \in Nat /\ Cardinality(r) \in Nat /\ S(r) \in Nat /\ f[x] \in Nat /\ f[x] <= m
  BY <1>1
<1>8. ~ (Cardinality(s) <= Cardinality(r))
  BY <1>6, <1>7
<1>9. S(r) <= Cardinality(r) * m
  BY <1>2, <1>8
<1>10. Cardinality(s) * m = Cardinality(r) * m + m
  <2>1. \A k, l \in Nat : l = k - 1 => k * m = l * m + m
    OBVIOUS
  <2> QED
    BY <1>6, <1>7, <2>1
<1>11. \A a, b, c \in Nat, p, q \in Int : a = b + c /\ b <= m /\ c <= p /\ q = p + m => a <= q
  OBVIOUS
<1>12. Cardinality(s) * m \in Int /\ Cardinality(r) * m \in Int
  BY <1>7
<1>13. S(s) \in Nat
  BY <1>1
<1>14. S(s) <= Cardinality(s) * m
  <2> HIDE DEF S, r
  <2> QED
    BY <1>5, <1>7, <1>9, <1>10, <1>11, <1>12, <1>13
<1> QED
  BY <1>14

-----------------------------------------------------------------------------
(* Remainders.                                                             *)


(* A multiple of w that is not 0 is at least w away from it.              *)
LEMMA MultiplesApart == \A w \in Nat \ {0}, k \in Int : (k >= 1 => w * k >= w) /\ (k <= -1 => w * k <= -w)
OBVIOUS

(* What a number is made of: a quotient and a remainder.                  *)
LEMMA QuotientAndRemainder == \A w \in Nat \ {0}, a \in Int : /\ a \div w \in Int /\ a % w \in Int /\ 0 <= a % w /\ a % w < w /\ a = w * (a \div w) + (a % w)
OBVIOUS

(* Multiplication distributes.                                            *)
LEMMA ProductOfSum == \A w, a, b \in Int : w * (a - b) = w * a - w * b /\ w * (a + b) = w * a + w * b /\ w * a \in Int
OBVIOUS

(* The remainder is the only one.                                         *)
LEMMA RemainderUnique == ASSUME NEW w \in Nat \ {0}, NEW k \in Int, NEW l \in Int, NEW s \in Int, NEW u \in Int, 0 <= s, s < w, 0 <= u, u < w,
    w * k + s = w * l + u PROVE s = u
<1>1. w * (k - l) = u - s
  BY ProductOfSum
<1>2. k - l \in Int /\ ~ (k - l >= 1) /\ ~ (k - l <= -1)
  <2>1. \A x, y \in Int : 0 <= x /\ x < w /\ 0 <= y /\ y < w => y - x < w /\ y - x > -w
    OBVIOUS
  <2>2. u - s < w /\ u - s > -w
    BY <2>1
  <2>3. k - l \in Int
    OBVIOUS
  <2>4. (k - l >= 1 => w * (k - l) >= w) /\ (k - l <= -1 => w * (k - l) <= -w)
    BY <2>3, MultiplesApart
  <2> QED
    BY <1>1, <2>2, <2>3, <2>4
<1>3. k = l
  BY <1>2
<1> QED
  BY <1>3, ProductOfSum

(* A remainder can be taken before adding and after it.                   *)
LEMMA RemainderOfSum ==
  ASSUME NEW w \in Nat \ {0}, NEW a \in Int, NEW b \in Int
  PROVE  (a % w) \in Int /\ ((a % w) + b) % w = (a + b) % w
<1> DEFINE r == a % w
           q == a \div w
           s == (r + b) % w
           p == (r + b) \div w
           u == (a + b) % w
           l == (a + b) \div w
<1>1. q \in Int /\ r \in Int /\ a = w * q + r
  BY QuotientAndRemainder
<1>2. r + b \in Int /\ a + b \in Int
  BY <1>1
<1>3. p \in Int /\ s \in Int /\ 0 <= s /\ s < w /\ r + b = w * p + s
  BY <1>2, QuotientAndRemainder
<1>4. l \in Int /\ u \in Int /\ 0 <= u /\ u < w /\ a + b = w * l + u
  BY <1>2, QuotientAndRemainder
<1>5. w * (q + p) = w * q + w * p /\ w * q \in Int /\ w * p \in Int
  BY <1>1, <1>3, ProductOfSum
<1>6. w * (q + p) + s = w * l + u
  <2> HIDE DEF q, p, l, s, u, r
  <2> QED
    BY <1>1, <1>3, <1>4, <1>5
<1>7. q + p \in Int
  BY <1>1, <1>3
<1> HIDE DEF q, p, l, s, u, r
<1> QED
  BY <1>1, <1>3, <1>4, <1>6, <1>7, RemainderUnique DEF r, s, u

(* A number below w is its own remainder.                                 *)
LEMMA RemainderOfSmall == \A w \in Nat \ {0}, a \in Nat : a < w => a % w = a
OBVIOUS

-----------------------------------------------------------------------------
(* Concatenations.                                                         *)

(* FlattenSeq(seqs) is the last of the concatenations of the first i, a    *)
(* recursive function.                                                     *)
Flattens(r, seqs) ==
  r = [i \in 1 .. Len(seqs) |-> IF i = 1 THEN seqs[i] ELSE r[i - 1] \o seqs[i]]

(* The concatenations exist.                                               *)
LEMMA FlattensExists ==
  ASSUME NEW S, NEW seqs \in Seq(Seq(S))
  PROVE  \E r : Flattens(r, seqs)
<1> DEFINE n == Len(seqs)
           Part(r, m) == /\ DOMAIN r = 1 .. m
                         /\ \A i \in 1 .. m : r[i] = IF i = 1 THEN seqs[i] ELSE r[i - 1] \o seqs[i]
           Done == {m \in Nat : m > n \/ \E r : Part(r, m)}
<1>1. n \in Nat
  OBVIOUS
<1>2. 0 \in Done
  <2>1. Part([i \in 1 .. 0 |-> << >>], 0)
    OBVIOUS
  <2> HIDE DEF Part
  <2> QED
    BY <2>1
<1>3. ASSUME NEW m \in Nat, m \in Done PROVE m + 1 \in Done
  <2>1. CASE m + 1 > n
    BY <2>1
  <2>2. CASE ~ (m + 1 > n)
    <3>1. PICK r : Part(r, m)
      <4> HIDE DEF Part
      <4> QED
        BY <1>1, <1>3, <2>2
    <3> DEFINE q == [i \in 1 .. m + 1 |-> IF i = 1 THEN seqs[i]
                       ELSE IF i = m + 1 THEN r[m] \o seqs[i] ELSE r[i]]
    <3>2. ASSUME NEW i \in 1 .. m + 1
          PROVE  q[i] = IF i = 1 THEN seqs[i] ELSE q[i - 1] \o seqs[i]
      <4>1. CASE i = 1
        BY <4>1
      <4>2. CASE i # 1 /\ i = m + 1
        <5>1. m \in 1 .. m + 1 /\ i - 1 = m /\ m # m + 1 /\ m \in 1 .. m
          BY <4>2
        <5>2. q[m] = r[m]
          <6>1. CASE m = 1
            BY <3>1, <5>1, <6>1
          <6>2. CASE m # 1
            BY <5>1, <6>2
          <6> QED
            BY <6>1, <6>2
        <5>3. q[i] = r[m] \o seqs[i]
          BY <4>2
        <5> QED
          BY <4>2, <5>1, <5>2, <5>3
      <4>3. CASE i # 1 /\ i # m + 1
        <5>1. i \in 1 .. m /\ i - 1 \in 1 .. m /\ i - 1 \in 1 .. m + 1 /\ i - 1 # m + 1
          BY <4>3
        <5>2. q[i] = r[i] /\ r[i] = r[i - 1] \o seqs[i]
          BY <3>1, <4>3, <5>1
        <5>3. q[i - 1] = r[i - 1]
          <6>1. CASE i - 1 = 1
            BY <3>1, <5>1, <6>1
          <6>2. CASE i - 1 # 1
            BY <5>1, <6>2
          <6> QED
            BY <6>1, <6>2
        <5> QED
          BY <4>3, <5>2, <5>3
      <4> QED
        BY <4>1, <4>2, <4>3
    <3>3. Part(q, m + 1)
      <4>1. DOMAIN q = 1 .. m + 1
        OBVIOUS
      <4> HIDE DEF q
      <4> QED
        BY <3>2, <4>1
    <3> HIDE DEF Part
    <3> QED
      BY <3>3
  <2> QED
    BY <2>1, <2>2
<1>4. \A m \in Nat : m \in Done
  <2> HIDE DEF Done
  <2> QED
    BY <1>2, <1>3, NaturalsIn
<1>5. PICK r : Part(r, n)
  <2>1. ~ (n > n)
    BY <1>1
  <2> HIDE DEF Part, n
  <2> QED
    BY <1>1, <1>4, <2>1
<1> DEFINE q == [i \in 1 .. n |-> r[i]]
<1>7. Flattens(q, seqs)
  <2>1. \A i \in 1 .. n : q[i] = IF i = 1 THEN seqs[i] ELSE q[i - 1] \o seqs[i]
    <3> TAKE i \in 1 .. n
    <3>1. q[i] = IF i = 1 THEN seqs[i] ELSE r[i - 1] \o seqs[i]
      BY <1>5
    <3>2. i # 1 => i - 1 \in 1 .. n
      BY <1>1
    <3> QED
      BY <3>1, <3>2
  <2>2. q = [i \in 1 .. n |-> q[i]]
    OBVIOUS
  <2> HIDE DEF q
  <2> QED
    BY <2>1, <2>2 DEF Flattens
<1> QED
  BY <1>7

(* Two lists have the same first n elements.                               *)
BeginAlike(s, t, n) == \A i \in 1 .. n : s[i] = t[i]

(* Those of lists that begin alike begin alike.                            *)
LEMMA FlattensAgree ==
  ASSUME NEW a, NEW b, NEW r, NEW q, NEW n \in Nat, Len(a) \in Nat, Len(b) \in Nat,
         n <= Len(a), n <= Len(b), BeginAlike(a, b, n),
         Flattens(r, a), Flattens(q, b)
  PROVE  BeginAlike(r, q, n)
<1>0. \A i \in 1 .. n : a[i] = b[i]
  BY DEF BeginAlike
<1> SUFFICES \A i \in 1 .. n : r[i] = q[i]
  BY DEF BeginAlike
<1> DEFINE Done == {m \in Nat : m \in 1 .. n => r[m] = q[m]}
<1>1. \A i \in 1 .. n : /\ r[i] = IF i = 1 THEN a[i] ELSE r[i - 1] \o a[i]
                        /\ q[i] = IF i = 1 THEN b[i] ELSE q[i - 1] \o b[i]
  <2>1. \A i \in 1 .. n : i \in 1 .. Len(a) /\ i \in 1 .. Len(b)
    OBVIOUS
  <2> QED
    BY <2>1 DEF Flattens
<1>2. 0 \in Done
  OBVIOUS
<1>3. ASSUME NEW m \in Nat, m \in Done PROVE m + 1 \in Done
  <2>1. CASE m = 0
    BY <1>0, <1>1, <2>1
  <2>2. CASE m # 0 /\ m + 1 \in 1 .. n
    <3>1. m \in 1 .. n /\ r[m] = q[m] /\ m + 1 # 1 /\ m + 1 - 1 = m
      BY <1>3, <2>2
    <3> QED
      BY <1>0, <1>1, <2>2, <3>1
  <2> QED
    BY <2>1, <2>2
<1> HIDE DEF Done
<1>4. \A m \in Nat : m \in Done
  BY <1>2, <1>3, NaturalsIn
<1> QED
  BY <1>4 DEF Done
=============================================================================
