------------------------------ MODULE SetLemmas ------------------------------
(***************************************************************************)
(* Sums over finite sets and orders of finite sets.                        *)
(*                                                                         *)
(* A sum is what MapThenSumSet of the community modules computes.  It is   *)
(* defined by a recursive function that takes the elements of the set in   *)
(* an unknown order; the lemmas here show that the function exists and     *)
(* that the order does not matter.  An order is a sequence of SetToSeqs,   *)
(* and there is one sorted by any key.                                     *)
(*                                                                         *)
(* The induction on the size of a set is an argument by the smallest       *)
(* counterexample, which needs no theorem about operators.                 *)
(***************************************************************************)
EXTENDS Integers, Sequences, SequencesExt, FiniteSetsExt, FiniteSetTheorems,
        WellFoundedInduction, TLAPS

(* A set of naturals that has elements has a smallest one.                 *)
LEMMA Smallest ==
  ASSUME NEW T, T \subseteq Nat, T # {}
  PROVE  \E n \in T : \A m \in T : n <= m
<1> DEFINE R == OpToRel(<, Nat)
<1>1. \E n \in T : \A m \in T : <<m, n>> \notin R
  BY NatLessThanWellFounded, WFMin
<1>2. \A m, n \in Nat : <<m, n>> \notin R => n <= m
  BY DEF OpToRel
<1> QED BY <1>1, <1>2

Pick(s) == CHOOSE x \in s : TRUE

(* g is the recursive function behind the sum of w over S.                 *)
IsSum(g, w, S) ==
  g = [s \in SUBSET S |-> IF s = {} THEN 0 ELSE w[Pick(s)] + g[s \ {Pick(s)}]]

(* Taking away the element picked leaves a smaller set.                    *)
LEMMA Smaller ==
  ASSUME NEW s, IsFiniteSet(s), NEW x \in s
  PROVE  /\ IsFiniteSet(s \ {x}) /\ s \ {x} \subseteq s
         /\ Cardinality(s) \in Nat /\ Cardinality(s \ {x}) = Cardinality(s) - 1
         /\ Cardinality(s \ {x}) \in Nat
<1>1. IsFiniteSet(s \ {x}) /\ Cardinality(s \ {x}) = Cardinality(s) - 1
  BY FS_RemoveElement
<1> QED BY <1>1, FS_CardinalityType

LEMMA Picked == ASSUME NEW s, s # {} PROVE Pick(s) \in s
BY DEF Pick

(* The function exists.                                                    *)
LEMMA SumExists ==
  ASSUME NEW w, NEW S, IsFiniteSet(S)
  PROVE  \E g : IsSum(g, w, S)
<1> DEFINE D(n) == {s \in SUBSET S : Cardinality(s) <= n}
           Body(g, s) == IF s = {} THEN 0 ELSE w[Pick(s)] + g[s \ {Pick(s)}]
           Has(n) == \E g : g = [s \in D(n) |-> Body(g, s)]
           T == {n \in Nat : ~Has(n)}
<1>a. \A s \in SUBSET S : IsFiniteSet(s) /\ Cardinality(s) \in Nat
  BY FS_Subset, FS_CardinalityType
<1>1. Has(0)
  <2> DEFINE g == [s \in D(0) |-> 0]
  <2>1. \A s \in D(0) : s = {}
    BY <1>a, FS_EmptySet
  <2>2. g = [s \in D(0) |-> Body(g, s)]
    BY <2>1
  <2> QED BY <2>2
<1>2. ASSUME NEW n \in Nat, Has(n) PROVE Has(n + 1)
  <2>1. PICK g : g = [s \in D(n) |-> Body(g, s)]
    BY <1>2
  <2> DEFINE h == [s \in D(n + 1) |-> Body(g, s)]
  <2>2. \A s \in D(n) : s \in D(n + 1) /\ h[s] = g[s]
    <3>1. \A s \in D(n) : s \in D(n + 1)
      BY <1>a
    <3>2. \A s \in D(n) : g[s] = Body(g, s)
      BY <2>1
    <3> QED BY <3>1, <3>2
  <2>3. ASSUME NEW s \in D(n + 1) PROVE Body(g, s) = Body(h, s)
    <3>1. CASE s = {}
      BY <3>1
    <3>2. CASE s # {}
      <4>1. Pick(s) \in s
        BY <3>2, Picked
      <4>2. s \ {Pick(s)} \in D(n)
        BY <1>a, <4>1, Smaller
      <4> QED BY <2>2, <4>2
    <3> QED BY <3>1, <3>2
  <2>4. h = [s \in D(n + 1) |-> Body(h, s)]
    BY <2>3
  <2> HIDE DEF h
  <2> QED BY <2>4
<1> HIDE DEF Has
<1>3. T = {}
  <2> SUFFICES ASSUME T # {} PROVE FALSE
    OBVIOUS
  <2>1. PICK n \in T : \A m \in T : n <= m
    <3>1. T \subseteq Nat
      OBVIOUS
    <3> HIDE DEF T
    <3> QED BY <3>1, Smallest
  <2>2. n \in Nat /\ ~Has(n) /\ n # 0
    BY <1>1, <2>1
  <2>3. n - 1 \in Nat /\ ~(n - 1 \in T)
    BY <2>1, <2>2
  <2>4. Has(n - 1)
    BY <2>3
  <2> QED BY <1>2, <2>2, <2>3, <2>4
<1>4. Cardinality(S) \in Nat /\ SUBSET S = D(Cardinality(S))
  BY <1>a, FS_Subset
<1>5. Has(Cardinality(S))
  BY <1>3, <1>4
<1> QED BY <1>4, <1>5 DEF Has, IsSum

(* What the function says of one set.                                      *)
LEMMA SumOne ==
  ASSUME NEW g, NEW w, NEW S, IsSum(g, w, S)
  PROVE  \A s \in SUBSET S :
           /\ s = {} => g[s] = 0
           /\ s # {} => g[s] = w[Pick(s)] + g[s \ {Pick(s)}]
BY DEF IsSum

(* A sum of integers is an integer.                                        *)
LEMMA SumType ==
  ASSUME NEW g, NEW w, NEW S, IsFiniteSet(S), IsSum(g, w, S),
         \A x \in S : w[x] \in Int
  PROVE  \A s \in SUBSET S : g[s] \in Int
<1> DEFINE Bad(s) == s \in SUBSET S /\ ~(g[s] \in Int)
           T == {n \in Nat : \E s : Bad(s) /\ Cardinality(s) = n}
<1> HIDE DEF Bad, T
<1>a. \A s \in SUBSET S : IsFiniteSet(s) /\ Cardinality(s) \in Nat
  BY FS_Subset, FS_CardinalityType
<1>b. \A s \in SUBSET S : /\ s = {} => g[s] = 0
                          /\ s # {} => g[s] = w[Pick(s)] + g[s \ {Pick(s)}]
  BY SumOne
<1>1. T = {}
  <2> SUFFICES ASSUME T # {} PROVE FALSE
    OBVIOUS
  <2>1. PICK n \in T : \A m \in T : n <= m
    <3>1. T \subseteq Nat
      BY DEF T
    <3> QED BY <3>1, Smallest
  <2>2. PICK s \in SUBSET S : ~(g[s] \in Int) /\ Cardinality(s) = n
    BY <2>1 DEF Bad, T
  <2>3. s # {} /\ g[s] = w[Pick(s)] + g[s \ {Pick(s)}]
    <3>1. s = {} => g[s] = 0
      BY <1>b
    <3>2. s # {}
      BY <2>2, <3>1
    <3> QED BY <1>b, <3>2
  <2>4. Pick(s) \in s
    BY <2>3, Picked
  <2>5. /\ s \ {Pick(s)} \in SUBSET S
        /\ Cardinality(s \ {Pick(s)}) = n - 1 /\ n - 1 \in Nat
    <3>1. IsFiniteSet(s)
      BY <1>a
    <3> QED BY <2>2, <2>4, <3>1, Smaller
  <2>6. ~(n - 1 \in T)
    <3>1. n \in Nat
      BY <2>1 DEF T
    <3>2. n - 1 \in T => n <= n - 1
      BY <2>1
    <3> QED BY <3>1, <3>2
  <2>7. g[s \ {Pick(s)}] \in Int
    BY <2>5, <2>6 DEF T, Bad
  <2> QED BY <2>2, <2>3, <2>4, <2>7
<1> QED BY <1>a, <1>1 DEF T, Bad

(* Two sums over the same set of terms that agree are equal.               *)
LEMMA SumAgree ==
  ASSUME NEW g, NEW w, NEW S, IsSum(g, w, S),
         NEW h, NEW v, NEW T, IsSum(h, v, T),
         NEW U, IsFiniteSet(U), U \subseteq S, U \subseteq T,
         \A x \in U : w[x] = v[x]
  PROVE  g[U] = h[U]
<1> DEFINE Bad(s) == s \in SUBSET U /\ g[s] # h[s]
           B == {n \in Nat : \E s : Bad(s) /\ Cardinality(s) = n}
<1> HIDE DEF Bad, B
<1>a. \A s \in SUBSET U : IsFiniteSet(s) /\ Cardinality(s) \in Nat
  BY FS_Subset, FS_CardinalityType
<1>1. B = {}
  <2> SUFFICES ASSUME B # {} PROVE FALSE
    OBVIOUS
  <2>1. PICK n \in B : \A m \in B : n <= m
    <3>1. B \subseteq Nat
      BY DEF B
    <3> QED BY <3>1, Smallest
  <2>2. PICK s \in SUBSET U : g[s] # h[s] /\ Cardinality(s) = n
    BY <2>1 DEF Bad, B
  <2>3. s \in SUBSET S /\ s \in SUBSET T
    BY <2>2
  <2>4. s # {}
    BY <2>2, <2>3, SumOne
  <2>5. /\ g[s] = w[Pick(s)] + g[s \ {Pick(s)}]
        /\ h[s] = v[Pick(s)] + h[s \ {Pick(s)}]
    BY <2>3, <2>4, SumOne
  <2>6. Pick(s) \in s
    BY <2>4, Picked
  <2>7. /\ s \ {Pick(s)} \in SUBSET U
        /\ Cardinality(s \ {Pick(s)}) = n - 1 /\ n - 1 \in Nat
    <3>1. IsFiniteSet(s) /\ s \ {Pick(s)} \in SUBSET U
      BY <1>a
    <3>2. /\ Cardinality(s \ {Pick(s)}) = Cardinality(s) - 1
          /\ Cardinality(s \ {Pick(s)}) \in Nat
      BY <2>6, <3>1, Smaller
    <3> QED BY <2>2, <3>1, <3>2
  <2>8. ~(n - 1 \in B)
    <3>1. n \in Nat
      BY <2>1 DEF B
    <3>2. n - 1 \in B => n <= n - 1
      BY <2>1
    <3> QED BY <3>1, <3>2
  <2>9. g[s \ {Pick(s)}] = h[s \ {Pick(s)}]
    BY <2>7, <2>8 DEF B, Bad
  <2> QED BY <2>2, <2>5, <2>6, <2>9
<1> QED BY <1>a, <1>1 DEF B, Bad

(* Any element may be taken first.                                         *)
LEMMA SumSplit ==
  ASSUME NEW g, NEW w, NEW S, IsFiniteSet(S), IsSum(g, w, S),
         \A x \in S : w[x] \in Int
  PROVE  \A s \in SUBSET S : \A x \in s : g[s] = w[x] + g[s \ {x}]
<1> DEFINE Bad(s) == s \in SUBSET S /\ \E x \in s : g[s] # w[x] + g[s \ {x}]
           B == {n \in Nat : \E s : Bad(s) /\ Cardinality(s) = n}
<1> HIDE DEF Bad, B
<1>a. \A s \in SUBSET S : IsFiniteSet(s) /\ Cardinality(s) \in Nat
  BY FS_Subset, FS_CardinalityType
<1>b. \A s \in SUBSET S : /\ s = {} => g[s] = 0
                          /\ s # {} => g[s] = w[Pick(s)] + g[s \ {Pick(s)}]
  BY SumOne
<1>1. B = {}
  <2> SUFFICES ASSUME B # {} PROVE FALSE
    OBVIOUS
  <2>1. PICK n \in B : \A m \in B : n <= m
    <3>1. B \subseteq Nat
      BY DEF B
    <3> QED BY <3>1, Smallest
  <2>2. PICK s \in SUBSET S :
           Cardinality(s) = n /\ \E x \in s : g[s] # w[x] + g[s \ {x}]
    BY <2>1 DEF Bad, B
  <2>3. PICK x \in s : g[s] # w[x] + g[s \ {x}]
    BY <2>2
  <2> DEFINE p == Pick(s)
  <2>4. p \in s /\ g[s] = w[p] + g[s \ {p}]
    BY <1>b, <2>3, Picked
  <2> HIDE DEF p
  <2>5. p # x
    BY <2>3, <2>4
  <2>6. ~(n - 1 \in B)
    <3>1. n \in Nat
      BY <2>1 DEF B
    <3>2. n - 1 \in B => n <= n - 1
      BY <2>1
    <3> QED BY <3>1, <3>2
  <2>7. ASSUME NEW y \in s
        PROVE  s \ {y} \in SUBSET S /\ \A z \in s \ {y} : g[s \ {y}] = w[z] + g[(s \ {y}) \ {z}]
    <3>1. /\ s \ {y} \in SUBSET S
          /\ Cardinality(s \ {y}) = n - 1 /\ n - 1 \in Nat
      <4>1. IsFiniteSet(s)
        BY <1>a
      <4> QED BY <2>2, <4>1, Smaller
    <3> QED BY <2>6, <3>1 DEF B, Bad
  <2> DEFINE d == g[(s \ {p}) \ {x}]
  <2>8. g[s \ {p}] = w[x] + d
    BY <2>4, <2>5, <2>7
  <2>9. g[s \ {x}] = w[p] + d
    <3>1. (s \ {p}) \ {x} = (s \ {x}) \ {p}
      OBVIOUS
    <3> QED BY <2>4, <2>5, <2>7, <3>1
  <2>10. w[p] \in Int /\ w[x] \in Int
    BY <2>2, <2>4
  <2>11. d \in Int
    <3>1. (s \ {p}) \ {x} \in SUBSET S
      OBVIOUS
    <3> QED BY <3>1, SumType
  <2> HIDE DEF d
  <2>12. w[p] + (w[x] + d) = w[x] + (w[p] + d)
    BY <2>10, <2>11
  <2> QED BY <2>3, <2>4, <2>8, <2>9, <2>12
<1> QED BY <1>a, <1>1 DEF B, Bad

(* A larger set has a larger sum of naturals.                              *)
LEMMA SumMonotone ==
  ASSUME NEW g, NEW w, NEW S, IsFiniteSet(S), IsSum(g, w, S),
         \A x \in S : w[x] \in Nat
  PROVE  \A s \in SUBSET S : \A u \in SUBSET s : g[u] <= g[s]
<1> DEFINE Bad(s) == s \in SUBSET S /\ \E u \in SUBSET s : ~(g[u] <= g[s])
           B == {n \in Nat : \E s : Bad(s) /\ Cardinality(s) = n}
<1> HIDE DEF Bad, B
<1>a. \A s \in SUBSET S : IsFiniteSet(s) /\ Cardinality(s) \in Nat
  BY FS_Subset, FS_CardinalityType
<1>0. \A x \in S : w[x] \in Int
  OBVIOUS
<1>b. \A s \in SUBSET S : g[s] \in Int
  BY <1>0, SumType
<1>c. ASSUME NEW s \in SUBSET S, NEW x \in s
      PROVE  g[s] = w[x] + g[s \ {x}]
  BY <1>0, SumSplit
<1>1. B = {}
  <2> SUFFICES ASSUME B # {} PROVE FALSE
    OBVIOUS
  <2>1. PICK n \in B : \A m \in B : n <= m
    <3>1. B \subseteq Nat
      BY DEF B
    <3> QED BY <3>1, Smallest
  <2>2. PICK s \in SUBSET S :
           Cardinality(s) = n /\ \E u \in SUBSET s : ~(g[u] <= g[s])
    BY <2>1 DEF Bad, B
  <2>3. PICK u \in SUBSET s : ~(g[u] <= g[s])
    BY <2>2
  <2>4. u # s
    BY <1>b, <2>2, <2>3
  <2>5. PICK x \in s : x \notin u
    BY <2>4
  <2>6. s \ {x} \in SUBSET S /\ u \in SUBSET (s \ {x}) /\ u \in SUBSET S
    BY <2>5
  <2>7. Cardinality(s \ {x}) = n - 1 /\ n - 1 \in Nat
    <3>1. IsFiniteSet(s)
      BY <1>a
    <3>2. Cardinality(s \ {x}) = Cardinality(s) - 1 /\ Cardinality(s \ {x}) \in Nat
      BY <2>5, <3>1, Smaller
    <3> QED BY <2>2, <3>2
  <2>8. ~(n - 1 \in B)
    <3>1. n \in Nat
      BY <2>1 DEF B
    <3>2. n - 1 \in B => n <= n - 1
      BY <2>1
    <3> QED BY <3>1, <3>2
  <2>9. g[u] <= g[s \ {x}]
    BY <2>6, <2>7, <2>8 DEF B, Bad
  <2>10. g[s] = w[x] + g[s \ {x}] /\ w[x] \in Nat
    BY <1>c, <2>2
  <2>11. g[u] \in Int /\ g[s \ {x}] \in Int /\ g[s] \in Int
    BY <1>b, <2>6
  <2> QED BY <2>3, <2>9, <2>10, <2>11
<1> QED BY <1>a, <1>1 DEF B, Bad

-----------------------------------------------------------------------------
(* Orders of finite sets.                                                  *)

(* A set of indices has a greatest one and a smallest one.                 *)
LEMMA MaxOfIndices ==
  ASSUME NEW n \in Nat, NEW I \in SUBSET (1 .. n), I # {}
  PROVE  /\ Max(I) \in I /\ \A i \in I : i <= Max(I)
         /\ Min(I) \in I /\ \A i \in I : Min(I) <= i
<1>1. \E m \in I : \A i \in I : m >= i
  <2> DEFINE T == {k \in Nat : \E i \in I : k = n - i}
  <2>1. T \subseteq Nat /\ T # {}
    <3>1. PICK i \in I : TRUE
      OBVIOUS
    <3>2. n - i \in T
      OBVIOUS
    <3> QED BY <3>2
  <2> HIDE DEF T
  <2>2. PICK t \in T : \A u \in T : t <= u
    BY <2>1, Smallest
  <2>3. PICK m \in I : t = n - m
    BY <2>2 DEF T
  <2>4. \A i \in I : n - i \in T
    BY DEF T
  <2>5. \A i \in I : n - m <= n - i
    BY <2>2, <2>3, <2>4
  <2> QED BY <2>5
<1>2. \E m \in I : \A i \in I : m <= i
  <2>1. I \subseteq Nat
    OBVIOUS
  <2> QED BY <2>1, Smallest
<1> QED BY <1>1, <1>2 DEF Max, Min

(* A sequence of SetToSeqs goes through the whole set.                     *)
LEMMA SeqsOnto ==
  ASSUME NEW S, IsFiniteSet(S), NEW p \in SetToSeqs(S)
  PROVE  /\ Cardinality(S) \in Nat /\ DOMAIN p = 1 .. Cardinality(S)
         /\ \A i \in DOMAIN p : p[i] \in S
         /\ \A i, j \in DOMAIN p : p[i] = p[j] => i = j
         /\ \A x \in S : \E i \in DOMAIN p : p[i] = x
<1>1. Cardinality(S) \in Nat
  BY FS_CardinalityType
<1> DEFINE D == 1 .. Cardinality(S)
<1>2. p \in [D -> S] /\ \A i, j \in D : i # j => p[i] # p[j]
  BY DEF SetToSeqs
<1>3. IsFiniteSet(D) /\ Cardinality(D) = Cardinality(S)
  BY <1>1, FS_Interval
<1>4. p \in Injection(D, S)
  BY <1>2 DEF Injection, IsInjective
<1>5. p \in Surjection(D, S)
  BY <1>3, <1>4, FS_Injection
<1> QED BY <1>1, <1>2, <1>5 DEF Surjection

(* A finite set that has elements has one with the least key.              *)
LEMMA LeastKey ==
  ASSUME NEW S, IsFiniteSet(S), S # {}, NEW key, \A x \in S : key[x] \in Int
  PROVE  \E x \in S : \A y \in S : key[x] <= key[y]
<1> DEFINE Has(s) == \E x \in s : \A y \in s : key[x] <= key[y]
           T == {n \in Nat : \E s \in SUBSET S : s # {} /\ Cardinality(s) = n /\ ~Has(s)}
<1>a. \A s \in SUBSET S : IsFiniteSet(s) /\ Cardinality(s) \in Nat
  BY FS_Subset, FS_CardinalityType
<1>1. T = {}
  <2> SUFFICES ASSUME T # {} PROVE FALSE
    OBVIOUS
  <2>1. PICK n \in T : \A m \in T : n <= m
    <3>1. T \subseteq Nat
      OBVIOUS
    <3> HIDE DEF T
    <3> QED BY <3>1, Smallest
  <2>2. PICK s \in SUBSET S : s # {} /\ Cardinality(s) = n /\ ~Has(s)
    BY <2>1
  <2>3. PICK z \in s : TRUE
    BY <2>2
  <2>4. /\ s \ {z} \in SUBSET S /\ Cardinality(s \ {z}) = n - 1 /\ n - 1 \in Nat
    <3>1. /\ Cardinality(s \ {z}) = Cardinality(s) - 1
          /\ Cardinality(s \ {z}) \in Nat
      BY <1>a, Smaller
    <3> QED BY <2>2, <3>1
  <2>5. n - 1 \notin T
    BY <2>1, <2>4
  <2>6. s \ {z} = {} \/ Has(s \ {z})
    BY <2>4, <2>5
  <2>7. CASE s \ {z} = {}
    <3>1. \A y \in s : y = z
      BY <2>7
    <3> QED BY <2>2, <2>3, <3>1
  <2>8. CASE Has(s \ {z})
    <3>1. PICK x \in s \ {z} : \A y \in s \ {z} : key[x] <= key[y]
      BY <2>8
    <3>2. \A y \in s : key[y] \in Int
      BY <2>2
    <3>3. CASE key[x] <= key[z]
      BY <2>2, <3>1, <3>3
    <3>4. CASE ~(key[x] <= key[z])
      <4>1. key[z] <= key[x] /\ key[z] <= key[z]
        BY <2>3, <3>1, <3>2, <3>4
      <4>2. \A y \in s : key[z] <= key[y]
        BY <2>3, <3>1, <3>2, <4>1
      <4> QED BY <2>2, <2>3, <4>2
    <3> QED BY <3>3, <3>4
  <2> QED BY <2>6, <2>7, <2>8
<1>2. Has(S)
  <2>1. S \in SUBSET S /\ Cardinality(S) \in Nat
    BY <1>a
  <2> QED BY <1>1, <2>1
<1> QED BY <1>2

(* A finite set can be sorted by any key.                                  *)
LEMMA SortedExists ==
  ASSUME NEW S, IsFiniteSet(S), NEW key, \A x \in S : key[x] \in Int
  PROVE  \E p \in SetToSeqs(S) : \A i, j \in DOMAIN p : i < j => key[p[i]] <= key[p[j]]
<1> DEFINE Has(s) == \E p \in SetToSeqs(s) : \A i, j \in DOMAIN p : i < j => key[p[i]] <= key[p[j]]
           T == {n \in Nat : \E s \in SUBSET S : Cardinality(s) = n /\ ~Has(s)}
<1>a. \A s \in SUBSET S : IsFiniteSet(s) /\ Cardinality(s) \in Nat
  BY FS_Subset, FS_CardinalityType
<1>1. Has({})
  <2> DEFINE p == [i \in 1 .. 0 |-> 0]
  <2>1. Cardinality({}) = 0
    BY FS_EmptySet
  <2>2. p \in SetToSeqs({})
    BY <2>1 DEF SetToSeqs
  <2>3. DOMAIN p = {}
    OBVIOUS
  <2> HIDE DEF p
  <2> QED BY <2>2, <2>3
<1>2. ASSUME NEW s \in SUBSET S, NEW x \in s, \A y \in s : key[x] <= key[y], Has(s \ {x})
      PROVE  Has(s)
  <2>1. PICK q \in SetToSeqs(s \ {x}) : \A i, j \in DOMAIN q : i < j => key[q[i]] <= key[q[j]]
    BY <1>2
  <2>2. /\ IsFiniteSet(s \ {x}) /\ Cardinality(s \ {x}) = Cardinality(s) - 1
        /\ Cardinality(s) \in Nat /\ Cardinality(s \ {x}) \in Nat
    BY <1>a, Smaller
  <2> DEFINE n == Cardinality(s)
             p == [i \in 1 .. n |-> IF i = 1 THEN x ELSE q[i - 1]]
  <2>3. /\ DOMAIN q = 1 .. n - 1 /\ n \in Nat \ {0}
        /\ \A i \in DOMAIN q : q[i] \in s \ {x}
        /\ \A i, j \in DOMAIN q : q[i] = q[j] => i = j
    BY <2>1, <2>2, SeqsOnto
  <2> HIDE DEF n
  <2>4. \A i \in 2 .. n : i - 1 \in DOMAIN q /\ p[i] = q[i - 1]
    BY <2>3
  <2>5. p[1] = x /\ 1 \in 1 .. n
    BY <2>3
  <2>6. DOMAIN p = 1 .. n
    OBVIOUS
  <2>7. p = [i \in 1 .. n |-> p[i]]
    OBVIOUS
  <2> HIDE DEF p
  <2>8. \A i \in 1 .. n : i = 1 \/ i \in 2 .. n
    BY <2>3
  <2>9. \A i \in 1 .. n : p[i] \in s
    BY <2>3, <2>4, <2>5, <2>8
  <2>10. ASSUME NEW i \in 1 .. n, NEW j \in 1 .. n, i < j
         PROVE  p[i] # p[j] /\ key[p[i]] <= key[p[j]]
    <3>1. j \in 2 .. n /\ j - 1 \in DOMAIN q /\ p[j] = q[j - 1]
      BY <2>3, <2>4, <2>10
    <3>2. CASE i = 1
      BY <1>2, <2>3, <2>5, <3>1, <3>2
    <3>3. CASE i \in 2 .. n
      <4>1. i - 1 \in DOMAIN q /\ p[i] = q[i - 1] /\ i - 1 < j - 1
        BY <2>3, <2>4, <2>10, <3>3
      <4> QED BY <2>1, <2>3, <3>1, <4>1
    <3> QED BY <2>8, <3>2, <3>3
  <2>11. p \in [1 .. n -> s]
    BY <2>7, <2>9
  <2>12. \A i, j \in 1 .. n : i # j => p[i] # p[j]
    BY <2>3, <2>10
  <2>13. p \in SetToSeqs(s)
    BY <2>11, <2>12 DEF SetToSeqs, n
  <2> QED BY <2>6, <2>10, <2>13
<1> HIDE DEF Has
<1>3. T = {}
  <2> SUFFICES ASSUME T # {} PROVE FALSE
    OBVIOUS
  <2>1. PICK n \in T : \A m \in T : n <= m
    <3>1. T \subseteq Nat
      OBVIOUS
    <3> HIDE DEF T
    <3> QED BY <3>1, Smallest
  <2>2. PICK s \in SUBSET S : Cardinality(s) = n /\ ~Has(s)
    BY <2>1
  <2>3. s # {}
    BY <1>1, <2>2
  <2>4. PICK x \in s : \A y \in s : key[x] <= key[y]
    BY <1>a, <2>3, LeastKey
  <2>5. /\ s \ {x} \in SUBSET S /\ Cardinality(s \ {x}) = n - 1 /\ n - 1 \in Nat
    <3>1. /\ Cardinality(s \ {x}) = Cardinality(s) - 1
          /\ Cardinality(s \ {x}) \in Nat
      BY <1>a, Smaller
    <3> QED BY <2>2, <3>1
  <2>6. n - 1 \notin T
    BY <2>1, <2>5
  <2>7. Has(s \ {x})
    BY <2>5, <2>6
  <2> QED BY <1>2, <2>2, <2>4, <2>7
<1>4. Has(S)
  BY <1>3, <1>a
<1> QED BY <1>4 DEF Has
=============================================================================
