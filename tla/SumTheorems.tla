----------------------------- MODULE SumTheorems -----------------------------
(***************************************************************************)
(* Sums of a function over a finite set, as SumFunctionOnSet of the        *)
(* community modules computes them by recursion over the subsets.  The     *)
(* induction over finite sets is stated with a set in place of a predicate. *)
(***************************************************************************)
EXTENDS Integers, FiniteSets, FiniteSetsExt, FiniteSetTheorems, WellFoundedInduction, TLAPS

-----------------------------------------------------------------------------
(* Induction *)

LEMMA LeastNatural ==
    ASSUME NEW B \in SUBSET Nat, B # {}
    PROVE  \E n \in B : \A m \in B : n <= m
<1>1. IsWellFoundedOn(OpToRel(<, Nat), Nat)
  BY NatLessThanWellFounded
<1>2. PICK n \in B : \A m \in B : ~ (<<m, n>> \in OpToRel(<, Nat))
  BY <1>1, WFMin
<1>3. ASSUME NEW m \in B, m < n PROVE FALSE
  <2>1. <<m, n>> \in OpToRel(<, Nat)
    BY <1>3 DEF OpToRel
  <2> QED BY <1>2, <2>1
<1> QED BY <1>3

\* A family of subsets that has the empty set, and with a set the set with one
\* more element, has them all.
LEMMA FiniteInduction ==
    ASSUME NEW S, IsFiniteSet(S), NEW Q \in SUBSET SUBSET S, {} \in Q,
           \A s \in Q : \A x \in S \ s : s \cup {x} \in Q
    PROVE  Q = SUBSET S
<1> DEFINE B == {n \in Nat : \E s \in (SUBSET S) \ Q : Cardinality(s) = n}
<1>1. \A s \in SUBSET S : IsFiniteSet(s) /\ Cardinality(s) \in Nat
  BY FS_Subset, FS_CardinalityType
<1>2. SUFFICES ASSUME B # {} PROVE FALSE
  BY <1>1
<1>3. PICK n \in B : \A m \in B : n <= m
  BY <1>2, LeastNatural
<1>4. PICK s \in (SUBSET S) \ Q : Cardinality(s) = n
  BY <1>3
<1>5. PICK x \in s : TRUE
  BY <1>4
<1>6. Cardinality(s \ {x}) = n - 1 /\ n - 1 \in Nat
  <2>1. IsFiniteSet(s)
    BY <1>1, <1>4
  <2>2. Cardinality(s \ {x}) = n - 1
    BY <1>4, <1>5, <2>1, FS_RemoveElement
  <2>3. s \ {x} \in SUBSET S
    BY <1>4
  <2>4. Cardinality(s \ {x}) \in Nat
    BY <1>1, <2>3
  <2> QED BY <2>2, <2>4
<1>7. s \ {x} \in Q
  <2>1. s \ {x} \in SUBSET S /\ ~ (n <= n - 1)
    BY <1>3
  <2> QED BY <1>3, <1>6, <2>1
<1>8. (s \ {x}) \cup {x} \in Q /\ (s \ {x}) \cup {x} = s
  BY <1>4, <1>5, <1>7
<1> QED BY <1>4, <1>8

-----------------------------------------------------------------------------
(* The recursion *)

Some(s) == CHOOSE x \in s : TRUE

\* The sums of the subsets of S in D, each from a smaller one.
Recursion(f, D, g) ==
    g = [s \in D |-> IF s = {} THEN 0 ELSE f[Some(s)] + g[s \ {Some(s)}]]

LEMMA RecursionExists ==
    ASSUME NEW f, NEW S, IsFiniteSet(S)
    PROVE  \E g : Recursion(f, SUBSET S, g)
<1> DEFINE D(n) == {s \in SUBSET S : Cardinality(s) <= n}
           B == {n \in Nat : ~ \E g : Recursion(f, D(n), g)}
<1>1. \A s \in SUBSET S : /\ IsFiniteSet(s) /\ Cardinality(s) \in Nat
                          /\ Cardinality(s) <= Cardinality(S)
  BY FS_Subset, FS_CardinalityType
<1>2. B = {}
  <2>1. SUFFICES ASSUME B # {} PROVE FALSE
    OBVIOUS
  <2>2. PICK n \in B : \A m \in B : n <= m
    BY <2>1, LeastNatural
  <2>3. CASE n = 0
    <3>1. \A s \in D(0) : s = {}
      BY <1>1, FS_EmptySet
    <3>2. Recursion(f, D(0), [s \in D(0) |-> 0])
      BY <3>1 DEF Recursion
    <3> QED BY <2>2, <2>3, <3>2
  <2>4. CASE n # 0
    <3>1. n - 1 \in Nat /\ n - 1 \notin B
      <4>1. n - 1 \in Nat /\ ~ (n <= n - 1)
        BY <2>2, <2>4
      <4> QED BY <2>2, <4>1
    <3>2. PICK g : Recursion(f, D(n - 1), g)
      BY <3>1
    <3> DEFINE h == [s \in D(n) |-> IF s = {} THEN 0 ELSE f[Some(s)] + g[s \ {Some(s)}]]
    <3>3. ASSUME NEW s \in D(n), s # {}
          PROVE  s \ {Some(s)} \in D(n - 1) /\ s \ {Some(s)} \in D(n)
      <4>1. Some(s) \in s
        BY <3>3 DEF Some
      <4>2. Cardinality(s \ {Some(s)}) = Cardinality(s) - 1
        BY <1>1, <4>1, FS_RemoveElement
      <4>3. s \ {Some(s)} \in SUBSET S /\ Cardinality(s) \in Nat /\ Cardinality(s) <= n /\ n \in Nat
        BY <1>1, <2>2
      <4> QED BY <4>2, <4>3
    <3>4. \A s \in D(n - 1) : s \in D(n) /\ h[s] = g[s]
      <4>1. \A s \in D(n - 1) : s \in D(n)
        BY <1>1, <2>2
      <4>2. \A s \in D(n - 1) : g[s] = IF s = {} THEN 0 ELSE f[Some(s)] + g[s \ {Some(s)}]
        <5> HIDE DEF D
        <5> QED BY <3>2 DEF Recursion
      <4> HIDE DEF D
      <4> QED BY <4>1, <4>2
    <3>5. Recursion(f, D(n), h)
      <4> HIDE DEF D
      <4> QED BY <3>3, <3>4 DEF Recursion
    <3> HIDE DEF h
    <3> QED BY <2>2, <3>5
  <2> QED BY <2>3, <2>4
<1>3. D(Cardinality(S)) = SUBSET S /\ Cardinality(S) \in Nat
  BY <1>1, FS_CardinalityType
<1>4. Cardinality(S) \notin B
  BY <1>2
<1>5. \E g : Recursion(f, D(Cardinality(S)), g)
  BY <1>3, <1>4
<1> QED BY <1>3, <1>5

LEMMA SumRecursion ==
    ASSUME NEW f, NEW S, IsFiniteSet(S)
    PROVE  \E g : Recursion(f, SUBSET S, g) /\ SumFunctionOnSet(f, S) = g[S]
<1>1. \E g : Recursion(f, SUBSET S, g)
  BY RecursionExists
<1> QED
  BY <1>1 DEF Recursion, Some, SumFunctionOnSet, FoldFunctionOnSet, MapThenFoldSet

\* Whatever the set they are computed within.
LEMMA RecursionTells ==
    ASSUME NEW f, NEW S, IsFiniteSet(S), NEW g, Recursion(f, SUBSET S, g), NEW T \in SUBSET S
    PROVE  SumFunctionOnSet(f, T) = g[T]
<1>1. IsFiniteSet(T)
  BY FS_Subset
<1>2. PICK h : Recursion(f, SUBSET T, h) /\ SumFunctionOnSet(f, T) = h[T]
  BY <1>1, SumRecursion
<1> DEFINE B == {n \in Nat : \E s \in SUBSET T : Cardinality(s) = n /\ g[s] # h[s]}
<1>3. \A s \in SUBSET T : IsFiniteSet(s) /\ Cardinality(s) \in Nat
  BY <1>1, FS_Subset, FS_CardinalityType
<1>4. \A s \in SUBSET T : /\ g[s] = IF s = {} THEN 0 ELSE f[Some(s)] + g[s \ {Some(s)}]
                          /\ h[s] = IF s = {} THEN 0 ELSE f[Some(s)] + h[s \ {Some(s)}]
  <2>1. \A s \in SUBSET S : g[s] = IF s = {} THEN 0 ELSE f[Some(s)] + g[s \ {Some(s)}]
    BY DEF Recursion
  <2>2. \A s \in SUBSET T : h[s] = IF s = {} THEN 0 ELSE f[Some(s)] + h[s \ {Some(s)}]
    BY <1>2 DEF Recursion
  <2>3. \A s \in SUBSET T : s \in SUBSET S
    OBVIOUS
  <2> QED BY <2>1, <2>2, <2>3
<1>5. B = {}
  <2>1. SUFFICES ASSUME B # {} PROVE FALSE
    OBVIOUS
  <2>2. PICK n \in B : \A m \in B : n <= m
    BY <2>1, LeastNatural
  <2>3. PICK s \in SUBSET T : Cardinality(s) = n /\ g[s] # h[s]
    BY <2>2
  <2>4. s # {}
    BY <1>4, <2>3
  <2> DEFINE t == s \ {Some(s)}
  <2>5. t \in SUBSET T /\ Cardinality(t) = n - 1 /\ n - 1 \in Nat
    <3>1. Some(s) \in s
      BY <2>4 DEF Some
    <3>2. Cardinality(t) = n - 1 /\ Cardinality(t) \in Nat
      BY <1>3, <2>3, <3>1, FS_RemoveElement, FS_CardinalityType
    <3> QED BY <3>2
  <2>6. g[t] = h[t]
    <3>1. n - 1 \notin B
      <4>1. n \in Nat /\ ~ (n <= n - 1)
        BY <2>2
      <4> QED BY <2>2, <4>1
    <3> QED BY <2>5, <3>1
  <2> QED BY <1>4, <2>3, <2>4, <2>6
<1>6. g[T] = h[T]
  BY <1>3, <1>5
<1> QED BY <1>2, <1>6

-----------------------------------------------------------------------------
(* What sums are: any element may be taken first. *)

THEOREM SumOfNone ==
    ASSUME NEW f
    PROVE  SumFunctionOnSet(f, {}) = 0
<1>1. PICK g : Recursion(f, SUBSET {}, g) /\ SumFunctionOnSet(f, {}) = g[{}]
  BY FS_EmptySet, SumRecursion
<1> QED BY <1>1 DEF Recursion

LEMMA SumOfSome ==
    ASSUME NEW f, NEW S, IsFiniteSet(S), S # {}
    PROVE  Some(S) \in S /\ SumFunctionOnSet(f, S) = f[Some(S)] + SumFunctionOnSet(f, S \ {Some(S)})
<1>1. PICK g : Recursion(f, SUBSET S, g) /\ SumFunctionOnSet(f, S) = g[S]
  BY SumRecursion
<1>2. SumFunctionOnSet(f, S \ {Some(S)}) = g[S \ {Some(S)}]
  BY <1>1, RecursionTells
<1>3. g[S] = f[Some(S)] + g[S \ {Some(S)}]
  BY <1>1 DEF Recursion
<1> QED BY <1>1, <1>2, <1>3 DEF Some

THEOREM SumWithout ==
    ASSUME NEW S, IsFiniteSet(S), NEW f, \A x \in S : f[x] \in Int, NEW x \in S
    PROVE  /\ SumFunctionOnSet(f, S) \in Int
           /\ SumFunctionOnSet(f, S) = f[x] + SumFunctionOnSet(f, S \ {x})
<1> DEFINE Sum(s) == SumFunctionOnSet(f, s)
           Q == {s \in SUBSET S : /\ Sum(s) \in Int
                                  /\ \A y \in s : Sum(s) = f[y] + Sum(s \ {y})}
           B == {n \in Nat : \E s \in (SUBSET S) \ Q : Cardinality(s) = n}
<1>1. \A s \in SUBSET S : IsFiniteSet(s) /\ Cardinality(s) \in Nat
  BY FS_Subset, FS_CardinalityType
<1>2. B = {}
  <2>1. SUFFICES ASSUME B # {} PROVE FALSE
    OBVIOUS
  <2>2. PICK n \in B : \A m \in B : n <= m
    BY <2>1, LeastNatural
  <2>3. PICK s \in (SUBSET S) \ Q : Cardinality(s) = n
    BY <2>2
  <2>4. ASSUME NEW t \in SUBSET S, Cardinality(t) < n PROVE t \in Q
    BY <1>1, <2>2, <2>4
  <2>5. ASSUME NEW t \in SUBSET s, NEW y \in t
        PROVE  Cardinality(t \ {y}) < Cardinality(t) /\ Cardinality(t) <= n
    <3>1. IsFiniteSet(t) /\ Cardinality(t) \in Nat /\ IsFiniteSet(s)
      BY <1>1, <2>3
    <3>2. Cardinality(t \ {y}) = Cardinality(t) - 1
      BY <3>1, FS_RemoveElement
    <3>3. Cardinality(t) <= n
      BY <2>3, <3>1, FS_Subset
    <3> QED BY <3>1, <3>2, <3>3
  <2>6. s # {}
    <3>1. Sum({}) = 0
      BY SumOfNone
    <3> QED BY <2>3, <3>1
  <2> DEFINE c == Some(s)
  <2>7. c \in s /\ Sum(s) = f[c] + Sum(s \ {c})
    BY <1>1, <2>3, <2>6, SumOfSome
  <2>8. s \ {c} \in Q /\ Sum(s) \in Int
    <3>1. s \ {c} \in SUBSET S /\ Cardinality(s \ {c}) < n
      BY <2>3, <2>5, <2>7
    <3>2. s \ {c} \in Q
      BY <2>4, <3>1
    <3>3. Sum(s \ {c}) \in Int /\ f[c] \in Int
      BY <2>3, <2>7, <3>2
    <3> HIDE DEF Sum, Q, c
    <3> QED BY <2>7, <3>2, <3>3
  <2>9. ASSUME NEW y \in s PROVE Sum(s) = f[y] + Sum(s \ {y})
    <3>1. CASE y = c
      BY <2>7, <3>1
    <3>2. CASE y # c
      <4>1. y \in s \ {c} /\ c \in s \ {y} /\ (s \ {c}) \ {y} = (s \ {y}) \ {c}
        BY <2>7, <3>2
      <4>2. s \ {y} \in SUBSET S /\ Cardinality(s \ {y}) < n
        BY <2>3, <2>5
      <4>3. s \ {y} \in Q
        BY <2>4, <4>2
      <4>4. Sum(s \ {c}) = f[y] + Sum((s \ {c}) \ {y})
        BY <2>8, <4>1
      <4>5. Sum(s \ {y}) = f[c] + Sum((s \ {y}) \ {c})
        BY <4>1, <4>3
      <4>6. (s \ {c}) \ {y} \in SUBSET S /\ Cardinality((s \ {c}) \ {y}) < n
        <5>1. s \ {c} \in SUBSET s /\ Cardinality(s \ {c}) < n
          BY <2>3, <2>5, <2>7
        <5>2. Cardinality((s \ {c}) \ {y}) < Cardinality(s \ {c})
          BY <2>5, <4>1, <5>1
        <5>3. Cardinality(s \ {c}) \in Nat /\ Cardinality((s \ {c}) \ {y}) \in Nat /\ n \in Nat
          BY <1>1, <2>2, <2>3
        <5> QED BY <2>3, <5>1, <5>2, <5>3
      <4>7. Sum((s \ {c}) \ {y}) \in Int /\ f[y] \in Int /\ f[c] \in Int
        <5>1. (s \ {c}) \ {y} \in Q
          BY <2>4, <4>6
        <5> QED BY <2>3, <2>7, <5>1
      <4> HIDE DEF Sum, Q, B, c
      <4>8. Sum(s) = f[c] + (f[y] + Sum((s \ {c}) \ {y}))
        BY <2>7, <4>4
      <4>9. Sum(s \ {y}) = f[c] + Sum((s \ {c}) \ {y})
        BY <4>1, <4>5
      <4> QED BY <4>7, <4>8, <4>9
    <3> QED BY <3>1, <3>2
  <2> QED BY <2>3, <2>8, <2>9
<1>3. S \in Q
  <2>1. S \in SUBSET S /\ Cardinality(S) \in Nat
    BY <1>1
  <2> QED BY <1>2, <2>1
<1> QED BY <1>3

LEMMA SumIsInteger ==
    ASSUME NEW S, IsFiniteSet(S), NEW f, \A x \in S : f[x] \in Int
    PROVE  SumFunctionOnSet(f, S) \in Int
<1>1. CASE S = {}
  BY <1>1, SumOfNone
<1>2. ASSUME NEW x \in S PROVE SumFunctionOnSet(f, S) \in Int
  BY SumWithout
<1> QED BY <1>1, <1>2

\* One more element adds its value.
THEOREM SumWith ==
    ASSUME NEW S, IsFiniteSet(S), NEW f, NEW x, x \notin S, \A y \in S \cup {x} : f[y] \in Int
    PROVE  /\ SumFunctionOnSet(f, S) \in Int
           /\ SumFunctionOnSet(f, S \cup {x}) = SumFunctionOnSet(f, S) + f[x]
<1>1. IsFiniteSet(S \cup {x}) /\ (S \cup {x}) \ {x} = S
  BY FS_AddElement
<1>2. /\ SumFunctionOnSet(f, S \cup {x}) \in Int
      /\ SumFunctionOnSet(f, S \cup {x}) = f[x] + SumFunctionOnSet(f, S)
  BY <1>1, SumWithout
<1>3. SumFunctionOnSet(f, S) \in Int
  BY SumIsInteger
<1> QED BY <1>2, <1>3

LEMMA SumStep ==
    ASSUME NEW S, IsFiniteSet(S), NEW f, \A y \in S : f[y] \in Int,
           NEW s \in SUBSET S, NEW x \in S \ s
    PROVE  /\ SumFunctionOnSet(f, s) \in Int
           /\ SumFunctionOnSet(f, s \cup {x}) = SumFunctionOnSet(f, s) + f[x]
<1>1. IsFiniteSet(s) /\ x \notin s /\ \A y \in s \cup {x} : f[y] \in Int
  BY FS_Subset
<1> QED BY <1>1, SumWith

LEMMA SumSteps ==
    ASSUME NEW S, IsFiniteSet(S), NEW f, \A y \in S : f[y] \in Int
    PROVE  \A s \in SUBSET S : \A x \in S \ s :
             /\ SumFunctionOnSet(f, s) \in Int
             /\ SumFunctionOnSet(f, s \cup {x}) = SumFunctionOnSet(f, s) + f[x]
<1> TAKE s \in SUBSET S
<1> TAKE x \in S \ s
<1> QED BY SumStep

\* Sums of naturals are naturals, and no sum of a part exceeds the whole.
THEOREM SumOfNaturals ==
    ASSUME NEW S, IsFiniteSet(S), NEW f, \A x \in S : f[x] \in Nat, NEW T \in SUBSET S
    PROVE  /\ SumFunctionOnSet(f, T) \in Nat /\ SumFunctionOnSet(f, S) \in Nat
           /\ SumFunctionOnSet(f, T) <= SumFunctionOnSet(f, S)
<1> DEFINE Q == {s \in SUBSET (S \ T) : /\ SumFunctionOnSet(f, T \cup s) \in Nat
                                        /\ SumFunctionOnSet(f, T) <= SumFunctionOnSet(f, T \cup s)}
           P == {s \in SUBSET T : SumFunctionOnSet(f, s) \in Nat}
<1>1. IsFiniteSet(T) /\ IsFiniteSet(S \ T)
  BY FS_Subset
<1>2. P = SUBSET T
  <2>1. {} \in P
    BY SumOfNone
  <2>2. ASSUME NEW s \in P, NEW x \in T \ s PROVE s \cup {x} \in P
    <3>1. IsFiniteSet(s) /\ x \notin s /\ \A y \in s \cup {x} : f[y] \in Int
      BY <1>1, FS_Subset
    <3>2. SumFunctionOnSet(f, s \cup {x}) = SumFunctionOnSet(f, s) + f[x]
      BY <3>1, SumWith
    <3> QED BY <3>2
  <2> HIDE DEF P
  <2>3. P \in SUBSET SUBSET T
    BY DEF P
  <2> QED BY <1>1, <2>1, <2>2, <2>3, FiniteInduction
<1>3. SumFunctionOnSet(f, T) \in Nat
  BY <1>2
<1>4. Q = SUBSET (S \ T)
  <2>1. {} \in Q
    BY <1>3
  <2>2. ASSUME NEW s \in Q, NEW x \in (S \ T) \ s PROVE s \cup {x} \in Q
    <3>1. IsFiniteSet(T \cup s) /\ x \notin T \cup s /\ (T \cup s) \cup {x} = T \cup (s \cup {x})
      <4>1. T \cup s \in SUBSET S
        OBVIOUS
      <4> QED BY <4>1, FS_Subset
    <3>2. \A y \in (T \cup s) \cup {x} : f[y] \in Int
      OBVIOUS
    <3>3. SumFunctionOnSet(f, (T \cup s) \cup {x}) = SumFunctionOnSet(f, T \cup s) + f[x]
      BY <3>1, <3>2, SumWith
    <3> QED BY <1>3, <3>1, <3>3
  <2> HIDE DEF Q
  <2>3. Q \in SUBSET SUBSET (S \ T)
    BY DEF Q
  <2> QED BY <1>1, <2>1, <2>2, <2>3, FiniteInduction
<1>5. T \cup (S \ T) = S /\ S \ T \in Q
  BY <1>4
<1> QED BY <1>3, <1>5

\* Greater values, greater sums; and equal ones.
THEOREM SumsCompare ==
    ASSUME NEW S, IsFiniteSet(S), NEW f, NEW g, \A x \in S : f[x] \in Int /\ g[x] \in Int /\ f[x] <= g[x]
    PROVE  SumFunctionOnSet(f, S) <= SumFunctionOnSet(g, S)
<1> DEFINE Q == {s \in SUBSET S : SumFunctionOnSet(f, s) <= SumFunctionOnSet(g, s)}
<1>1. {} \in Q
  BY SumOfNone
<1>2. ASSUME NEW s \in Q, NEW x \in S \ s PROVE s \cup {x} \in Q
  <2>1. IsFiniteSet(s)
    BY FS_Subset
  <2>2. /\ SumFunctionOnSet(f, s \cup {x}) = SumFunctionOnSet(f, s) + f[x]
        /\ SumFunctionOnSet(f, s) \in Int
    BY <2>1, SumWith
  <2>3. /\ SumFunctionOnSet(g, s \cup {x}) = SumFunctionOnSet(g, s) + g[x]
        /\ SumFunctionOnSet(g, s) \in Int
    BY <2>1, SumWith
  <2> QED BY <2>2, <2>3
<1> HIDE DEF Q
<1>3. Q \in SUBSET SUBSET S
  BY DEF Q
<1>4. Q = SUBSET S
  BY <1>1, <1>2, <1>3, FiniteInduction
<1> QED BY <1>4 DEF Q

THEOREM SumsAgree ==
    ASSUME NEW S, IsFiniteSet(S), NEW f, NEW g, \A x \in S : f[x] \in Int /\ g[x] = f[x]
    PROVE  SumFunctionOnSet(g, S) = SumFunctionOnSet(f, S)
<1>1. SumFunctionOnSet(f, S) <= SumFunctionOnSet(g, S) /\ SumFunctionOnSet(g, S) <= SumFunctionOnSet(f, S)
  BY SumsCompare
<1>2. SumFunctionOnSet(f, S) \in Int /\ SumFunctionOnSet(g, S) \in Int
  BY SumIsInteger
<1> QED BY <1>1, <1>2

\* The sum of a sum of functions.
THEOREM SumsAdd ==
    ASSUME NEW S, IsFiniteSet(S), NEW f, NEW g,
           \A x \in S : f[x] \in Int, \A x \in S : g[x] \in Int
    PROVE  SumFunctionOnSet([x \in S |-> f[x] + g[x]], S)
             = SumFunctionOnSet(f, S) + SumFunctionOnSet(g, S)
<1> DEFINE h == [x \in S |-> f[x] + g[x]]
           Q == {s \in SUBSET S :
                   SumFunctionOnSet(h, s) = SumFunctionOnSet(f, s) + SumFunctionOnSet(g, s)}
<1>0. \A x \in S : h[x] = f[x] + g[x]
  OBVIOUS
<1>8. \A x \in S : h[x] \in Int
  OBVIOUS
<1> HIDE DEF h
<1>1. {} \in Q
  BY SumOfNone
<1>2. \A s \in SUBSET S : \A x \in S \ s :
        /\ SumFunctionOnSet(f, s) \in Int
        /\ SumFunctionOnSet(f, s \cup {x}) = SumFunctionOnSet(f, s) + f[x]
  BY SumSteps
<1>3. \A s \in SUBSET S : \A x \in S \ s :
        /\ SumFunctionOnSet(g, s) \in Int
        /\ SumFunctionOnSet(g, s \cup {x}) = SumFunctionOnSet(g, s) + g[x]
  BY SumSteps
<1>4. \A s \in SUBSET S : \A x \in S \ s :
        /\ SumFunctionOnSet(h, s) \in Int
        /\ SumFunctionOnSet(h, s \cup {x}) = SumFunctionOnSet(h, s) + h[x]
  BY <1>8, SumSteps
<1>5. ASSUME NEW s \in Q, NEW x \in S \ s PROVE s \cup {x} \in Q
  <2>1. f[x] \in Int /\ g[x] \in Int /\ h[x] = f[x] + g[x]
    BY <1>0
  <2> QED BY <1>2, <1>3, <1>4, <2>1
<1> HIDE DEF Q
<1>6. Q \in SUBSET SUBSET S
  BY DEF Q
<1>7. Q = SUBSET S
  BY <1>1, <1>5, <1>6, FiniteInduction
<1> QED BY <1>7 DEF Q, h

\* A common factor.
THEOREM SumsScale ==
    ASSUME NEW S, IsFiniteSet(S), NEW f, \A x \in S : f[x] \in Int, NEW k \in Int
    PROVE  SumFunctionOnSet([x \in S |-> k * f[x]], S) = k * SumFunctionOnSet(f, S)
<1> DEFINE h == [x \in S |-> k * f[x]]
           Q == {s \in SUBSET S : SumFunctionOnSet(h, s) = k * SumFunctionOnSet(f, s)}
<1>1. \A x \in S : h[x] = k * f[x]
  OBVIOUS
<1>2. \A x \in S : h[x] \in Int
  OBVIOUS
<1> HIDE DEF h
<1>3. {} \in Q
  BY SumOfNone
<1>4. \A s \in SUBSET S : \A x \in S \ s :
        /\ SumFunctionOnSet(f, s) \in Int
        /\ SumFunctionOnSet(f, s \cup {x}) = SumFunctionOnSet(f, s) + f[x]
  BY SumSteps
<1>5. \A s \in SUBSET S : \A x \in S \ s :
        /\ SumFunctionOnSet(h, s) \in Int
        /\ SumFunctionOnSet(h, s \cup {x}) = SumFunctionOnSet(h, s) + h[x]
  BY <1>2, SumSteps
<1>6. ASSUME NEW s \in Q, NEW x \in S \ s PROVE s \cup {x} \in Q
  <2>1. /\ s \in SUBSET S /\ SumFunctionOnSet(h, s) = k * SumFunctionOnSet(f, s)
        /\ f[x] \in Int /\ h[x] = k * f[x] /\ SumFunctionOnSet(f, s) \in Int
    BY <1>1, <1>4
  <2>2. ASSUME NEW a \in Int, NEW b \in Int PROVE k * (a + b) = k * a + k * b
    OBVIOUS
  <2>3. k * (SumFunctionOnSet(f, s) + f[x]) = k * SumFunctionOnSet(f, s) + k * f[x]
    BY <2>1, <2>2
  <2> QED BY <1>4, <1>5, <2>1, <2>3
<1> HIDE DEF Q
<1>7. Q \in SUBSET SUBSET S
  BY DEF Q
<1>8. Q = SUBSET S
  BY <1>3, <1>6, <1>7, FiniteInduction
<1> QED BY <1>8 DEF Q, h

\* A sum of zeros is zero.
LEMMA SumOfZeros ==
    ASSUME NEW S, IsFiniteSet(S), NEW f, \A x \in S : f[x] = 0
    PROVE  SumFunctionOnSet(f, S) = 0
<1> DEFINE Q == {s \in SUBSET S : SumFunctionOnSet(f, s) = 0}
<1>1. {} \in Q
  BY SumOfNone
<1>2. \A s \in SUBSET S : \A x \in S \ s :
        /\ SumFunctionOnSet(f, s) \in Int
        /\ SumFunctionOnSet(f, s \cup {x}) = SumFunctionOnSet(f, s) + f[x]
  <2>1. \A x \in S : f[x] \in Int
    OBVIOUS
  <2> QED BY <2>1, SumSteps
<1>3. ASSUME NEW s \in Q, NEW x \in S \ s PROVE s \cup {x} \in Q
  BY <1>2
<1> HIDE DEF Q
<1>4. Q \in SUBSET SUBSET S
  BY DEF Q
<1>5. Q = SUBSET S
  BY <1>1, <1>3, <1>4, FiniteInduction
<1> QED BY <1>5 DEF Q

\* What is zero outside a part adds nothing to its sum.
THEOREM SumOfPart ==
    ASSUME NEW S, IsFiniteSet(S), NEW f, \A x \in S : f[x] \in Int,
           NEW T \in SUBSET S, \A x \in S \ T : f[x] = 0
    PROVE  SumFunctionOnSet(f, T) = SumFunctionOnSet(f, S)
<1> DEFINE Q == {s \in SUBSET (S \ T) : SumFunctionOnSet(f, T \cup s) = SumFunctionOnSet(f, T)}
<1>1. IsFiniteSet(S \ T)
  BY FS_Subset
<1>2. {} \in Q
  BY DEF Q
<1>3. \A s \in SUBSET S : \A x \in S \ s :
        /\ SumFunctionOnSet(f, s) \in Int
        /\ SumFunctionOnSet(f, s \cup {x}) = SumFunctionOnSet(f, s) + f[x]
  BY SumSteps
<1>4. ASSUME NEW s \in Q, NEW x \in (S \ T) \ s PROVE s \cup {x} \in Q
  <2>1. T \cup s \in SUBSET S /\ x \in S \ (T \cup s) /\ f[x] = 0
    OBVIOUS
  <2>2. SumFunctionOnSet(f, (T \cup s) \cup {x}) = SumFunctionOnSet(f, T \cup s) + 0
    BY <1>3, <2>1
  <2>3. SumFunctionOnSet(f, T \cup s) \in Int
    BY <1>3, <2>1
  <2>4. (T \cup s) \cup {x} = T \cup (s \cup {x}) /\ s \cup {x} \in SUBSET (S \ T)
    OBVIOUS
  <2>5. SumFunctionOnSet(f, T \cup (s \cup {x})) = SumFunctionOnSet(f, T)
    <3>1. SumFunctionOnSet(f, T \cup s) = SumFunctionOnSet(f, T)
      OBVIOUS
    <3>2. SumFunctionOnSet(f, T \cup (s \cup {x})) = SumFunctionOnSet(f, (T \cup s) \cup {x})
      BY <2>4, Zenon
    <3> QED BY <2>2, <2>3, <3>1, <3>2
  <2> QED BY <2>4, <2>5
<1> HIDE DEF Q
<1>5. Q \in SUBSET SUBSET (S \ T)
  BY DEF Q
<1>6. Q = SUBSET (S \ T)
  BY <1>1, <1>2, <1>4, <1>5, FiniteInduction
<1>7. S \ T \in Q /\ T \cup (S \ T) = S
  BY <1>6
<1> QED BY <1>7 DEF Q

\* The sizes of the classes of a set add up to its size.
THEOREM SumOfClasses ==
    ASSUME NEW K, IsFiniteSet(K), NEW D, IsFiniteSet(D), NEW c, \A x \in D : c[x] \in K
    PROVE  SumFunctionOnSet([k \in K |-> Cardinality({x \in D : c[x] = k})], K) = Cardinality(D)
<1> DEFINE Of(s) == {x \in D : c[x] \in s}
           f == [k \in K |-> Cardinality({x \in D : c[x] = k})]
           Q == {s \in SUBSET K : SumFunctionOnSet(f, s) = Cardinality(Of(s))}
<1>1. \A T \in SUBSET D : IsFiniteSet(T) /\ Cardinality(T) \in Nat
  BY FS_Subset, FS_CardinalityType
<1>2. \A k \in K : f[k] = Cardinality({x \in D : c[x] = k}) /\ f[k] \in Int
  <2> TAKE k \in K
  <2>1. {x \in D : c[x] = k} \in SUBSET D
    OBVIOUS
  <2> QED BY <1>1, <2>1
<1> HIDE DEF f
<1>3. {} \in Q
  <2>1. Of({}) = {}
    OBVIOUS
  <2>2. SumFunctionOnSet(f, {}) = 0 /\ Cardinality({}) = 0
    BY SumOfNone, FS_EmptySet
  <2> QED BY <2>1, <2>2
<1>4. \A s \in SUBSET K : \A k \in K \ s :
        /\ SumFunctionOnSet(f, s) \in Int
        /\ SumFunctionOnSet(f, s \cup {k}) = SumFunctionOnSet(f, s) + f[k]
  BY <1>2, SumSteps
<1>5. ASSUME NEW s \in Q, NEW k \in K \ s PROVE s \cup {k} \in Q
  <2> DEFINE A == Of(s)
             B == {x \in D : c[x] = k}
  <2>1. IsFiniteSet(A) /\ IsFiniteSet(B) /\ Cardinality(A) \in Nat /\ Cardinality(B) \in Nat
    <3>1. A \in SUBSET D /\ B \in SUBSET D
      OBVIOUS
    <3> QED BY <1>1, <3>1
  <2>2. Of(s \cup {k}) = A \cup B /\ A \cap B = {}
    OBVIOUS
  <2>3. Cardinality(A \cup B) = Cardinality(A) + Cardinality(B) - Cardinality({})
    <3>1. Cardinality(A \cup B) = Cardinality(A) + Cardinality(B) - Cardinality(A \cap B)
      <4> HIDE DEF A, B
      <4> QED BY <2>1, FS_Union
    <3> QED BY <2>2, <3>1
  <2>4. Cardinality({}) = 0
    BY FS_EmptySet
  <2>5. SumFunctionOnSet(f, s) = Cardinality(A) /\ s \in SUBSET K
    OBVIOUS
  <2>6. SumFunctionOnSet(f, s \cup {k}) = Cardinality(A) + Cardinality(B)
    BY <1>2, <1>4, <2>5
  <2>7. Cardinality(Of(s \cup {k})) = Cardinality(A) + Cardinality(B)
    <3>1. Cardinality(Of(s \cup {k})) = Cardinality(A \cup B)
      <4>1. Of(s \cup {k}) = A \cup B
        BY <2>2
      <4> HIDE DEF A, B, Of
      <4> QED BY <4>1, Zenon
    <3> HIDE DEF A, B, Of
    <3> QED BY <2>1, <2>3, <2>4, <3>1
  <2>8. s \cup {k} \in SUBSET K
    OBVIOUS
  <2> HIDE DEF A, B, Of
  <2> QED BY <2>6, <2>7, <2>8
<1> HIDE DEF Q
<1>6. Q \in SUBSET SUBSET K
  BY DEF Q
<1>7. Q = SUBSET K
  BY <1>3, <1>5, <1>6, FiniteInduction
<1>8. K \in Q /\ Of(K) = D
  BY <1>7
<1> QED BY <1>8 DEF Q, f

\* A finite set of naturals has a greatest member.
THEOREM GreatestMember ==
    ASSUME NEW S \in SUBSET Nat, IsFiniteSet(S), S # {}
    PROVE  Max(S) \in S /\ \A n \in S : n <= Max(S)
<1> DEFINE Q == {s \in SUBSET S : s = {} \/ \E m \in s : \A n \in s : m >= n}
<1>1. {} \in Q
  OBVIOUS
<1>2. ASSUME NEW s \in Q, NEW x \in S \ s PROVE s \cup {x} \in Q
  <2>1. CASE s = {}
    <3>1. \A n \in s \cup {x} : x >= n
      BY <2>1
    <3> QED BY <3>1
  <2>2. CASE s # {}
    <3>1. PICK m \in s : \A n \in s : m >= n
      BY <2>2
    <3>2. CASE m >= x
      BY <3>1, <3>2
    <3>3. CASE ~ (m >= x)
      <4>1. \A n \in s \cup {x} : x >= n
        BY <3>1, <3>3
      <4> QED BY <4>1
    <3> QED BY <3>2, <3>3
  <2> QED BY <2>1, <2>2
<1> HIDE DEF Q
<1>3. Q \in SUBSET SUBSET S
  BY DEF Q
<1>4. Q = SUBSET S
  BY <1>1, <1>2, <1>3, FiniteInduction
<1>5. \E m \in S : \A n \in S : m >= n
  BY <1>4 DEF Q
<1> QED BY <1>5 DEF Max

\* The sum of the rows of a table is the sum of its columns.
THEOREM SumsExchange ==
    ASSUME NEW R, NEW L, IsFiniteSet(R), IsFiniteSet(L), NEW a, \A r \in R : \A l \in L : a[r][l] \in Int
    PROVE  SumFunctionOnSet([r \in R |-> SumFunctionOnSet(a[r], L)], R)
             = SumFunctionOnSet([l \in L |-> SumFunctionOnSet([r \in R |-> a[r][l]], R)], L)
<1> DEFINE Row == [r \in R |-> SumFunctionOnSet(a[r], L)]
           Col(l) == [r \in R |-> a[r][l]]
           Total(s) == [l \in L |-> SumFunctionOnSet(Col(l), s)]
           Q == {s \in SUBSET R : SumFunctionOnSet(Row, s) = SumFunctionOnSet(Total(s), L)}
<1>1. \A r \in R : Row[r] = SumFunctionOnSet(a[r], L) /\ Row[r] \in Int
  <2>1. ASSUME NEW r \in R PROVE SumFunctionOnSet(a[r], L) \in Int
    <3>1. \A l \in L : a[r][l] \in Int
      OBVIOUS
    <3> QED BY <3>1, SumIsInteger
  <2> QED BY <2>1
<1>2. \A l \in L : \A r \in R : Col(l)[r] = a[r][l]
  OBVIOUS
<1>3. \A s \in SUBSET R : \A x \in R \ s :
        /\ SumFunctionOnSet(Row, s) \in Int
        /\ SumFunctionOnSet(Row, s \cup {x}) = SumFunctionOnSet(Row, s) + Row[x]
  <2>1. \A r \in R : Row[r] \in Int
    BY <1>1
  <2> HIDE DEF Row
  <2> QED BY <2>1, SumSteps
<1>4. ASSUME NEW l \in L
      PROVE  \A s \in SUBSET R : \A x \in R \ s :
               /\ SumFunctionOnSet(Col(l), s) \in Int
               /\ SumFunctionOnSet(Col(l), s \cup {x}) = SumFunctionOnSet(Col(l), s) + Col(l)[x]
  <2>1. \A r \in R : Col(l)[r] \in Int
    OBVIOUS
  <2>2. PICK c : c = Col(l)
    OBVIOUS
  <2>3. \A s \in SUBSET R : \A x \in R \ s :
          /\ SumFunctionOnSet(c, s) \in Int
          /\ SumFunctionOnSet(c, s \cup {x}) = SumFunctionOnSet(c, s) + c[x]
    <3>1. \A r \in R : c[r] \in Int
      BY <2>1, <2>2
    <3> HIDE DEF Col
    <3> QED BY <3>1, SumSteps
  <2> QED BY <2>2, <2>3
<1>5. {} \in Q
  <2>1. SumFunctionOnSet(Row, {}) = 0 /\ \A l \in L : SumFunctionOnSet(Col(l), {}) = 0
    BY SumOfNone
  <2>2. \A l \in L : Total({})[l] = 0
    BY <2>1
  <2> HIDE DEF Total
  <2>3. SumFunctionOnSet(Total({}), L) = 0
    BY <2>2, SumOfZeros
  <2> QED BY <2>1, <2>3
<1>6. ASSUME NEW s \in Q, NEW x \in R \ s PROVE s \cup {x} \in Q
  <2>1. \A l \in L : Total(s)[l] \in Int /\ a[x][l] \in Int
    BY <1>4
  <2>2. \A l \in L : Total(s \cup {x})[l] = Total(s)[l] + a[x][l]
    BY <1>2, <1>4
  <2>3. PICK t : t = Total(s)
    OBVIOUS
  <2>4. PICK b : b = a[x]
    OBVIOUS
  <2>5. Total(s \cup {x}) = [l \in L |-> t[l] + b[l]]
    BY <2>2, <2>3, <2>4
  <2>6. (\A l \in L : t[l] \in Int) /\ (\A l \in L : b[l] \in Int)
    BY <2>1, <2>3, <2>4
  <2>7. SumFunctionOnSet([l \in L |-> t[l] + b[l]], L) = SumFunctionOnSet(t, L) + SumFunctionOnSet(b, L)
    BY <2>6, SumsAdd
  <2>8. SumFunctionOnSet(Row, s \cup {x}) = SumFunctionOnSet(Row, s) + Row[x] /\ Row[x] = SumFunctionOnSet(b, L)
    BY <1>1, <1>3, <2>4
  <2>9. SumFunctionOnSet(Row, s) = SumFunctionOnSet(t, L)
    BY <2>3
  <2>10. SumFunctionOnSet(Row, s \cup {x}) = SumFunctionOnSet(Total(s \cup {x}), L)
    BY <2>5, <2>7, <2>8, <2>9
  <2> HIDE DEF Row, Total
  <2> QED BY <2>10
<1> HIDE DEF Q
<1>7. Q \in SUBSET SUBSET R
  BY DEF Q
<1>8. Q = SUBSET R
  BY <1>5, <1>6, <1>7, FiniteInduction
<1> QED BY <1>8 DEF Q, Row, Total
=============================================================================
