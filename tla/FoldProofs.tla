----------------------------- MODULE FoldProofs -----------------------------
(***************************************************************************)
(* Numbers in order, and what a fold over a finite set returns: facts that *)
(* the proofs about the other modules rest on.                             *)
(***************************************************************************)
EXTENDS Integers, FiniteSets, FiniteSetTheorems, WellFoundedInduction, TLAPS
-----------------------------------------------------------------------------
(* Sets of numbers                                                         *)

\* A set of naturals that is not empty has a least element.
LEMMA LeastElement ==
  ASSUME NEW S \in SUBSET Nat, S # {}
  PROVE  \E m \in S : \A x \in S : m <= x
  <1>1. PICK m \in S : \A x \in S : ~ (<<x, m>> \in OpToRel(<, Nat))
    BY NatLessThanWellFounded, WFMin
  <1>2. ASSUME NEW x \in S PROVE m <= x
    <2>1. x \in Nat /\ m \in Nat
      OBVIOUS
    <2>2. x < m => <<x, m>> \in OpToRel(<, Nat)
      BY <2>1 DEF OpToRel
    <2>3. ~ (x < m)
      BY <1>1, <2>2
    <2> QED
      BY <2>1, <2>3
  <1> QED
    BY <1>2

\* ... and a greatest one, if it is bounded.
LEMMA GreatestElement ==
  ASSUME NEW S \in SUBSET Nat, S # {}, NEW n \in Nat, \A x \in S : x <= n
  PROVE  \E m \in S : \A x \in S : x <= m
  <1> DEFINE U == {k \in Nat : \A x \in S : x <= k}
  <1>1. U \in SUBSET Nat /\ U # {}
    OBVIOUS
  <1>2. \E k \in U : \A j \in U : k <= j
    <2> HIDE DEF U
    <2> QED
      BY <1>1, LeastElement
  <1>3. PICK k \in U : \A j \in U : k <= j
    BY <1>2
  <1>4. ASSUME k \notin S PROVE FALSE
    <2>1. k \in Nat /\ \A x \in S : x <= k /\ x # k /\ x \in Nat
      BY <1>4
    <2>2. PICK j \in Nat : k = j + 1
      <3>1. PICK x \in S : TRUE
        OBVIOUS
      <3>2. x \in Nat /\ x <= k /\ x # k
        BY <2>1
      <3> QED
        BY <2>1, <3>2
    <2>3. \A x \in S : x <= j
      BY <2>1, <2>2
    <2> QED
      BY <1>3, <2>2, <2>3
  <1> QED
    BY <1>3, <1>4

-----------------------------------------------------------------------------
(* Counting                                                                *)

\* A smaller part of a finite set has fewer elements.
LEMMA FewerInPart ==
  ASSUME NEW S, IsFiniteSet(S), NEW T \in SUBSET S
  PROVE  /\ IsFiniteSet(T) /\ Cardinality(T) \in Nat /\ Cardinality(S) \in Nat
         /\ Cardinality(T) <= Cardinality(S) /\ (T # S => Cardinality(T) < Cardinality(S))
  <1>1. IsFiniteSet(T) /\ Cardinality(T) <= Cardinality(S) /\ (Cardinality(S) = Cardinality(T) => S = T)
    BY FS_Subset
  <1>2. Cardinality(T) \in Nat /\ Cardinality(S) \in Nat
    BY <1>1, FS_CardinalityType
  <1> DEFINE a == Cardinality(T)
             b == Cardinality(S)
  <1>3. a \in Nat /\ b \in Nat /\ a <= b /\ (a = b => S = T)
    BY <1>1, <1>2
  <1> HIDE DEF a, b
  <1>4. T # S => a < b
    BY <1>3
  <1> QED
    BY <1>1, <1>3, <1>4 DEF a, b


-----------------------------------------------------------------------------
(* Sums                                                                    *)

\* g gives the sums over the parts of S of the numbers val[x], taken in the order pick gives.
IsSums(g, S, pick, val) ==
  g = [s \in SUBSET S |-> IF s = {} THEN 0 ELSE val[pick[s]] + g[s \ {pick[s]}]]
SumsOf(S, pick, val) == CHOOSE g : IsSums(g, S, pick, val)

Picks(pick, S) == \A s \in SUBSET S : s # {} => pick[s] \in s

\* They exist when S is finite.
LEMMA SumsExist ==
  ASSUME NEW S, IsFiniteSet(S), NEW pick, NEW val, Picks(pick, S)
  PROVE  IsSums(SumsOf(S, pick, val), S, pick, val)
  <1> DEFINE Small(n) == {s \in SUBSET S : Cardinality(s) <= n}
             Sums(g, D) == g = [s \in D |-> IF s = {} THEN 0 ELSE val[pick[s]] + g[s \ {pick[s]}]]
             Bad == {n \in Nat : ~ \E g : Sums(g, Small(n))}
  <1>1. \A s \in SUBSET S : /\ IsFiniteSet(s) /\ Cardinality(s) \in Nat /\ Cardinality(s) <= Cardinality(S)
                            /\ (Cardinality(s) = 0 <=> s = {})
    BY FewerInPart, FS_EmptySet
  <1>2. \A s \in SUBSET S : s # {} => /\ s \ {pick[s]} \in SUBSET S
                                      /\ Cardinality(s \ {pick[s]}) = Cardinality(s) - 1
    BY <1>1, FS_RemoveElement DEF Picks
  <1>3. Bad = {}
    <2> SUFFICES ASSUME Bad # {} PROVE FALSE
      OBVIOUS
    <2>1. PICK n \in Bad : \A k \in Bad : n <= k
      <3>1. Bad \in SUBSET Nat
        OBVIOUS
      <3> HIDE DEF Bad
      <3> QED
        BY <3>1, LeastElement
    <2>2. n \in Nat /\ ~ \E g : Sums(g, Small(n))
      BY DEF Bad
    <2>3. CASE n = 0
      <3>1. Small(n) = {{}}
        BY <1>1, <2>3
      <3>2. Sums([s \in {{}} |-> 0], Small(n))
        BY <3>1
      <3> HIDE DEF Sums
      <3> QED
        BY <2>2, <3>2
    <2>4. CASE n # 0
      <3>1. n - 1 \in Nat /\ ~(n <= n - 1)
        BY <2>2, <2>4
      <3>2. n - 1 \notin Bad
        <4> HIDE DEF Bad
        <4> QED
          BY <2>1, <3>1
      <3>3. PICK g : Sums(g, Small(n - 1))
        BY <3>1, <3>2
      <3> DEFINE Next1(s) == IF s = {} THEN 0 ELSE val[pick[s]] + g[s \ {pick[s]}]
                 h == [s \in Small(n) |-> Next1(s)]
      <3>4. ASSUME NEW s \in Small(n), s # {} PROVE h[s \ {pick[s]}] = g[s \ {pick[s]}]
        <4> DEFINE t == s \ {pick[s]}
        <4>1. t \in SUBSET S /\ Cardinality(t) = Cardinality(s) - 1 /\ Cardinality(s) \in Nat /\ Cardinality(s) <= n
          BY <1>1, <1>2, <3>4
        <4>2. t \in Small(n - 1) /\ t \in Small(n)
          BY <2>2, <4>1
        <4> HIDE DEF t, Small
        <4>3. g[t] = Next1(t)
          BY <3>3, <4>2
        <4>4. h[t] = Next1(t)
          BY <4>2
        <4> QED
          BY <4>3, <4>4 DEF t
      <3>5. Sums(h, Small(n))
        <4> HIDE DEF Small
        <4>1. \A s \in Small(n) : Next1(s) = IF s = {} THEN 0 ELSE val[pick[s]] + h[s \ {pick[s]}]
          BY <3>4
        <4> QED
          BY <4>1
      <3> HIDE DEF h, Sums
      <3> QED
        BY <2>2, <3>5
    <2> QED
      BY <2>3, <2>4
  <1>4. Cardinality(S) \in Nat /\ Small(Cardinality(S)) = SUBSET S
    BY <1>1, FS_CardinalityType
  <1>5. \E g : Sums(g, SUBSET S)
    <2> HIDE DEF Sums, Small
    <2>1. \A n \in Nat : \E g : Sums(g, Small(n))
      BY <1>3
    <2>2. PICK g : Sums(g, Small(Cardinality(S)))
      BY <1>4, <2>1
    <2>3. Sums(g, SUBSET S)
      BY <1>4, <2>2
    <2> QED
      BY <2>3
  <1> QED
    BY <1>5 DEF SumsOf, IsSums

\* A sum of integers is an integer.
LEMMA SumType ==
  ASSUME NEW S, IsFiniteSet(S), NEW pick, NEW val, NEW g,
         Picks(pick, S), \A x \in S : val[x] \in Int, IsSums(g, S, pick, val)
  PROVE  \A s \in SUBSET S : g[s] \in Int
  <1> DEFINE Bad == {n \in Nat : \E s \in SUBSET S : Cardinality(s) = n /\ g[s] \notin Int}
  <1>1. \A s \in SUBSET S : Cardinality(s) \in Nat
    BY FewerInPart
  <1>2. Bad = {}
    <2> SUFFICES ASSUME Bad # {} PROVE FALSE
      OBVIOUS
    <2>1. PICK n \in Bad : \A k \in Bad : n <= k
      <3>1. Bad \in SUBSET Nat
        OBVIOUS
      <3> HIDE DEF Bad
      <3> QED
        BY <3>1, LeastElement
    <2>2. PICK s \in SUBSET S : Cardinality(s) = n /\ g[s] \notin Int
      BY DEF Bad
    <2>3. s # {}
      BY <2>2 DEF IsSums
    <2> DEFINE x == pick[s]
               t == s \ {x}
    <2>4. x \in s /\ val[x] \in Int /\ t \in SUBSET S /\ g[s] = val[x] + g[t]
      BY <2>3 DEF Picks, IsSums
    <2>5. IsFiniteSet(s) /\ Cardinality(s) \in Nat
      BY FewerInPart
    <2>6. Cardinality(t) = Cardinality(s) - 1 /\ Cardinality(t) \in Nat
      <3> HIDE DEF x
      <3>1. Cardinality(t) = Cardinality(s) - 1
        BY <2>4, <2>5, FS_RemoveElement
      <3> QED
        BY <1>1, <2>4, <3>1
    <2> HIDE DEF x, t
    <2>7. ~(n <= Cardinality(t))
      BY <2>2, <2>5, <2>6
    <2>8. Cardinality(t) \notin Bad
      <3> HIDE DEF Bad
      <3> QED
        BY <2>1, <2>7
    <2>9. g[t] \in Int
      BY <2>4, <2>6, <2>8
    <2> QED
      BY <2>2, <2>4, <2>9
  <1> QED
    BY <1>1, <1>2

\* Sums over two sets of the same numbers in the same order agree on what both contain.
LEMMA SumsAgree ==
  ASSUME NEW S, IsFiniteSet(S), NEW T, S \in SUBSET T, NEW pick, NEW val, NEW other, NEW g, NEW h,
         NEW from, Picks(pick, S), \A s \in SUBSET S : from[s] = pick[s], \A x \in S : val[x] = other[x],
         IsSums(g, S, pick, val), IsSums(h, T, from, other)
  PROVE  g[S] = h[S]
  <1> DEFINE Bad == {n \in Nat : \E s \in SUBSET S : Cardinality(s) = n /\ g[s] # h[s]}
  <1>1. \A s \in SUBSET S : Cardinality(s) \in Nat
    BY FewerInPart
  <1>2. Bad = {}
    <2> SUFFICES ASSUME Bad # {} PROVE FALSE
      OBVIOUS
    <2>1. PICK n \in Bad : \A k \in Bad : n <= k
      <3>1. Bad \in SUBSET Nat
        OBVIOUS
      <3> HIDE DEF Bad
      <3> QED
        BY <3>1, LeastElement
    <2>2. PICK s \in SUBSET S : Cardinality(s) = n /\ g[s] # h[s]
      BY DEF Bad
    <2> DEFINE x == pick[s]
               t == s \ {x}
    <2>3. s \in SUBSET T
      OBVIOUS
    <2>4. s # {}
      BY <2>2, <2>3 DEF IsSums
    <2>5. x \in s /\ val[x] = other[x] /\ t \in SUBSET S
      BY <2>4 DEF Picks
    <2>6. g[s] = val[x] + g[t] /\ h[s] = other[x] + h[t]
      <3>1. g[s] = val[x] + g[t]
        BY <2>4 DEF IsSums
      <3>2. from[s] = pick[s]
        OBVIOUS
      <3>3. h[s] = other[from[s]] + h[s \ {from[s]}]
        BY <2>3, <2>4 DEF IsSums
      <3> QED
        BY <3>1, <3>2, <3>3
    <2>7. IsFiniteSet(s) /\ Cardinality(s) \in Nat
      BY FewerInPart
    <2>8. Cardinality(t) = Cardinality(s) - 1 /\ Cardinality(t) \in Nat
      <3> HIDE DEF x
      <3>1. Cardinality(t) = Cardinality(s) - 1
        BY <2>5, <2>7, FS_RemoveElement
      <3> QED
        BY <1>1, <2>5, <3>1
    <2> HIDE DEF x, t
    <2>9. ~(n <= Cardinality(t))
      BY <2>2, <2>7, <2>8
    <2>10. Cardinality(t) \notin Bad
      <3> HIDE DEF Bad
      <3> QED
        BY <2>1, <2>9
    <2>11. g[t] = h[t]
      BY <2>5, <2>8, <2>10
    <2> QED
      BY <2>2, <2>5, <2>6, <2>11
  <1> QED
    BY <1>1, <1>2

\* What is summed last.
LEMMA SumLast ==
  ASSUME NEW S, NEW pick, NEW val, NEW g, IsSums(g, S, pick, val)
  PROVE  g[S] = IF S = {} THEN 0 ELSE val[pick[S]] + g[S \ {pick[S]}]
  BY DEF IsSums

\* The same sums added up from the other side.
LeftSumsOf(S, pick, val) ==
  CHOOSE g : g = [s \in SUBSET S |-> IF s = {} THEN 0 ELSE g[s \ {pick[s]}] + val[pick[s]]]

LEMMA LeftSums ==
  ASSUME NEW S, IsFiniteSet(S), NEW pick, NEW val, Picks(pick, S), \A x \in S : val[x] \in Int
  PROVE  LeftSumsOf(S, pick, val)[S] = SumsOf(S, pick, val)[S]
  <1> DEFINE g == SumsOf(S, pick, val)
             IsLeft(h) == h = [s \in SUBSET S |-> IF s = {} THEN 0 ELSE h[s \ {pick[s]}] + val[pick[s]]]
             l == LeftSumsOf(S, pick, val)
             Bad == {n \in Nat : \E s \in SUBSET S : Cardinality(s) = n /\ g[s] # l[s]}
  <1>1. IsSums(g, S, pick, val) /\ \A s \in SUBSET S : g[s] \in Int
    <2>1. IsSums(g, S, pick, val)
      BY SumsExist
    <2> HIDE DEF g
    <2> QED
      BY <2>1, SumType
  <1>2. \A s \in SUBSET S : s # {} => pick[s] \in s /\ s \ {pick[s]} \in SUBSET S /\ val[pick[s]] \in Int
    BY DEF Picks
  <1>3. IsLeft(g)
    <2> HIDE DEF g
    <2>1. \A s \in SUBSET S : s # {} => val[pick[s]] + g[s \ {pick[s]}] = g[s \ {pick[s]}] + val[pick[s]]
      BY <1>1, <1>2
    <2> QED
      BY <1>1, <2>1 DEF IsSums
  <1>4. IsLeft(l)
    <2> HIDE DEF g
    <2> QED
      BY <1>3 DEF LeftSumsOf
  <1> HIDE DEF g, l
  <1>5. \A s \in SUBSET S : Cardinality(s) \in Nat
    BY FewerInPart
  <1>6. Bad = {}
    <2> SUFFICES ASSUME Bad # {} PROVE FALSE
      OBVIOUS
    <2>1. PICK n \in Bad : \A k \in Bad : n <= k
      <3>1. Bad \in SUBSET Nat
        OBVIOUS
      <3> HIDE DEF Bad
      <3> QED
        BY <3>1, LeastElement
    <2>2. PICK s \in SUBSET S : Cardinality(s) = n /\ g[s] # l[s]
      BY DEF Bad
    <2> DEFINE x == pick[s]
               t == s \ {x}
    <2>3. s # {}
      BY <1>1, <1>4, <2>2 DEF IsSums
    <2>4. x \in s /\ val[x] \in Int /\ t \in SUBSET S
      BY <1>2, <2>3
    <2>5. g[s] = val[x] + g[t] /\ l[s] = l[t] + val[x]
      BY <1>1, <1>4, <2>3 DEF IsSums
    <2>6. IsFiniteSet(s) /\ Cardinality(s) \in Nat
      BY FewerInPart
    <2>7. Cardinality(t) = Cardinality(s) - 1 /\ Cardinality(t) \in Nat
      <3> HIDE DEF x
      <3>1. Cardinality(t) = Cardinality(s) - 1
        BY <2>4, <2>6, FS_RemoveElement
      <3> QED
        BY <1>5, <2>4, <3>1
    <2> HIDE DEF x, t
    <2>8. ~(n <= Cardinality(t))
      BY <2>2, <2>6, <2>7
    <2>9. Cardinality(t) \notin Bad
      <3> HIDE DEF Bad
      <3> QED
        BY <2>1, <2>8
    <2>10. g[t] = l[t] /\ g[t] \in Int
      BY <1>1, <2>4, <2>7, <2>9
    <2> QED
      BY <2>2, <2>4, <2>5, <2>10
  <1>7. Cardinality(S) \in Nat
    BY <1>5
  <1> QED
    BY <1>6, <1>7 DEF g, l
=============================================================================
