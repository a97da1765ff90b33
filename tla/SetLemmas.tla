------------------------------- MODULE SetLemmas -------------------------------
(***************************************************************************)
(* Facts about natural numbers, maxima and sums over finite sets that the  *)
(* proofs of the components cite. Induction is stated over sets, {n \in    *)
(* Nat : P(n)} for the property P at hand, and rests on the order of Nat   *)
(* being well founded.                                                     *)
(***************************************************************************)
EXTENDS FiniteSetsExt, Integers, FiniteSetTheorems, WellFoundedInduction, TLAPS

\* A set of naturals with a member has a least one.
LEMMA LeastOfNaturals ==
    ASSUME NEW S \in SUBSET Nat, S # {}
    PROVE  \E x \in S : \A y \in S : x <= y
<1> DEFINE R == OpToRel(<, Nat)
<1>1. IsWellFoundedOn(R, Nat)
  BY NatLessThanWellFounded
<1>2. PICK x \in S : \A y \in S : <<y, x>> \notin R
  BY <1>1, WFMin
<1>3. \A y, z \in Nat : <<y, z>> \in R <=> y < z
  BY SMT DEF OpToRel
<1> HIDE DEF R
<1>4. ASSUME NEW y \in S
      PROVE  x <= y
  <2>1. x \in Nat /\ y \in Nat
    OBVIOUS
  <2>2. <<y, x>> \notin R
    BY <1>2
  <2>3. ~(y < x)
    BY <2>1, <2>2, <1>3
  <2>4. QED
    BY <2>1, <2>3
<1>5. QED
  BY <1>4

\* Induction: a set of naturals that holds 0 and is closed under successor is Nat.
LEMMA SetInduction ==
    ASSUME NEW S \in SUBSET Nat, 0 \in S, \A n \in S : n + 1 \in S
    PROVE  S = Nat
<1> SUFFICES ASSUME Nat \ S # {}
             PROVE  FALSE
  OBVIOUS
<1>1. PICK x \in Nat \ S : \A y \in Nat \ S : x <= y
  BY LeastOfNaturals
<1>2. x # 0 /\ x - 1 \in Nat /\ ~(x <= x - 1)
  BY <1>1
<1>3. x - 1 \in S
  BY <1>1, <1>2
<1>4. (x - 1) + 1 = x
  BY <1>1
<1>5. QED
  BY <1>1, <1>3, <1>4

\* What Max picks is a member that no other member exceeds.
LEMMA MaxOfInterval ==
    ASSUME NEW n \in Nat, NEW S \in SUBSET (0 .. n), S # {}
    PROVE  Max(S) \in S /\ \A y \in S : y <= Max(S)
<1> DEFINE D == {n - x : x \in S}
<1>1. D # {}
  OBVIOUS
<1>2. \A x \in S : x \in 0 .. n /\ n - x \in Nat
  OBVIOUS
<1>3. D \in SUBSET Nat
  BY <1>2
<1> HIDE DEF D
<1>4. PICK d \in D : \A e \in D : d <= e
  BY <1>1, <1>3, LeastOfNaturals
<1>5. PICK x \in S : d = n - x
  BY DEF D
<1>6. \A y \in S : x >= y
  <2> TAKE y \in S
  <2>1. n - x <= n - y
    BY <1>4, <1>5 DEF D
  <2>2. QED
    BY <2>1, <1>2
<1>7. QED
  BY <1>6, <1>2 DEF Max

-------------------------------------------------------------------------------
(* Sums *)

\* The function MapThenSumSet builds, for a map F of the set.
Chosen(s) == CHOOSE x \in s : TRUE
Adds(F, iter, s) == IF s = {} THEN 0 ELSE F[Chosen(s)] + iter[s \ {Chosen(s)}]
IsSum(F, S, iter) == iter = [s \in SUBSET S |-> Adds(F, iter, s)]

\* There is such a function on every finite set.
LEMMA SumExists ==
    ASSUME NEW S, IsFiniteSet(S), NEW F \in [S -> Nat]
    PROVE  \E iter \in [SUBSET S -> Nat] : IsSum(F, S, iter)
<1> DEFINE Small(n) == {s \in SUBSET S : Cardinality(s) <= n}
           Good(n, g) == \A s \in Small(n) : g[s] = Adds(F, g, s)
           N == {n \in Nat : \E g \in [SUBSET S -> Nat] : Good(n, g)}
<1>1. \A s \in SUBSET S : IsFiniteSet(s) /\ Cardinality(s) \in Nat /\ Cardinality(s) <= Cardinality(S)
  BY FS_Subset, FS_CardinalityType
<1>2. \A s \in SUBSET S : s # {} => /\ Chosen(s) \in s /\ Chosen(s) \in S
                                   /\ s \ {Chosen(s)} \in SUBSET S
                                   /\ Cardinality(s \ {Chosen(s)}) = Cardinality(s) - 1
  BY <1>1, FS_RemoveElement DEF Chosen
<1>3. \A s \in SUBSET S : Cardinality(s) = 0 <=> s = {}
  BY <1>1, FS_EmptySet
<1>4. 0 \in N
  <2> DEFINE g == [s \in SUBSET S |-> 0]
  <2>1. \A s \in Small(0) : s = {}
    BY <1>1, <1>3
  <2>2. Good(0, g)
    BY <2>1 DEF Adds
  <2>3. g \in [SUBSET S -> Nat]
    OBVIOUS
  <2>4. QED
    BY <2>2, <2>3
<1>5. ASSUME NEW n \in N
      PROVE  n + 1 \in N
  <2>1. PICK g \in [SUBSET S -> Nat] : Good(n, g)
    BY <1>5
  <2> DEFINE h == [s \in SUBSET S |-> Adds(F, g, s)]
  <2>2. h \in [SUBSET S -> Nat]
    <3>1. ASSUME NEW s \in SUBSET S
          PROVE  Adds(F, g, s) \in Nat
      <4>1. CASE s = {}
        BY <4>1 DEF Adds
      <4>2. CASE s # {}
        <5>1. F[Chosen(s)] \in Nat /\ g[s \ {Chosen(s)}] \in Nat
          BY <1>2, <4>2
        <5>2. QED
          BY <4>2, <5>1 DEF Adds
      <4>3. QED
        BY <4>1, <4>2
    <3>2. QED
      BY <3>1
  <2>3. \A s \in Small(n) : h[s] = g[s]
    BY <2>1
  <2>4. \A s \in Small(n + 1) : s # {} => s \ {Chosen(s)} \in Small(n)
    BY <1>1, <1>2, <1>5
  <2>5. \A s \in Small(n + 1) : Adds(F, h, s) = Adds(F, g, s)
    BY <2>3, <2>4 DEF Adds
  <2>6. Good(n + 1, h)
    BY <2>5
  <2>7. n + 1 \in Nat
    BY <1>5
  <2> HIDE DEF h, Good
  <2>8. QED
    BY <2>2, <2>6, <2>7
<1>6. N = Nat
  <2> HIDE DEF N
  <2>1. N \in SUBSET Nat
    BY DEF N
  <2>2. QED
    BY <1>4, <1>5, <2>1, SetInduction
<1>7. Cardinality(S) \in N
  BY <1>1, <1>6
<1>8. PICK g \in [SUBSET S -> Nat] : Good(Cardinality(S), g)
  BY <1>7
<1>9. \A s \in SUBSET S : s \in Small(Cardinality(S))
  BY <1>1
<1>10. g = [s \in SUBSET S |-> Adds(F, g, s)]
  BY <1>8, <1>9
<1>11. QED
  BY <1>10 DEF IsSum

\* Two such functions agree on a set where their maps do: the order does not depend on the rest.
LEMMA SumAgrees ==
    ASSUME NEW S, IsFiniteSet(S), NEW F \in [S -> Nat], NEW g, IsSum(F, S, g),
           NEW T, IsFiniteSet(T), NEW G \in [T -> Nat], NEW h, IsSum(G, T, h),
           NEW U \in SUBSET (S \cap T), \A x \in U : F[x] = G[x]
    PROVE  g[U] = h[U]
<1> DEFINE N == {n \in Nat : \A s \in SUBSET U : Cardinality(s) <= n => g[s] = h[s]}
<1>1. \A s \in SUBSET U : /\ s \in SUBSET S /\ s \in SUBSET T /\ IsFiniteSet(s) /\ Cardinality(s) \in Nat
                          /\ Cardinality(s) = 0 <=> s = {}
  BY FS_Subset, FS_CardinalityType, FS_EmptySet
<1>2. \A s \in SUBSET U : s # {} => /\ Chosen(s) \in s /\ Chosen(s) \in U
                                   /\ s \ {Chosen(s)} \in SUBSET U
                                   /\ Cardinality(s \ {Chosen(s)}) = Cardinality(s) - 1
  BY <1>1, FS_RemoveElement DEF Chosen
<1>3. \A s \in SUBSET U : g[s] = Adds(F, g, s) /\ h[s] = Adds(G, h, s)
  <2>1. \A s \in SUBSET S : g[s] = Adds(F, g, s)
    BY DEF IsSum
  <2>2. \A s \in SUBSET T : h[s] = Adds(G, h, s)
    BY DEF IsSum
  <2>3. QED
    BY <2>1, <2>2, <1>1
<1>4. 0 \in N
  <2>1. \A s \in SUBSET U : Cardinality(s) <= 0 => s = {}
    BY <1>1
  <2>2. g[{}] = h[{}]
    BY <1>3 DEF Adds
  <2>3. QED
    BY <2>1, <2>2
<1>5. ASSUME NEW n \in N
      PROVE  n + 1 \in N
  <2> SUFFICES ASSUME NEW s \in SUBSET U, Cardinality(s) <= n + 1
               PROVE  g[s] = h[s]
    BY <1>5
  <2>1. CASE s = {}
    BY <2>1, <1>3 DEF Adds
  <2>2. CASE s # {}
    <3>1. Cardinality(s \ {Chosen(s)}) <= n
      BY <2>2, <1>1, <1>2
    <3>2. g[s \ {Chosen(s)}] = h[s \ {Chosen(s)}] /\ F[Chosen(s)] = G[Chosen(s)]
      BY <3>1, <2>2, <1>2
    <3>3. QED
      BY <3>2, <2>2, <1>3 DEF Adds
  <2>3. QED
    BY <2>1, <2>2
<1>6. N = Nat
  <2> HIDE DEF N
  <2>1. N \in SUBSET Nat
    BY DEF N
  <2>2. QED
    BY <1>4, <1>5, <2>1, SetInduction
<1>7. Cardinality(U) \in N
  BY <1>1, <1>6
<1>8. QED
  BY <1>7, <1>1

\* The sum over one member more.
LEMMA SumAdds ==
    ASSUME NEW S, IsFiniteSet(S), NEW F \in [S -> Nat], NEW g \in [SUBSET S -> Nat], IsSum(F, S, g),
           NEW y \in S, NEW U \in SUBSET (S \ {y})
    PROVE  g[U \cup {y}] = F[y] + g[U]
<1> DEFINE Adding(s) == \A x \in S \ s : g[s \cup {x}] = F[x] + g[s]
           N == {n \in Nat : \A s \in SUBSET S : Cardinality(s) <= n => Adding(s)}
<1>1. \A s \in SUBSET S : IsFiniteSet(s) /\ Cardinality(s) \in Nat /\ (Cardinality(s) = 0 <=> s = {})
  BY FS_Subset, FS_CardinalityType, FS_EmptySet
<1>2. \A s \in SUBSET S : g[s] = Adds(F, g, s) /\ g[s] \in Nat
  BY DEF IsSum
<1>3. \A s \in SUBSET S : s # {} => Chosen(s) \in s
  BY DEF Chosen
<1>4. 0 \in N
  <2>1. ASSUME NEW x \in S
        PROVE  g[{} \cup {x}] = F[x] + g[{}]
    <3>1. Chosen({x}) = x /\ {x} \ {x} = {} /\ {x} \in SUBSET S /\ {} \cup {x} = {x} /\ {x} # {}
      BY <1>3
    <3>2. g[{x}] = F[x] + g[{}]
      BY <3>1, <1>2 DEF Adds
    <3>3. QED
      BY <3>1, <3>2
  <2>2. \A s \in SUBSET S : Cardinality(s) <= 0 => s = {}
    BY <1>1
  <2>3. QED
    BY <2>1, <2>2
<1>5. ASSUME NEW n \in N
      PROVE  n + 1 \in N
  <2> SUFFICES ASSUME NEW s \in SUBSET S, Cardinality(s) <= n + 1, NEW x \in S \ s
               PROVE  g[s \cup {x}] = F[x] + g[s]
    BY <1>5
  <2> DEFINE c == Chosen(s \cup {x})
  <2>1. c \in s \cup {x} /\ g[s \cup {x}] = F[c] + g[(s \cup {x}) \ {c}]
    <3>1. s \cup {x} \in SUBSET S /\ s \cup {x} # {}
      OBVIOUS
    <3>2. QED
      BY <3>1, <1>2, <1>3 DEF Adds
  <2> HIDE DEF c
  <2>2. CASE c = x
    <3>1. (s \cup {x}) \ {c} = s
      BY <2>2
    <3>2. QED
      BY <3>1, <2>1, <2>2
  <2>3. CASE c # x
    <3> DEFINE r == s \ {c}
    <3>1. c \in s /\ r \in SUBSET S /\ (s \cup {x}) \ {c} = r \cup {x} /\ s = r \cup {c} /\ c \notin r /\ x \notin r
      BY <2>1, <2>3
    <3>2. Cardinality(r) <= n
      <4>1. Cardinality(r) = Cardinality(s) - 1
        BY <3>1, <1>1, FS_RemoveElement
      <4>2. QED
        BY <4>1, <1>1, <1>5
    <3> HIDE DEF r
    <3>3. Adding(r)
      BY <3>1, <3>2, <1>5
    <3>4. g[r \cup {x}] = F[x] + g[r] /\ g[r \cup {c}] = F[c] + g[r]
      BY <3>1, <3>3
    <3>5. g[r] \in Nat /\ F[x] \in Nat /\ F[c] \in Nat
      BY <3>1, <1>2
    <3>6. g[s \cup {x}] = F[c] + (F[x] + g[r]) /\ g[s] = F[c] + g[r]
      BY <3>1, <3>4, <2>1
    <3>7. QED
      BY <3>5, <3>6
  <2>4. QED
    BY <2>2, <2>3
<1>6. N = Nat
  <2> HIDE DEF N
  <2>1. N \in SUBSET Nat
    BY DEF N
  <2>2. QED
    BY <1>4, <1>5, <2>1, SetInduction
<1>7. Cardinality(U) \in N /\ U \in SUBSET S
  BY <1>1, <1>6
<1>8. Adding(U)
  BY <1>7, <1>1
<1>9. QED
  BY <1>8

\* The sum of F over a finite set is what any such function says of the whole set.
LEMMA SumIs ==
    ASSUME NEW S, IsFiniteSet(S), NEW F \in [S -> Nat], NEW g \in [SUBSET S -> Nat], IsSum(F, S, g)
    PROVE  MapThenSumSet(LAMBDA x : F[x], S) = g[S]
<1> DEFINE h == CHOOSE iter : IsSum(F, S, iter)
<1>1. \E iter : IsSum(F, S, iter)
  OBVIOUS
<1>2. IsSum(F, S, h)
  BY <1>1
<1>3. MapThenSumSet(LAMBDA x : F[x], S) = h[S]
  BY DEF MapThenSumSet, MapThenFoldSet, IsSum, Adds, Chosen
<1> HIDE DEF h
<1>4. h[S] = g[S]
  BY <1>2, SumAgrees
<1>5. QED
  BY <1>3, <1>4

\* The sum of the values of F over S.
Sum(F, S) == MapThenSumSet(LAMBDA x : F[x], S)

\* A sum of natural numbers is one.
LEMMA SumIsNatural ==
    ASSUME NEW S, IsFiniteSet(S), NEW F \in [S -> Nat]
    PROVE  Sum(F, S) \in Nat
<1>1. PICK g \in [SUBSET S -> Nat] : IsSum(F, S, g)
  BY SumExists
<1>2. Sum(F, S) = g[S]
  BY <1>1, SumIs DEF Sum
<1>3. QED
  BY <1>2

\* The sum over nothing.
LEMMA SumOfNothing == \A F \in [{} -> Nat] : Sum(F, {}) = 0
<1> TAKE F \in [{} -> Nat]
<1>1. IsFiniteSet({})
  BY FS_EmptySet
<1>2. PICK g \in [SUBSET {} -> Nat] : IsSum(F, {}, g)
  BY <1>1, SumExists
<1>3. Sum(F, {}) = g[{}]
  BY <1>1, <1>2, SumIs DEF Sum
<1>4. g[{}] = 0
  BY <1>2 DEF IsSum, Adds
<1>5. QED
  BY <1>3, <1>4

\* Where two maps differ at one member only, their sums differ by what they differ there.
LEMMA SumTakesOut ==
    ASSUME NEW S, IsFiniteSet(S), NEW F \in [S -> Nat], NEW g \in [SUBSET S -> Nat], IsSum(F, S, g), NEW y \in S
    PROVE  g[S] = F[y] + g[S \ {y}]
<1> DEFINE U == S \ {y}
<1>1. U \in SUBSET (S \ {y}) /\ U \cup {y} = S
  OBVIOUS
<1> HIDE DEF U
<1>2. g[U \cup {y}] = F[y] + g[U]
  BY <1>1, SumAdds
<1>3. QED
  BY <1>1, <1>2 DEF U

\* Changing one number changes the sum by as much.
LEMMA SumChanges ==
    ASSUME NEW S, IsFiniteSet(S), NEW F \in [S -> Nat], NEW G \in [S -> Nat],
           NEW y \in S, \A x \in S \ {y} : F[x] = G[x]
    PROVE  Sum(G, S) + F[y] = Sum(F, S) + G[y]
<1>1. PICK g \in [SUBSET S -> Nat] : IsSum(F, S, g)
  BY SumExists
<1>2. PICK h \in [SUBSET S -> Nat] : IsSum(G, S, h)
  BY SumExists
<1>3. g[S \ {y}] = h[S \ {y}]
  <2>1. S \ {y} \in SUBSET (S \cap S) /\ \A x \in S \ {y} : F[x] = G[x]
    OBVIOUS
  <2>2. QED
    BY <1>1, <1>2, <2>1, SumAgrees
<1>4. g[S] = F[y] + g[S \ {y}]
  BY <1>1, SumTakesOut
<1>5. h[S] = G[y] + h[S \ {y}]
  BY <1>2, SumTakesOut, Z3
<1>6. Sum(F, S) = g[S] /\ Sum(G, S) = h[S]
  BY <1>1, <1>2, SumIs DEF Sum
<1>7. g[S \ {y}] \in Nat /\ F[y] \in Nat /\ G[y] \in Nat
  OBVIOUS
<1>8. QED
  BY <1>3, <1>4, <1>5, <1>6, <1>7

\* A sum of zeros.
LEMMA SumOfZeros ==
    ASSUME NEW S, IsFiniteSet(S), NEW F \in [S -> Nat], \A x \in S : F[x] = 0
    PROVE  Sum(F, S) = 0
<1> DEFINE g == [s \in SUBSET S |-> 0]
<1>1. \A s \in SUBSET S : Adds(F, g, s) = 0
  <2> TAKE s \in SUBSET S
  <2>1. s # {} => Chosen(s) \in S /\ s \ {Chosen(s)} \in SUBSET S
    BY DEF Chosen
  <2>2. QED
    BY <2>1 DEF Adds
<1>2. g \in [SUBSET S -> Nat] /\ g[S] = 0
  OBVIOUS
<1>3. IsSum(F, S, g)
  BY <1>1 DEF IsSum
<1> HIDE DEF g
<1>4. QED
  BY <1>2, <1>3, SumIs DEF Sum
================================================================================
