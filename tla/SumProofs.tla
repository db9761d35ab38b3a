----------------------------- MODULE SumProofs ------------------------------
(***************************************************************************)
(* Sums over finite sets.  SumFunction is a recursion over subsets: it has *)
(* a solution, and that is all a proof can start from.  Induction is on    *)
(* sets, of numbers or of subsets, as a least counterexample.              *)
(***************************************************************************)
EXTENDS Integers, FiniteSetsExt, FiniteSetTheorems, WellFoundedInduction, TLAPS

(* A non-empty set of natural numbers has a least element.                 *)
LEMMA LeastNatural ==
    ASSUME NEW S, S \subseteq Nat, S # {}
    PROVE  \E n \in S : \A m \in S : n =< m
<1>p. PICK x \in S : \A y \in S : ~(<<y, x>> \in OpToRel(<, Nat))
  BY WFMin, NatLessThanWellFounded
<1>1. ASSUME NEW y \in S
      PROVE  x =< y
  <2>1. <<y, x>> \in Nat \X Nat /\ <<y, x>>[1] = y /\ <<y, x>>[2] = x
    OBVIOUS
  <2>2. <<y, x>>[1] < <<y, x>>[2] => <<y, x>> \in OpToRel(<, Nat)
    BY <2>1, Zenon DEF OpToRel
  <2>3. ~(y < x)
    BY <2>1, <2>2, <1>p
  <2> QED
    BY <2>3
<1> QED
  BY <1>1

(* Induction: a set of naturals with 0, closed under successor.            *)
LEMMA Induction ==
    ASSUME NEW P, 0 \in P, \A n \in Nat : n \in P => n + 1 \in P
    PROVE  Nat \subseteq P
<1> SUFFICES ASSUME Nat \ P # {} PROVE FALSE
  OBVIOUS
<1>1. PICK n \in Nat \ P : \A m \in Nat \ P : n =< m
  BY LeastNatural
<1>2. n # 0 /\ n - 1 \in Nat /\ ~(n =< n - 1)
  OBVIOUS
<1>3. n - 1 \in P /\ (n - 1) + 1 = n
  BY <1>1, <1>2
<1> QED
  BY <1>2, <1>3

\* The element that folds take away from a set first.
AnyOf(s) == CHOOSE x \in s : TRUE

(* The recursion behind SumFunction: g adds up f over the sets of D.       *)
AddsUp(g, f, D) ==
    g = [s \in D |-> IF s = {} THEN 0 ELSE f[AnyOf(s)] + g[s \ {AnyOf(s)}]]

(* Taking an element away.                                                 *)
LEMMA AnySmaller ==
    ASSUME NEW S, IsFiniteSet(S), NEW s \in SUBSET S, s # {}
    PROVE  /\ AnyOf(s) \in s /\ AnyOf(s) \in S
           /\ s \ {AnyOf(s)} \in SUBSET S
           /\ Cardinality(s) \in Nat /\ Cardinality(s \ {AnyOf(s)}) = Cardinality(s) - 1
<1>1. AnyOf(s) \in s
  BY DEF AnyOf
<1>2. IsFiniteSet(s)
  BY FS_Subset
<1> QED
  BY <1>1, <1>2, FS_RemoveElement, FS_CardinalityType

(* There is such a function.                                               *)
LEMMA SumExists ==
    ASSUME NEW S, IsFiniteSet(S), NEW f
    PROVE  \E g : AddsUp(g, f, SUBSET S)
<1> DEFINE D(n) == {s \in SUBSET S : Cardinality(s) =< n}
           P == {n \in Nat : \E g : AddsUp(g, f, D(n))}
<1>1. 0 \in P
  <2>1. D(0) = {{}}
    <3>1. ASSUME NEW s \in D(0) PROVE s = {}
      <4>1. s # {} => Cardinality(s) \in Nat /\ Cardinality(s \ {AnyOf(s)}) \in Nat
                      /\ Cardinality(s \ {AnyOf(s)}) = Cardinality(s) - 1
        BY AnySmaller, FS_Subset, FS_CardinalityType
      <4> QED
        BY <4>1
    <3>2. {} \in D(0)
      BY FS_EmptySet
    <3> QED
      BY <3>1, <3>2
  <2>2. AddsUp([s \in D(0) |-> 0], f, D(0))
    <3> HIDE DEF D
    <3> QED
      BY <2>1 DEF AddsUp
  <2> QED
    BY <2>2
<1>2. ASSUME NEW n \in Nat, n \in P
      PROVE  n + 1 \in P
  <2>1. PICK g : AddsUp(g, f, D(n))
    BY <1>2
  <2> DEFINE h == [s \in D(n + 1) |-> IF s \in D(n) THEN g[s]
                                      ELSE f[AnyOf(s)] + g[s \ {AnyOf(s)}]]
  <2>2. D(n) \subseteq D(n + 1)
    <3>1. ASSUME NEW s \in D(n) PROVE Cardinality(s) =< n + 1
      BY FS_Subset, FS_CardinalityType
    <3> QED
      BY <3>1
  <2>3. ASSUME NEW s \in D(n + 1), s # {}
        PROVE  s \ {AnyOf(s)} \in D(n) /\ h[s \ {AnyOf(s)}] = g[s \ {AnyOf(s)}]
    <3>1. s \ {AnyOf(s)} \in D(n)
      BY <2>3, AnySmaller
    <3> HIDE DEF D
    <3> QED
      BY <3>1, <2>2
  <2>4. {} \in D(n)
    BY FS_EmptySet
  <2>5. ASSUME NEW s \in D(n + 1)
        PROVE  h[s] = IF s = {} THEN 0 ELSE f[AnyOf(s)] + h[s \ {AnyOf(s)}]
    <3> HIDE DEF D
    <3>1. ASSUME NEW t \in D(n)
          PROVE  g[t] = IF t = {} THEN 0 ELSE f[AnyOf(t)] + g[t \ {AnyOf(t)}]
      BY <2>1 DEF AddsUp
    <3>2. CASE s \in D(n)
      BY <3>1, <3>2, <2>2, <2>3
    <3>3. CASE s \notin D(n)
      BY <3>3, <2>3, <2>4
    <3> QED
      BY <3>2, <3>3
  <2>6. AddsUp(h, f, D(n + 1))
    <3> HIDE DEF D
    <3>1. h = [s \in D(n + 1) |-> h[s]]
      OBVIOUS
    <3> HIDE DEF h
    <3> QED
      BY <2>5, <3>1 DEF AddsUp
  <2>7. n + 1 \in Nat /\ \E k : AddsUp(k, f, D(n + 1))
    <3> HIDE DEF D, h
    <3> QED
      BY <2>6
  <2> HIDE DEF D
  <2> QED
    BY <2>7
<1>3. Nat \subseteq P
  <2> HIDE DEF P
  <2> QED
    BY <1>1, <1>2, Induction
<1>4. D(Cardinality(S)) = SUBSET S
  BY FS_Subset
<1>5. Cardinality(S) \in P
  BY <1>3, FS_CardinalityType
<1> QED
  <2> HIDE DEF D
  <2> QED
    BY <1>4, <1>5

\* The sums of f over all subsets of S.
Sums(f, S) == CHOOSE g : AddsUp(g, f, SUBSET S)

(* So SumFunction is defined.                                              *)
LEMMA SumDef ==
    ASSUME NEW S, IsFiniteSet(S), NEW f, DOMAIN f = S
    PROVE  /\ SumFunction(f) = Sums(f, S)[S]
           /\ \A s \in SUBSET S : Sums(f, S)[s] =
                  IF s = {} THEN 0 ELSE f[AnyOf(s)] + Sums(f, S)[s \ {AnyOf(s)}]
<1>1. SumFunction(f) = Sums(f, S)[S]
  BY DEF SumFunction, SumFunctionOnSet, FoldFunctionOnSet, MapThenFoldSet, Sums, AddsUp, AnyOf
<1>2. AddsUp(Sums(f, S), f, SUBSET S)
  BY SumExists DEF Sums
<1> QED
  BY <1>1, <1>2 DEF AddsUp

(* A set of subsets with {} and each set from which taking an element away *)
(* gives a member has all subsets.                                         *)
LEMMA SubsetInduction ==
    ASSUME NEW S, IsFiniteSet(S), NEW G, {} \in G,
           \A s \in SUBSET S : (s # {} /\ s \ {AnyOf(s)} \in G) => s \in G
    PROVE  S \in G
<1> DEFINE P == {n \in Nat : \A s \in SUBSET S : Cardinality(s) = n => s \in G}
<1>1. 0 \in P
  <2>1. \A s \in SUBSET S : Cardinality(s) = 0 => s = {}
    BY FS_Subset, FS_EmptySet
  <2> QED
    BY <2>1
<1>2. ASSUME NEW n \in Nat, n \in P
      PROVE  n + 1 \in P
  <2> SUFFICES ASSUME NEW s \in SUBSET S, Cardinality(s) = n + 1 PROVE s \in G
    OBVIOUS
  <2>1. s # {}
    <3>1. Cardinality({}) = 0
      BY FS_EmptySet, Zenon
    <3>2. n + 1 # 0
      OBVIOUS
    <3> HIDE DEF P
    <3> QED
      BY <3>1, <3>2
  <2>2. s \ {AnyOf(s)} \in SUBSET S /\ Cardinality(s \ {AnyOf(s)}) = n
    BY <2>1, AnySmaller
  <2> QED
    BY <1>2, <2>1, <2>2
<1>3. Nat \subseteq P
  <2> HIDE DEF P
  <2> QED
    BY <1>1, <1>2, Induction
<1> QED
  BY <1>3, FS_CardinalityType

(* A sum of natural numbers is one.                                        *)
LEMMA SumNat ==
    ASSUME NEW S, IsFiniteSet(S), NEW f \in [S -> Nat]
    PROVE  SumFunction(f) \in Nat
<1> DEFINE G == {s \in SUBSET S : Sums(f, S)[s] \in Nat}
<1>1. {} \in G
  BY SumDef
<1>2. ASSUME NEW s \in SUBSET S, s # {}, s \ {AnyOf(s)} \in G
      PROVE  s \in G
  <2>1. Sums(f, S)[s] = f[AnyOf(s)] + Sums(f, S)[s \ {AnyOf(s)}]
    BY <1>2, SumDef
  <2>2. f[AnyOf(s)] \in Nat
    BY <1>2, AnySmaller
  <2> QED
    BY <1>2, <2>1, <2>2
<1>3. S \in G
  <2> HIDE DEF G
  <2> QED
    BY <1>1, <1>2, SubsetInduction
<1> QED
  BY <1>3, SumDef

(* Nothing adds up to nothing.                                             *)
LEMMA SumZero ==
    ASSUME NEW S, IsFiniteSet(S), NEW f \in [S -> Int], \A x \in S : f[x] = 0
    PROVE  SumFunction(f) = 0
<1> DEFINE G == {s \in SUBSET S : Sums(f, S)[s] = 0}
<1>1. {} \in G
  BY SumDef
<1>2. ASSUME NEW s \in SUBSET S, s # {}, s \ {AnyOf(s)} \in G
      PROVE  s \in G
  <2>1. Sums(f, S)[s] = f[AnyOf(s)] + Sums(f, S)[s \ {AnyOf(s)}]
    BY <1>2, SumDef
  <2>2. f[AnyOf(s)] = 0
    BY <1>2, AnySmaller
  <2> QED
    BY <1>2, <2>1, <2>2
<1>3. S \in G
  <2> HIDE DEF G
  <2> QED
    BY <1>1, <1>2, SubsetInduction
<1> QED
  BY <1>3, SumDef

(* Changing a summand changes the sum by as much.                          *)
LEMMA SumExcept ==
    ASSUME NEW S, IsFiniteSet(S), NEW f \in [S -> Int], NEW x \in S, NEW v \in Int
    PROVE  /\ SumFunction(f) \in Int
           /\ SumFunction([f EXCEPT ![x] = v]) = SumFunction(f) + v - f[x]
<1> DEFINE h == [f EXCEPT ![x] = v]
           G == {s \in SUBSET S :
                    /\ Sums(f, S)[s] \in Int
                    /\ Sums(h, S)[s] = Sums(f, S)[s] + IF x \in s THEN v - f[x] ELSE 0}
<1>a. h \in [S -> Int] /\ h[x] = v /\ \A y \in S \ {x} : h[y] = f[y]
  OBVIOUS
<1> HIDE DEF h
<1>1. {} \in G
  <2>1. Sums(f, S)[{}] = 0 /\ Sums(h, S)[{}] = 0
    BY <1>a, SumDef
  <2> QED
    BY <2>1
<1>2. ASSUME NEW s \in SUBSET S, s # {}, s \ {AnyOf(s)} \in G
      PROVE  s \in G
  <2>1. /\ Sums(f, S)[s] = f[AnyOf(s)] + Sums(f, S)[s \ {AnyOf(s)}]
        /\ Sums(h, S)[s] = h[AnyOf(s)] + Sums(h, S)[s \ {AnyOf(s)}]
    BY <1>2, <1>a, SumDef
  <2>2. AnyOf(s) \in s /\ AnyOf(s) \in S
    BY <1>2, AnySmaller
  <2>3. CASE AnyOf(s) = x
    BY <1>2, <1>a, <2>1, <2>2, <2>3
  <2>4. CASE AnyOf(s) # x
    <3>1. h[AnyOf(s)] = f[AnyOf(s)] /\ f[AnyOf(s)] \in Int /\ f[x] \in Int
      BY <1>a, <2>2, <2>4
    <3>2. x \in s <=> x \in s \ {AnyOf(s)}
      BY <2>4
    <3> QED
      BY <1>2, <2>1, <3>1, <3>2
  <2> QED
    BY <2>3, <2>4
<1>3. S \in G
  <2> HIDE DEF G
  <2> QED
    BY <1>1, <1>2, SubsetInduction
<1>4. SumFunction(f) = Sums(f, S)[S] /\ SumFunction(h) = Sums(h, S)[S]
  BY <1>a, SumDef
<1>5. /\ Sums(f, S)[S] \in Int
      /\ Sums(h, S)[S] = Sums(f, S)[S] + (v - f[x])
  BY <1>3
<1>6. f[x] \in Int
  OBVIOUS
<1> QED
  BY <1>4, <1>5, <1>6 DEF h

(* The same for two functions that differ at one argument, or at two.      *)
LEMMA SumChange ==
    ASSUME NEW S, IsFiniteSet(S), NEW f \in [S -> Int], NEW g \in [S -> Int],
           NEW x \in S, \A z \in S \ {x} : g[z] = f[z]
    PROVE  /\ SumFunction(f) \in Int
           /\ SumFunction(g) = SumFunction(f) + g[x] - f[x]
<1>1. g = [f EXCEPT ![x] = g[x]] /\ g[x] \in Int
  OBVIOUS
<1> QED
  BY <1>1, SumExcept

LEMMA SumChangeTwo ==
    ASSUME NEW S, IsFiniteSet(S), NEW f \in [S -> Int], NEW g \in [S -> Int],
           NEW x \in S, NEW y \in S, x # y, \A z \in S \ {x, y} : g[z] = f[z]
    PROVE  SumFunction(g) = SumFunction(f) + (g[x] - f[x]) + (g[y] - f[y])
<1> DEFINE h == [f EXCEPT ![x] = g[x]]
<1>1. /\ h \in [S -> Int] /\ h[x] = g[x] /\ h[y] = f[y]
      /\ \A z \in S \ {x} : h[z] = f[z]
      /\ \A z \in S \ {y} : g[z] = h[z]
      /\ f[x] \in Int /\ f[y] \in Int /\ g[x] \in Int /\ g[y] \in Int
  OBVIOUS
<1> HIDE DEF h
<1>2. SumFunction(f) \in Int /\ SumFunction(h) = SumFunction(f) + h[x] - f[x]
  BY <1>1, SumChange
<1>3. SumFunction(g) = SumFunction(h) + g[y] - h[y]
  BY <1>1, SumChange
<1> QED
  BY <1>1, <1>2, <1>3

(* No natural number is larger than a sum it takes part in.                *)
LEMMA SumBound ==
    ASSUME NEW S, IsFiniteSet(S), NEW f \in [S -> Nat], NEW x \in S
    PROVE  f[x] =< SumFunction(f)
<1> DEFINE g == [f EXCEPT ![x] = 0]
<1>1. /\ g \in [S -> Nat] /\ g \in [S -> Int] /\ f \in [S -> Int]
      /\ g[x] = 0 /\ f[x] \in Nat
      /\ \A z \in S \ {x} : g[z] = f[z]
  OBVIOUS
<1> HIDE DEF g
<1>2. SumFunction(f) \in Int /\ SumFunction(g) = SumFunction(f) + g[x] - f[x]
  BY <1>1, SumChange
<1>3. SumFunction(g) \in Nat
  BY <1>1, SumNat
<1> QED
  BY <1>1, <1>2, <1>3

(* Nor are two of them together.                                           *)
LEMMA SumBoundTwo ==
    ASSUME NEW S, IsFiniteSet(S), NEW f \in [S -> Nat], NEW x \in S, NEW y \in S, x # y
    PROVE  f[x] + f[y] =< SumFunction(f)
<1> DEFINE g == [f EXCEPT ![x] = 0, ![y] = 0]
<1>1. /\ g \in [S -> Nat] /\ g \in [S -> Int] /\ f \in [S -> Int]
      /\ g[x] = 0 /\ g[y] = 0 /\ f[x] \in Nat /\ f[y] \in Nat
      /\ \A z \in S \ {x, y} : g[z] = f[z]
  OBVIOUS
<1> HIDE DEF g
<1>2. SumFunction(g) = SumFunction(f) + (g[x] - f[x]) + (g[y] - f[y])
  BY <1>1, SumChangeTwo
<1>3. SumFunction(g) \in Nat /\ SumFunction(f) \in Nat
  BY <1>1, SumNat
<1> QED
  BY <1>1, <1>2, <1>3
=============================================================================
