------------------------------- MODULE FiniteSums -------------------------------
(***************************************************************************)
(* Sums of integers over a finite set, as FiniteSetsExt defines them, by   *)
(* recursion: how a sum changes with its terms and with its set.           *)
(*                                                                         *)
(* The rules of induction of the library take a predicate, which the       *)
(* provers cannot instantiate.  SubsetsInductive states induction on       *)
(* finite sets with a set instead, and follows from the library's theorem  *)
(* that a well-founded relation has minimal elements.  The recursion of a  *)
(* sum is then known to have a solution, since counting the pairs of an    *)
(* element and a number up to its term (Units), and taking away those of   *)
(* the opposite terms, is one.                                             *)
(***************************************************************************)
EXTENDS Integers, FiniteSetsExt, FiniteSetTheorems, TLAPS

Sum(f, S) == MapThenSumSet(LAMBDA x : f[x], S)

(* The terms that are summed are integers. *)
Terms(f, S) == IsFiniteSet(S) /\ \A x \in S : f[x] \in Int

Units(f, S) == { xi \in S \X Nat : xi[2] \in 1..f[xi[1]] }

Opposite(f, S) == [x \in S |-> -f[x]]

(* The sum over s, a subset of S *)
Net(f, S, s) == Cardinality(Units(f, s)) - Cardinality(Units(Opposite(f, S), s))

Picked(s) == CHOOSE x \in s : TRUE

(* g is what the recursion in the definition of the sum says. *)
Sums(f, S, g) ==
  g = [s \in SUBSET S |-> IF s = {} THEN 0 ELSE f[Picked(s)] + g[s \ {Picked(s)}]]

(* What holds of a subset when it holds of those that lack one element holds *)
(* of all subsets of a finite set.                                           *)
LEMMA SubsetsInductive ==
  ASSUME NEW S, IsFiniteSet(S), NEW T,
         \A s \in SUBSET S : (\A x \in s : s \ {x} \in T) => s \in T
  PROVE  SUBSET S \subseteq T
<1> DEFINE bad == (SUBSET S) \ T
<1>1. IsWellFoundedOn(StrictSubsetOrdering(S), SUBSET S)
  BY FS_StrictSubsetOrderingWellFounded, FS_FiniteSubsetsOfFinite
<1>2. SUFFICES ASSUME bad # {}
               PROVE  FALSE
  OBVIOUS
<1>3. PICK s \in bad : \A t \in bad : <<t, s>> \notin StrictSubsetOrdering(S)
  <2>1. bad \subseteq SUBSET S
    OBVIOUS
  <2> HIDE DEF bad
  <2> QED
    BY <1>1, <1>2, <2>1, WFMin
<1>4. ASSUME NEW x \in s
      PROVE  s \ {x} \in T
  <2>1. s \ {x} \in SUBSET S /\ <<s \ {x}, s>> \in StrictSubsetOrdering(S)
    BY <1>3, <1>4 DEF StrictSubsetOrdering
  <2> QED
    BY <1>3, <2>1
<1>5. s \in SUBSET S /\ s \notin T
  BY <1>3
<1>6. s \in T
  <2> HIDE DEF bad
  <2> QED
    BY <1>4, <1>5
<1> QED
  BY <1>5, <1>6

(* One term has as many units as it says, if it is positive. *)
LEMMA UnitsOfOne ==
  ASSUME NEW f, NEW x, f[x] \in Int
  PROVE  /\ IsFiniteSet({x} \X (1..f[x]))
         /\ Cardinality({x} \X (1..f[x])) = IF f[x] > 0 THEN f[x] ELSE 0
<1>1. IsFiniteSet({x}) /\ Cardinality({x}) = 1
  BY FS_Singleton
<1>2. IsFiniteSet(1..f[x]) /\ Cardinality(1..f[x]) = IF f[x] > 0 THEN f[x] ELSE 0
  BY FS_Interval
<1>3. /\ IsFiniteSet({x} \X (1..f[x]))
      /\ Cardinality({x} \X (1..f[x])) = Cardinality({x}) * Cardinality(1..f[x])
  BY <1>1, <1>2, FS_Product
<1> QED
  BY <1>1, <1>2, <1>3

(* The units of finitely many terms are finitely many. *)
LEMMA UnitsFinite ==
  ASSUME NEW f, NEW S, Terms(f, S)
  PROVE  \A s \in SUBSET S : IsFiniteSet(Units(f, s))
<1> DEFINE T == { s \in SUBSET S : IsFiniteSet(Units(f, s)) }
<1>1. ASSUME NEW s \in SUBSET S, \A x \in s : s \ {x} \in T
      PROVE  s \in T
  <2>1. CASE s = {}
    <3>1. Units(f, s) = {}
      BY <2>1 DEF Units
    <3> QED
      BY <3>1, FS_EmptySet
  <2>2. CASE s # {}
    <3>1. PICK x \in s : s \ {x} \in T
      BY <1>1, <2>2
    <3>2. Units(f, s) = Units(f, s \ {x}) \cup ({x} \X (1..f[x]))
      BY <3>1 DEF Units, Terms
    <3>3. IsFiniteSet({x} \X (1..f[x])) /\ IsFiniteSet(Units(f, s \ {x}))
      BY <3>1, UnitsOfOne DEF Terms
    <3>4. IsFiniteSet(Units(f, s))
      <4> DEFINE A == Units(f, s \ {x})
      <4> DEFINE B == {x} \X (1..f[x])
      <4>1. IsFiniteSet(A) /\ IsFiniteSet(B)
        BY <3>3
      <4> HIDE DEF A, B
      <4>2. IsFiniteSet(A \cup B)
        BY <4>1, FS_Union
      <4> QED
        BY <3>2, <4>2 DEF A, B
    <3> QED
      BY <3>4
  <2> QED
    BY <2>1, <2>2
<1> HIDE DEF T
<1>2. SUBSET S \subseteq T
  BY <1>1, SubsetsInductive DEF Terms
<1> QED
  BY <1>2 DEF T

(* The units are those of one term and those of the others. *)
LEMMA UnitsOfRest ==
  ASSUME NEW f, NEW S, Terms(f, S), NEW s \in SUBSET S, NEW x \in s
  PROVE  /\ Cardinality(Units(f, s)) \in Nat /\ Cardinality(Units(f, s \ {x})) \in Nat
         /\ Cardinality(Units(f, s)) =
              (IF f[x] > 0 THEN f[x] ELSE 0) + Cardinality(Units(f, s \ {x}))
<1> DEFINE A == Units(f, s \ {x})
<1> DEFINE B == {x} \X (1..f[x])
<1>1. Units(f, s) = A \cup B /\ A \cap B = {}
  BY DEF Units, Terms
<1>2. IsFiniteSet(A) /\ IsFiniteSet(B) /\ Cardinality(B) = IF f[x] > 0 THEN f[x] ELSE 0
  BY UnitsFinite, UnitsOfOne DEF Terms
<1>3. f[x] \in Int /\ Cardinality(A) \in Nat
  BY <1>2, FS_CardinalityType DEF Terms
<1> HIDE DEF A, B
<1>4. Cardinality(A \cap B) = 0
  BY <1>1, FS_EmptySet
<1>5. Cardinality(A \cup B) = Cardinality(A) + Cardinality(B) - Cardinality(A \cap B)
  BY <1>2, FS_Union
<1>6. Cardinality(Units(f, s)) = (IF f[x] > 0 THEN f[x] ELSE 0) + Cardinality(A)
  BY <1>1, <1>2, <1>3, <1>4, <1>5
<1>7. Cardinality(Units(f, s)) \in Nat
  BY <1>3, <1>6
<1> QED
  BY <1>3, <1>6, <1>7 DEF A

(* The net number is one term and the net number of the others. *)
LEMMA NetOfRest ==
  ASSUME NEW f, NEW S, Terms(f, S), NEW s \in SUBSET S
  PROVE  /\ Net(f, S, s) \in Int
         /\ s = {} => Net(f, S, s) = 0
         /\ \A x \in s : Net(f, S, s) = f[x] + Net(f, S, s \ {x})
<1> DEFINE g == Opposite(f, S)
<1>1. Terms(g, S) /\ \A x \in S : g[x] = -f[x] /\ f[x] \in Int
  BY DEF Terms, Opposite
<1>2. CASE s = {}
  <2>1. Units(f, s) = {} /\ Units(g, s) = {}
    BY <1>2 DEF Units
  <2> QED
    BY <1>2, <2>1, FS_EmptySet DEF Net
<1>3. ASSUME NEW x \in s
      PROVE  Net(f, S, s) = f[x] + Net(f, S, s \ {x}) /\ Net(f, S, s) \in Int
  <2> HIDE DEF g
  <2>1. /\ Cardinality(Units(f, s)) \in Nat /\ Cardinality(Units(f, s \ {x})) \in Nat
        /\ Cardinality(Units(f, s)) =
             (IF f[x] > 0 THEN f[x] ELSE 0) + Cardinality(Units(f, s \ {x}))
    BY UnitsOfRest
  <2>2. /\ Cardinality(Units(g, s)) \in Nat /\ Cardinality(Units(g, s \ {x})) \in Nat
        /\ Cardinality(Units(g, s)) =
             (IF g[x] > 0 THEN g[x] ELSE 0) + Cardinality(Units(g, s \ {x}))
    BY <1>1, UnitsOfRest
  <2>3. /\ Net(f, S, s) = Cardinality(Units(f, s)) - Cardinality(Units(g, s))
        /\ Net(f, S, s \ {x}) = Cardinality(Units(f, s \ {x})) - Cardinality(Units(g, s \ {x}))
    BY DEF Net, g
  <2> QED
    BY <1>1, <2>1, <2>2, <2>3
<1> QED
  BY <1>2, <1>3

(* The recursion has a solution, so what CHOOSE takes is one. *)
LEMMA SumsExist ==
  ASSUME NEW f, NEW S, Terms(f, S)
  PROVE  Sums(f, S, [s \in SUBSET S |-> Net(f, S, s)])
<1> DEFINE g == [s \in SUBSET S |-> Net(f, S, s)]
<1>1. ASSUME NEW s \in SUBSET S
      PROVE  g[s] = IF s = {} THEN 0 ELSE f[Picked(s)] + g[s \ {Picked(s)}]
  <2>1. s # {} => Picked(s) \in s /\ s \ {Picked(s)} \in SUBSET S
    BY DEF Picked
  <2> QED
    BY <2>1, NetOfRest
<1> QED
  BY <1>1 DEF Sums

(* There is only one. *)
LEMMA SumsAgree ==
  ASSUME NEW f, NEW S, IsFiniteSet(S), NEW g, NEW h, Sums(f, S, g), Sums(f, S, h)
  PROVE  \A s \in SUBSET S : g[s] = h[s]
<1> DEFINE T == { s \in SUBSET S : g[s] = h[s] }
<1>1. ASSUME NEW s \in SUBSET S, \A x \in s : s \ {x} \in T
      PROVE  s \in T
  <2>1. /\ g[s] = IF s = {} THEN 0 ELSE f[Picked(s)] + g[s \ {Picked(s)}]
        /\ h[s] = IF s = {} THEN 0 ELSE f[Picked(s)] + h[s \ {Picked(s)}]
    BY DEF Sums
  <2>2. s # {} => Picked(s) \in s
    BY DEF Picked
  <2>3. s # {} => g[s \ {Picked(s)}] = h[s \ {Picked(s)}]
    BY <1>1, <2>2
  <2> QED
    BY <2>1, <2>3
<1> HIDE DEF T
<1>2. SUBSET S \subseteq T
  BY <1>1, SubsetsInductive
<1> QED
  BY <1>2 DEF T

(* A sum of integers is what its positive terms count less what the others do. *)
LEMMA SumOfTerms ==
  ASSUME NEW f, NEW S, Terms(f, S)
  PROVE  Sum(f, S) = Net(f, S, S) /\ Sum(f, S) \in Int
<1> DEFINE g == CHOOSE h : Sums(f, S, h)
<1> DEFINE u == [s \in SUBSET S |-> Net(f, S, s)]
<1>1. Sums(f, S, u)
  BY SumsExist
<1>2. Sums(f, S, g)
  BY <1>1
<1>3. Sum(f, S) = g[S]
  BY DEF Sum, MapThenSumSet, MapThenFoldSet, Sums, Picked
<1>4. g[S] = u[S]
  <2> HIDE DEF g, u
  <2> QED
    BY <1>1, <1>2, SumsAgree DEF Terms
<1> QED
  BY <1>3, <1>4, NetOfRest

(* The sum of no terms is 0. *)
LEMMA SumOfNone ==
  ASSUME NEW f
  PROVE  Sum(f, {}) = 0
<1>1. Terms(f, {})
  BY FS_EmptySet DEF Terms
<1> QED
  BY <1>1, SumOfTerms, NetOfRest

(* A sum is one of its terms and the sum of the others. *)
LEMMA SumOfRest ==
  ASSUME NEW f, NEW S, Terms(f, S), NEW x \in S
  PROVE  Sum(f, S) = f[x] + Sum(f, S \ {x}) /\ Terms(f, S \ {x})
<1> DEFINE R == S \ {x}
<1>1. Terms(f, R)
  BY FS_Difference DEF Terms
<1>2. Sum(f, S) = Net(f, S, S) /\ Net(f, S, S) = f[x] + Net(f, S, R)
  BY SumOfTerms, NetOfRest
<1>3. Sum(f, R) = Net(f, R, R)
  BY <1>1, SumOfTerms
<1>4. Units(Opposite(f, R), R) = Units(Opposite(f, S), R)
  BY DEF Units, Opposite
<1> QED
  BY <1>1, <1>2, <1>3, <1>4 DEF Net

(* Equal terms, equal sums. *)
LEMMA SumOfEquals ==
  ASSUME NEW f, NEW g, NEW S, Terms(f, S), \A x \in S : g[x] = f[x]
  PROVE  Sum(g, S) = Sum(f, S) /\ Terms(g, S)
<1>1. Terms(g, S) /\ Units(g, S) = Units(f, S) /\ Opposite(g, S) = Opposite(f, S)
  BY DEF Terms, Units, Opposite
<1> QED
  BY <1>1, SumOfTerms DEF Net

(* A sum changes by what one of its terms changes. *)
LEMMA SumWithOne ==
  ASSUME NEW f, NEW g, NEW S, Terms(f, S), NEW x \in S, g[x] \in Int,
         \A y \in S \ {x} : g[y] = f[y]
  PROVE  Sum(g, S) = Sum(f, S) + g[x] - f[x] /\ Terms(g, S)
<1>1. Terms(g, S) /\ Terms(f, S \ {x})
  BY SumOfRest DEF Terms
<1>2. Sum(g, S \ {x}) = Sum(f, S \ {x})
  BY <1>1, SumOfEquals
<1>3. Sum(f, S) = f[x] + Sum(f, S \ {x})
  BY SumOfRest
<1>4. Sum(g, S) = g[x] + Sum(g, S \ {x})
  BY <1>1, SumOfRest
<1>5. Sum(f, S \ {x}) \in Int /\ f[x] \in Int
  BY <1>1, SumOfTerms DEF Terms
<1> QED
  BY <1>1, <1>2, <1>3, <1>4, <1>5

(* The same of two terms. *)
LEMMA SumWithTwo ==
  ASSUME NEW f, NEW g, NEW S, Terms(f, S), NEW x \in S, NEW y \in S, x # y,
         g[x] \in Int, g[y] \in Int, \A z \in S \ {x, y} : g[z] = f[z]
  PROVE  Sum(g, S) = Sum(f, S) + (g[x] + g[y]) - (f[x] + f[y]) /\ Terms(g, S)
<1>1. Terms(g, S) /\ Terms(f, S \ {x}) /\ Terms(g, S \ {x})
  BY SumOfRest DEF Terms
<1>2. Sum(g, S \ {x}) = Sum(f, S \ {x}) + g[y] - f[y]
  BY <1>1, SumWithOne
<1>3. Sum(f, S) = f[x] + Sum(f, S \ {x})
  BY SumOfRest
<1>4. Sum(g, S) = g[x] + Sum(g, S \ {x})
  BY <1>1, SumOfRest
<1>5. Sum(f, S \ {x}) \in Int /\ f[x] \in Int /\ f[y] \in Int
  BY <1>1, SumOfTerms DEF Terms
<1> QED
  BY <1>1, <1>2, <1>3, <1>4, <1>5

(* A sum of zeros is 0. *)
LEMMA SumOfZeros ==
  ASSUME NEW f, NEW S, IsFiniteSet(S), \A x \in S : f[x] = 0
  PROVE  Sum(f, S) = 0
<1>1. Terms(f, S)
  BY DEF Terms
<1>2. Units(f, S) = {} /\ Units(Opposite(f, S), S) = {}
  BY DEF Units, Opposite
<1>3. Sum(f, S) = Cardinality({}) - Cardinality({})
  BY <1>1, <1>2, SumOfTerms DEF Net
<1> QED
  BY <1>3, FS_EmptySet

(* A sum of natural numbers is one. *)
LEMMA SumOfNats ==
  ASSUME NEW f, NEW S, IsFiniteSet(S), \A x \in S : f[x] \in Nat
  PROVE  Sum(f, S) \in Nat
<1>1. Terms(f, S)
  BY DEF Terms
<1>2. Units(Opposite(f, S), S) = {}
  BY DEF Units, Opposite
<1>3. Cardinality(Units(f, S)) \in Nat
  BY <1>1, UnitsFinite, FS_CardinalityType
<1>4. Sum(f, S) = Cardinality(Units(f, S)) - Cardinality({})
  BY <1>1, <1>2, SumOfTerms DEF Net
<1> QED
  BY <1>3, <1>4, FS_EmptySet

(* A sum of the fields k of the terms *)
SumOfField(f, k, S) == MapThenSumSet(LAMBDA x : f[x][k], S)

Field(f, k, S) == [x \in S |-> f[x][k]]

(* It is the sum of the function that takes every term to its field. *)
LEMMA FieldsSum ==
  ASSUME NEW f, NEW k, NEW S, Terms(Field(f, k, S), S)
  PROVE  SumOfField(f, k, S) = Sum(Field(f, k, S), S)
<1> DEFINE F == Field(f, k, S)
<1> DEFINE P(h) == h = [s \in SUBSET S |->
                         IF s = {} THEN 0 ELSE f[Picked(s)][k] + h[s \ {Picked(s)}]]
<1> DEFINE g == CHOOSE h : P(h)
<1> DEFINE u == [s \in SUBSET S |-> Net(F, S, s)]
<1>1. \A s \in SUBSET S : s # {} => F[Picked(s)] = f[Picked(s)][k]
  BY DEF Field, Picked
<1>2. Sums(F, S, u)
  BY SumsExist
<1>3. P(u)
  BY <1>1, <1>2 DEF Sums
<1>4. P(g)
  <2> HIDE DEF u, P
  <2> QED
    BY <1>3
<1>5. Sums(F, S, g)
  <2> HIDE DEF g, F
  <2> QED
    BY <1>1, <1>4 DEF Sums
<1>6. SumOfField(f, k, S) = g[S]
  BY DEF SumOfField, MapThenSumSet, MapThenFoldSet, Picked
<1>7. g[S] = u[S]
  <2> HIDE DEF g, u, F
  <2> QED
    BY <1>2, <1>5, SumsAgree DEF Terms
<1> QED
  BY <1>6, <1>7, SumOfTerms
================================================================================
